------------------------- MODULE MCMemoryAccessUnit -------------------------
(* Small values for the parameters of MemoryAccessUnit. Page 0 is the root *)
(* table of every configuration.                                           *)
EXTENDS MemoryAccessUnit

Entry(flags, ppn) == [flags |-> flags, ppn |-> ppn]

State(level, bits, depth) ==
    [priv |-> level, status |-> bits, satp |-> [mode |-> depth, ppn |-> 0]]

(* A pointer to a table, one to no memory, a writable user page and an     *)
(* executable one (in Sv32 page 4 is page 0 after the cut to the address   *)
(* width, in Sv39 it is out of memory). At an upper level the third is a   *)
(* misaligned superpage, the last an aligned one.                          *)
MixedWords == {Entry({"V"}, 1), Entry({"V"}, 2), Entry({"V", "R", "W", "U"}, 1),
               Entry({"V", "E", "U"}, 4)}

(* One memory, read as Sv32 tables by the user and as Sv39 tables by the   *)
(* supervisor; the machine level accesses it as it is or as the user does  *)
(* in Sv39 (MPRV), and satp may hold a mode that is not implemented.       *)
MixedStates == {State(Machine, {}, 2), State(User, {MXR}, 2),
                State(Supervisor, {SUM, MXR}, 3), State(Machine, {MPRV}, 3),
                State(User, {}, Unimplemented)}

(* Sv48, the deepest mode.                                                 *)
Sv48Words == {Entry({"V"}, 0), Entry({"V"}, 1), Entry({"V", "R", "W", "U"}, 0)}

Sv48States == {State(User, {}, 4), State(Machine, {}, 4)}
=============================================================================
