----------------------------- MODULE MCDebugger -----------------------------
(* Two instructions of four bytes, the second one the trap handler, and a  *)
(* compressed one.                                                         *)
EXTENDS Debugger

CodeStarts == {0, 2, 4}
CodeLength == [s \in CodeStarts |-> IF s = 4 THEN 1 ELSE 2]
=============================================================================
