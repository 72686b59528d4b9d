------------------------------- MODULE MCFp -------------------------------
(***************************************************************************)
(* Singles of 5 bits, all of them, boxed in registers of 10 bits, with     *)
(* three registers that hold no single; doubles of 10 bits: zeros, least   *)
(* and greatest subnormals and normals, infinities and NaNs of both signs. *)
(***************************************************************************)
EXTENDS Fp

MCSingle == [e |-> 4, f |-> 4]
MCDouble == [e |-> 8, f |-> 64]

MCBoxes == {31 * 32 + v : v \in 0..31} \cup {0, 20, 512 + 12}

MCDoubles == {512 * sign + m : sign \in {0, 1}, m \in {0, 1, 63, 64, 200, 447, 448, 449, 479, 480, 511}}

MCRoundModes == {0, 4, 5, 7}
=============================================================================
