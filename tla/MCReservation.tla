--------------------------- MODULE MCReservation ---------------------------
(* Two threads that share the hart, interchangeable.                        *)
EXTENDS Reservation, TLC

CONSTANTS t1, t2
BothThreads == {t1, t2}
ThreadSymmetry == Permutations(BothThreads)
=============================================================================
