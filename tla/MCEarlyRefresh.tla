--------------------------- MODULE MCEarlyRefresh ---------------------------
(* A small instance of EarlyRefresh for TLC. *)
EXTENDS EarlyRefresh, TLC

CONSTANTS k1, c1, c2

CallerSymmetry == Permutations(Callers)
=============================================================================
