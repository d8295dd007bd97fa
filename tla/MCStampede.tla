----------------------------- MODULE MCStampede -----------------------------
(* Small instances of Stampede for TLC. *)
EXTENDS Stampede, TLC

CONSTANTS k1, c1, c2, c3

Options(sliding, absolute, relative) ==
    [sliding |-> sliding, absolute |-> absolute, relative |-> relative,
     tags |-> Null]

(* Entries that live for one tick, with and without renewal. *)
SlidingChoices == {Options(1, Null, Null)}
CutoffChoices  == {Options(Null, Null, 1)}
BothChoices    == SlidingChoices \cup CutoffChoices

CallerSymmetry == Permutations(Callers)
=============================================================================
