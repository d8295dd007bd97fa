-------------------------- MODULE MCDistributedLock --------------------------
(* Small instances of DistributedLock for TLC. *)
EXTENDS DistributedLock, TLC

CONSTANTS k1, c1, c2, c3

Part(value, unit) == [value |-> value, unit |-> unit]

(* "1s", and "1s1s", whose two parts of one unit add up. *)
ShortExpire == {<<Part(1, "s")>>}
BothExpires == {<<Part(0, "s")>>, <<Part(1, "s"), Part(1, "s")>>}

SecondTicks == [u \in {"d", "h", "m", "s"} |->
    CASE u = "s" -> 1 [] u = "m" -> 60 [] u = "h" -> 3600 [] u = "d" -> 86400]

ClientSymmetry == Permutations(Clients)
=============================================================================
