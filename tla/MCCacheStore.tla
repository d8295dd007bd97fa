---------------------------- MODULE MCCacheStore ----------------------------
(* Small instances of CacheStore for TLC. *)
EXTENDS CacheStore, TLC

CONSTANTS k1, k2, t1, t2, c1, c2

Options(sliding, absolute, relative, tags) ==
    [sliding |-> sliding, absolute |-> absolute, relative |-> relative,
     tags |-> tags]

(* A sliding window under a relative and under an absolute ceiling, a      *)
(* short window, a hard cutoff alone and tags alone.                       *)
SlidingRelative == Options(3, Null, 3, {t1, t2})
SlidingAbsolute == Options(2, 2, Null, Null)
ShortSliding    == Options(1, Null, Null, {t1})
CutoffOnly      == Options(Null, Null, 1, {})
TagsOnly        == Options(Null, Null, Null, {t1})

StoreChoices   == {SlidingRelative, SlidingAbsolute, TagsOnly}
RenewalChoices == {ShortSliding}
ScanChoices    == {Null, SlidingAbsolute, CutoffOnly}

BothKeys   == {{k1, k2}}
TagLists   == {{}, {t1}, {t1, t2}}

ClientSymmetry == Permutations(Clients)
=============================================================================
