---------------------------- MODULE MCLifecycle ----------------------------
(* Small instances of Lifecycle for TLC. *)
EXTENDS Lifecycle, TLC

CONSTANTS w1, w2, s1, s2, cache, other

Choice(kind, sources, create, scan) ==
    [kind                       |-> kind,
     sources                    |-> sources,
     table                      |-> cache,
     create_if_not_exists       |-> create,
     enable_expiration_scan     |-> scan,
     expiration_scan_interval   |-> MIN_SCAN_INTERVAL,
     default_sliding_expiration |-> 1]

(* Each kind of cache with each connection source, those it cannot use     *)
(* included, and some that are rejected.                                   *)
AllChoices ==
    {Choice(kind, sources, create, scan) :
        kind \in {"threads", "tasks"},
        sources \in {ss \in SUBSET Sources : Cardinality(ss) # 3},
        create \in BOOLEAN, scan \in BOOLEAN}
    \cup {[Choice("threads", {"dsn"}, TRUE, TRUE) EXCEPT
              !.expiration_scan_interval = MIN_SCAN_INTERVAL - 1],
          [Choice("tasks", {"dsn"}, TRUE, TRUE) EXCEPT
              !.default_sliding_expiration = 0]}

DefaultChoice == {Choice("threads", {"dsn"}, TRUE, TRUE)}
=============================================================================
