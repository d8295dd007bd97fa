---------------------------- MODULE CacheContract ----------------------------
(***************************************************************************)
(* What the cache promises of its entries and counters, with neither rows, *)
(* statements nor scanners.  An entry is good until a deadline that lies   *)
(* within its window from some use of it, under a ceiling that no use      *)
(* moves.  It goes when a deletion that was asked for is carried out, when *)
(* it is over, or with a cache that is not durable.  A counter moves by    *)
(* one amount at a time, and goes back to 0 with a deletion only.          *)
(***************************************************************************)
EXTENDS Integers

CONSTANTS Entries, Counters, Clients, Values, Amounts, Durable, None

VARIABLES
    clock,
    used,       \* used[k]: when the latest read or write of k began
    deleting,   \* the clients whose deletion is not yet carried out
    entry,      \* the value, window, ceiling and deadline of each entry
    count       \* what each counter stands at

vars == <<clock, used, deleting, entry, count>>

Entry == [value : Values, window : Int \cup {None}, ceiling : Int \cup {None},
          deadline : Int]

Init ==
    /\ clock = 0
    /\ used = [k \in Entries |-> 0]
    /\ deleting = {}
    /\ entry = [k \in {} |-> None]
    /\ count = [k \in Counters |-> 0]

Without(f, S) == [x \in DOMAIN f \ S |-> f[x]]

Over(k) == entry[k].deadline < clock

(* The deadline of an entry that was used at t. *)
Deadline(e, t) ==
    IF e.ceiling # None /\ e.ceiling < t + e.window THEN e.ceiling
                                                    ELSE t + e.window

Within(e, u) ==
    /\ e.ceiling # None => e.deadline <= e.ceiling
    /\ e.window # None => e.deadline <= u + e.window

(* A read or a write of ks begins; it may take effect later, or never. *)
Use(ks) ==
    /\ used' = [k \in Entries |-> IF k \in ks THEN clock ELSE used[k]]
    /\ UNCHANGED <<clock, deleting, entry, count>>

Write(ks) ==
    /\ UNCHANGED <<clock, used, deleting, count>>
    /\ DOMAIN entry' = DOMAIN entry \cup ks
    /\ \A k \in ks : entry'[k] \in Entry /\ Within(entry'[k], used[k])
    /\ \A k \in DOMAIN entry \ ks : entry'[k] = entry[k]

(* Reads renew a window from a use that may not be the latest. *)
Renew(ks) ==
    /\ UNCHANGED <<clock, used, deleting, count>>
    /\ DOMAIN entry' = DOMAIN entry
    /\ \A k \in ks \cap DOMAIN entry :
          /\ entry[k].window # None
          /\ \E t \in 0 .. used[k] :
                entry'[k] = [entry[k] EXCEPT !.deadline = Deadline(entry[k], t)]
    /\ \A k \in DOMAIN entry \ ks : entry'[k] = entry[k]

AskDeletion(c) ==
    /\ deleting' = deleting \cup {c}
    /\ UNCHANGED <<clock, used, entry, count>>

EndDeletion(c) ==
    /\ c \in deleting
    /\ deleting' = deleting \ {c}
    /\ UNCHANGED <<clock, used>>

Delete(c, ks) ==
    /\ EndDeletion(c)
    /\ entry' = Without(entry, ks)
    /\ count' = [k \in Counters |-> IF k \in ks THEN 0 ELSE count[k]]

FailDeletion(c) == EndDeletion(c) /\ UNCHANGED <<entry, count>>

Add(k, n) ==
    /\ count' = [count EXCEPT ![k] = @ + n]
    /\ UNCHANGED <<clock, used, deleting, entry>>

Collect ==
    /\ UNCHANGED <<clock, used, deleting, count>>
    /\ \E ks \in SUBSET {k \in DOMAIN entry : Over(k)} :
          entry' = Without(entry, ks)

Lose ==
    /\ ~Durable
    /\ entry' = Without(entry, DOMAIN entry)
    /\ count' = [k \in Counters |-> 0]
    /\ UNCHANGED <<clock, used, deleting>>

Tick ==
    /\ clock' = clock + 1
    /\ UNCHANGED <<used, deleting, entry, count>>

Next ==
    \/ \E ks \in SUBSET Entries : Use(ks) \/ Write(ks) \/ Renew(ks)
    \/ \E c \in Clients :
         \/ AskDeletion(c) \/ FailDeletion(c)
         \/ \E ks \in SUBSET (Entries \cup Counters) : Delete(c, ks)
    \/ \E k \in Counters, n \in Amounts : Add(k, n)
    \/ Collect \/ Lose \/ Tick

Spec == Init /\ [][Next]_vars

-----------------------------------------------------------------------------
(* What a user of the cache may rely on: an entry is over when its ceiling *)
(* is past, and when it was not used for longer than its window, however   *)
(* often and however late it is renewed.                                   *)
EntriesRunOut ==
    \A k \in DOMAIN entry :
        \/ entry[k].ceiling # None /\ entry[k].ceiling < clock
        \/ entry[k].window # None /\ used[k] + entry[k].window < clock
        => Over(k)
=============================================================================
