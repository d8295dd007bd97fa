---------------------------- MODULE SingleFlight ----------------------------
(***************************************************************************)
(* What get_or_create promises, without transactions, pools or clocks:     *)
(* among the callers of a key at most one at a time is its leader, a value *)
(* a caller made enters the cache only when the leader publishes, and a    *)
(* caller that waits for its turn has no other way out: it becomes the     *)
(* leader, or is answered from the cache when no leader is at work.  Only  *)
(* a lost connection, a Disrupt, takes it out of the queue unanswered.     *)
(***************************************************************************)
CONSTANTS Callers, Keys, Values, None, Plain

VARIABLES
    callers,    \* callers[k]: who is in a call on k
    leader,     \* leader[k]: who computes the value of k, or None
    waiting,    \* who waits until no leader of its key is at work
    entry       \* entry[k]: the value the cache holds, expired or not, or None

vars == <<callers, leader, waiting, entry>>

Init ==
    /\ callers = [k \in Keys |-> {}]
    /\ leader = [k \in Keys |-> None]
    /\ waiting = {}
    /\ entry = [k \in Keys |-> None]

Join(c, k) ==
    /\ \A j \in Keys : c \notin callers[j]
    /\ callers' = [callers EXCEPT ![k] = @ \cup {c}]
    /\ UNCHANGED <<leader, waiting, entry>>

Wait(c, k) ==
    /\ c \in callers[k]
    /\ leader[k] # c
    /\ waiting' = waiting \cup {c}
    /\ UNCHANGED <<callers, leader, entry>>

Leave(c, k) ==
    /\ c \in callers[k]
    /\ callers' = [callers EXCEPT ![k] = @ \ {c}]

(* Answered with the cached value. *)
Serve(c, k) ==
    /\ c \in waiting
    /\ leader[k] = None
    /\ entry[k] # None
    /\ Leave(c, k)
    /\ waiting' = waiting \ {c}
    /\ UNCHANGED <<leader, entry>>

Lead(c, k) ==
    /\ c \in callers[k] \cap waiting
    /\ leader[k] = None
    /\ leader' = [leader EXCEPT ![k] = c]
    /\ waiting' = waiting \ {c}
    /\ UNCHANGED <<callers, entry>>

Publish(c, k, v) ==
    /\ leader[k] = c
    /\ Leave(c, k)
    /\ leader' = [leader EXCEPT ![k] = None]
    /\ entry' = [entry EXCEPT ![k] = v]
    /\ UNCHANGED waiting

(* The call ends with an exception; a leader steps down. *)
GiveUp(c, k) ==
    /\ c \notin waiting
    /\ Leave(c, k)
    /\ leader' = [leader EXCEPT ![k] = IF @ = c THEN None ELSE @]
    /\ UNCHANGED <<waiting, entry>>

(* Leaders may be deposed and waiters thrown out; entries may vanish or be *)
(* written by others.                                                      *)
Disrupt ==
    /\ leader' \in [Keys -> Callers \cup {None}]
    /\ \A k \in Keys : leader'[k] \in {leader[k], None}
    /\ waiting' \in SUBSET waiting
    /\ entry' \in [Keys -> Values \cup {None}]
    /\ \A k \in Keys : entry'[k] \in {entry[k], None, Plain}
    /\ UNCHANGED callers

Next ==
    \/ \E c \in Callers, k \in Keys :
         \/ Join(c, k) \/ Wait(c, k) \/ Serve(c, k) \/ Lead(c, k)
         \/ GiveUp(c, k)
         \/ \E v \in Values : Publish(c, k, v)
    \/ Disrupt

Spec == Init /\ [][Next]_vars
=============================================================================
