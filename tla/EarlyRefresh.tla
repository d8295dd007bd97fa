---------------------------- MODULE EarlyRefresh ----------------------------
(***************************************************************************)
(* The early decorator: callers of one decorated function, the threads or  *)
(* tasks that recompute its value in the background, and the scanner.      *)
(*                                                                         *)
(* A value is the instant at which the function computed it, so that its   *)
(* age can be told.  get_with_ttl renews the row and reports the expiry it *)
(* has just written; the decorator compares what is left of that one with  *)
(* ttl - early_ttl.  The keys are written by this decorator only, and the  *)
(* advisory lock of get_or_create is left to Stampede: here a miss may be  *)
(* computed by several callers at once.                                    *)
(***************************************************************************)
EXTENDS CacheSql

CONSTANTS
    Callers,
    ttl, early_ttl,             \* the arguments of the decorator
    MaxClock, MaxRefreshers     \* bounds of the model

VARIABLES
    table,      \* the cache table
    clock,
    call,       \* the call each caller is in
    running,    \* running[k]: background threads of k in the function
    writes      \* background set() calls on their way to the table

vars == <<table, clock, call, running, writes>>

Idle == [pc |-> "idle"]

Calls  == [pc : {"reading", "creating", "computing"}, key : Keys, now : Nat]
Stores == [pc : {"storing"}, key : Keys, now : Nat, value : Nat]
Writes == [key : Keys, row : Row]

At(c, step) == call[c].pc = step

Init ==
    /\ table = [k \in {} |-> Null]
    /\ clock = 0
    /\ call = [c \in Callers |-> Idle]
    /\ running = [k \in Keys |-> 0]
    /\ writes = {}

-----------------------------------------------------------------------------
early_threshold == ttl - early_ttl

options == [sliding |-> ttl, absolute |-> Null, relative |-> Null, tags |-> Null]

Goto(c, r) ==
    /\ call' = [call EXCEPT ![c] = r]
    /\ UNCHANGED <<clock, writes>>

(* get_with_ttl reads the clock. *)
Call(c, k) ==
    /\ At(c, "idle")
    /\ Goto(c, [pc |-> "reading", key |-> k, now |-> clock])
    /\ UNCHANGED <<table, running>>

Found(c) ==
    /\ call[c].key \in DOMAIN table
    /\ Live(table[call[c].key], call[c].now)

(* RETURNING expires_at, less the instant the call began. *)
remaining(c) == table'[call[c].key].exp - call[c].now

(* The value is returned, and a thread started when it is due. *)
Hit(c) ==
    LET k == call[c].key
    IN  /\ At(c, "reading")
        /\ Found(c)
        /\ table' = get_items(table, {k}, call[c].now)
        /\ IF remaining(c) < early_threshold
           THEN /\ running[k] < MaxRefreshers
                /\ running' = [running EXCEPT ![k] = @ + 1]
           ELSE UNCHANGED running
        /\ Goto(c, Idle)

(* On to get_or_create, which reads the clock again. *)
Miss(c) ==
    /\ At(c, "reading")
    /\ ~Found(c)
    /\ Goto(c, [call[c] EXCEPT !.pc = "creating", !.now = clock])
    /\ UNCHANGED <<table, running>>

(* The double-check of get_or_create, and its factory. *)
CreatedMeanwhile(c) ==
    /\ At(c, "creating")
    /\ Found(c)
    /\ Goto(c, Idle)
    /\ UNCHANGED <<table, running>>

Create(c) ==
    /\ At(c, "creating")
    /\ ~Found(c)
    /\ Goto(c, [call[c] EXCEPT !.pc = "computing"])
    /\ UNCHANGED <<table, running>>

Compute(c) ==
    /\ At(c, "computing")
    /\ Goto(c, [pc |-> "storing", key |-> call[c].key, now |-> call[c].now,
                value |-> clock])
    /\ UNCHANGED <<table, running>>

Store(c) ==
    /\ At(c, "storing")
    /\ table' = set_item(table, [x \in {call[c].key} |->
                    new_row(call[c].value, options, call[c].now)])
    /\ Goto(c, Idle)
    /\ UNCHANGED running

Raise(c) ==
    /\ ~At(c, "idle")
    /\ Goto(c, Idle)
    /\ UNCHANGED <<table, running>>

-----------------------------------------------------------------------------
(* background_refresh: the function, then set(); an exception is logged.   *)

RefreshComputes(k) ==
    /\ running[k] > 0
    /\ running' = [running EXCEPT ![k] = @ - 1]
    /\ writes' = writes \cup {[key |-> k, row |-> new_row(clock, options, clock)]}
    /\ UNCHANGED <<table, clock, call>>

RefreshStores(w) ==
    /\ table' = set_item(table, [x \in {w.key} |-> w.row])
    /\ writes' = writes \ {w}
    /\ UNCHANGED <<clock, call, running>>

RefreshFails ==
    /\ \/ /\ \E k \in Keys : running[k] > 0 /\ running' = [running EXCEPT ![k] = @ - 1]
          /\ UNCHANGED writes
       \/ /\ \E w \in writes : writes' = writes \ {w}
          /\ UNCHANGED running
    /\ UNCHANGED <<table, clock, call>>

-----------------------------------------------------------------------------
Scan(now) ==
    /\ table' = delete_expired(table, now)
    /\ UNCHANGED <<clock, call, running, writes>>

Tick ==
    /\ clock < MaxClock
    /\ clock' = clock + 1
    /\ UNCHANGED <<table, call, running, writes>>

CallerStep(c) ==
    \/ \E k \in Keys : Call(c, k)
    \/ Hit(c) \/ Miss(c) \/ CreatedMeanwhile(c) \/ Create(c) \/ Compute(c)
    \/ Store(c) \/ Raise(c)

Next ==
    \/ \E c \in Callers : CallerStep(c)
    \/ \E k \in Keys : RefreshComputes(k)
    \/ \E w \in writes : RefreshStores(w)
    \/ RefreshFails
    \/ \E now \in 0 .. clock : Scan(now)
    \/ Tick

Spec == Init /\ [][Next]_vars

-----------------------------------------------------------------------------
TypeOK ==
    /\ IsTable(table, Keys)
    /\ clock \in Nat
    /\ call \in [Callers -> {Idle} \cup Calls \cup Stores]
    /\ running \in [Keys -> Nat]
    /\ writes \subseteq Writes

(* README.md:313, "If requested after 7 minutes (early_ttl), the user      *)
(* receives the cached result instantly with zero delay, while a           *)
(* background worker updates the cache": a call that is given a value      *)
(* older than early_ttl starts a refresher.                                *)
StaleHitsRefresh ==
    [][\A c \in Callers, k \in DOMAIN table :
          /\ Hit(c) /\ call[c].key = k
          /\ call[c].now - table[k].value > early_ttl
          => running'[k] > running[k]]_vars

(* What decides in its place: the fraction of a second that the window of  *)
(* a row has lost.  A call given a cached value starts a refresher if and  *)
(* only if that fraction is longer than early_ttl, whatever the age.       *)
AgeIsNotAsked ==
    [][\A c \in Callers :
          Hit(c) => running' = IF early_ttl < ttl % TicksPerSecond
                               THEN [running EXCEPT ![call[c].key] = @ + 1]
                               ELSE running]_vars

(* No refresher has ever been started. *)
NothingRefreshed == running = [k \in Keys |-> 0] /\ writes = {}

(* What makes it so: every row carries the ttl, in whole seconds, as its   *)
(* window, so a read that renews it leaves all of that window.             *)
window == ttl - (ttl % TicksPerSecond)

WholeWindow(row) == row.sliding = window /\ row.abs = Null /\ row.exp \in Int

WholeWindows ==
    /\ \A k \in DOMAIN table : WholeWindow(table[k])
    /\ \A w \in writes : WholeWindow(w.row)
=============================================================================
