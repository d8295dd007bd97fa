------------------------------ MODULE Stampede ------------------------------
(***************************************************************************)
(* get_or_create and the factory of the failover decorator: callers on one *)
(* connection pool, the transactional advisory lock of each key, and the   *)
(* cache table.                                                            *)
(*                                                                         *)
(* A call reads the clock once, before it waits for a connection and for   *)
(* the lock; it looks its key up and stamps what it stores with that       *)
(* instant.  It keeps its connection and its transaction open while the    *)
(* factory runs, and the factory of failover asks the pool for a second    *)
(* connection.  Losing the connection ends the transaction, and with it    *)
(* the lock, without the running factory noticing.                         *)
(***************************************************************************)
EXTENDS CacheSql, FiniteSets

CONSTANTS
    Callers,        \* the callers; also the values their factories compute
    Plain,          \* the value other clients set
    OptionChoices,  \* entry options of calls and of other writes
    Modes,          \* "plain", "failover": which factories calls are given
    Interference,   \* other clients' steps: "get", "set", "remove", "scan"
    PoolSize,       \* options.pool_max_size
    UseWal,
    MaxClock, MaxFaults     \* bounds of the model

ASSUME StampedeAssumption ==
    /\ Callers \subseteq Blobs /\ IsFiniteSet(Callers)
    /\ Plain \in Blobs \ Callers
    /\ Null \notin Blobs
    /\ OptionChoices \subseteq EntryOptions \cup {Null}
    /\ Modes \subseteq {"plain", "failover"}
    /\ Interference \subseteq {"get", "set", "remove", "scan"}
    /\ PoolSize \in Nat \ {0}
    /\ UseWal \in BOOLEAN

VARIABLES
    table,      \* the cache table
    clock,
    flight,     \* the call each caller is in
    holder,     \* holder[k]: whose transaction holds the advisory lock of k
    faults      \* connections lost and server crashes so far

vars == <<table, clock, flight, holder, faults>>

Idle == [pc |-> "idle"]

(* The steps at which a call owns a connection: one, and one more.         *)
InTransaction == {"locking", "checking", "computing", "stale_connecting",
                  "stale_reading", "storing"}
Leading == {"computing", "stale_connecting", "stale_reading", "storing"}

Flights == [pc      : {"connecting"} \cup InTransaction,
            key     : Keys,
            options : OptionChoices,
            mode    : Modes,
            now     : Nat,
            alive   : BOOLEAN,              \* is the transaction still open?
            value   : Blobs \cup Int \cup {Null}]

At(c, step) == flight[c].pc = step

InFlight == {c \in Callers : flight[c] # Idle}

FreeConnections ==
    PoolSize - Cardinality({c \in Callers : flight[c].pc \in InTransaction})
             - Cardinality({c \in Callers : At(c, "stale_reading")})

Init ==
    /\ table = [k \in {} |-> Null]
    /\ clock = 0
    /\ flight = [c \in Callers |-> Idle]
    /\ holder = [k \in Keys |-> Null]
    /\ faults = 0

-----------------------------------------------------------------------------
Call(c, k, o, m) ==
    /\ At(c, "idle")
    /\ flight' = [flight EXCEPT ![c] =
         [pc |-> "connecting", key |-> k, options |-> o, mode |-> m,
          now |-> clock, alive |-> TRUE, value |-> Null]]
    /\ UNCHANGED <<table, clock, holder, faults>>

Advance(c, step) ==
    /\ flight' = [flight EXCEPT ![c].pc = step]
    /\ UNCHANGED <<table, clock, faults>>

(* The call returns or raises: COMMIT or ROLLBACK releases the lock and    *)
(* the connection goes back to the pool.                                   *)
Release(c) ==
    holder' = [k \in Keys |-> IF holder[k] = c THEN Null ELSE holder[k]]

End(c) ==
    /\ flight' = [flight EXCEPT ![c] = Idle]
    /\ Release(c)
    /\ UNCHANGED <<clock, faults>>

(* A call that ends without storing. *)
Leave(c) == End(c) /\ UNCHANGED table

Connect(c) ==
    /\ At(c, "connecting")
    /\ FreeConnections > 0
    /\ Advance(c, "locking")
    /\ UNCHANGED holder

(* No connection came free within the pool's timeout. *)
PoolTimeout(c) ==
    /\ flight[c].pc \in {"connecting", "stale_connecting"}
    /\ FreeConnections <= 0
    /\ Leave(c)

(* Slip: the lock taken in autocommit, gone with its statement. *)
LockAutocommit(c) ==
    /\ At(c, "locking")
    /\ flight[c].alive
    /\ holder[flight[c].key] = Null
    /\ Advance(c, "checking")
    /\ UNCHANGED holder

Lock(c) ==
    /\ At(c, "locking")
    /\ flight[c].alive
    /\ holder[flight[c].key] = Null
    /\ holder' = [holder EXCEPT ![flight[c].key] = c]
    /\ Advance(c, "checking")

(* get_item_after_lock, at the instant the call began. *)
Found(c) ==
    /\ flight[c].key \in DOMAIN table
    /\ Live(table[flight[c].key], flight[c].now)

(* Slip: the same look at the table as a fast path, before the lock. *)
CheckHitFastPath(c) ==
    /\ flight[c].pc \in {"locking", "checking"}
    /\ flight[c].alive
    /\ Found(c)
    /\ Leave(c)

CheckHit(c) ==
    /\ At(c, "checking")
    /\ flight[c].alive
    /\ Found(c)
    /\ Leave(c)

(* Slip: the lock given up before the factory runs. *)
CheckMissUnlocks(c) ==
    /\ At(c, "checking")
    /\ flight[c].alive
    /\ ~Found(c)
    /\ Advance(c, "computing")
    /\ Release(c)

CheckMiss(c) ==
    /\ At(c, "checking")
    /\ flight[c].alive
    /\ ~Found(c)
    /\ Advance(c, "computing")
    /\ UNCHANGED holder

FactoryReturns(c) ==
    /\ At(c, "computing")
    /\ flight' = [flight EXCEPT ![c].pc = "storing", ![c].value = c]
    /\ UNCHANGED <<table, clock, holder, faults>>

(* Slip: an exception leaves the transaction open. *)
FactoryRaisesInTransaction(c) ==
    /\ At(c, "computing")
    /\ flight' = [flight EXCEPT ![c] = Idle]
    /\ UNCHANGED <<table, clock, holder, faults>>

(* An exception failover does not handle, or no failover at all. *)
FactoryRaises(c) == At(c, "computing") /\ Leave(c)

FailoverCatches(c) ==
    /\ At(c, "computing")
    /\ flight[c].mode = "failover"
    /\ Advance(c, "stale_connecting")
    /\ UNCHANGED holder

StaleConnect(c) ==
    /\ At(c, "stale_connecting")
    /\ FreeConnections > 0
    /\ Advance(c, "stale_reading")
    /\ UNCHANGED holder

(* get_stale: whatever row there is, expired or not. *)
StaleFound(c) ==
    /\ At(c, "stale_reading")
    /\ flight[c].key \in DOMAIN table
    /\ flight' = [flight EXCEPT ![c].pc = "storing",
                                ![c].value = table[flight[c].key].value]
    /\ UNCHANGED <<table, clock, holder, faults>>

(* Slip: the None of get_stale stored as if it were a value. *)
StaleMissingStored(c) ==
    /\ At(c, "stale_reading")
    /\ flight[c].key \notin DOMAIN table
    /\ Advance(c, "storing")
    /\ UNCHANGED holder

(* Slip: get_stale reading live rows only, as get does. *)
StaleMissingLive(c) ==
    /\ At(c, "stale_reading")
    /\ flight[c].key \in DOMAIN table => Expired(table[flight[c].key], clock)
    /\ Leave(c)

StaleMissing(c) ==
    /\ At(c, "stale_reading")
    /\ flight[c].key \notin DOMAIN table
    /\ Leave(c)

(* set_item with the expiry of the instant the call began, then COMMIT. *)
StoredRow(c) ==
    new_row(flight[c].value,
            IF flight[c].options = Null THEN default_options
                                        ELSE flight[c].options,
            flight[c].now)

(* Slip: the write retried on a new connection after the lock was lost. *)
StoreReconnects(c) ==
    LET k == flight[c].key
    IN  /\ At(c, "storing")
        /\ table' = set_item(table, [x \in {k} |-> StoredRow(c)])
        /\ End(c)

Store(c) ==
    LET k == flight[c].key
    IN  /\ At(c, "storing")
        /\ flight[c].alive
        /\ table' = set_item(table, [x \in {k} |-> StoredRow(c)])
        /\ End(c)

(* A statement on a lost connection raises. *)
Doomed(c) ==
    /\ flight[c].pc \in {"locking", "checking", "storing"}
    /\ ~flight[c].alive
    /\ Leave(c)

-----------------------------------------------------------------------------
(* Faults.  The server ends the transaction; the caller learns at its next *)
(* statement.                                                              *)

Fault == faults < MaxFaults /\ faults' = faults + 1

ConnectionLost(c) ==
    /\ Fault
    /\ flight[c].pc \in InTransaction
    /\ flight[c].alive
    /\ flight' = [flight EXCEPT ![c].alive = FALSE]
    /\ Release(c)
    /\ UNCHANGED <<table, clock>>

StaleReadFails(c) ==
    /\ Fault
    /\ At(c, "stale_reading")
    /\ flight' = [flight EXCEPT ![c] = Idle]
    /\ Release(c)
    /\ UNCHANGED <<table, clock>>

ServerCrash ==
    /\ Fault
    /\ table' = IF UseWal THEN table ELSE [k \in {} |-> Null]
    /\ flight' = [c \in Callers |->
         IF flight[c].pc \in InTransaction
         THEN [flight[c] EXCEPT !.alive = FALSE] ELSE flight[c]]
    /\ holder' = [k \in Keys |-> Null]
    /\ UNCHANGED clock

-----------------------------------------------------------------------------
(* Other clients, none of which takes the advisory lock, and the scanner.  *)

(* A read executes late, and may revive a row that expired meanwhile. *)
OtherGet(k, now) ==
    /\ "get" \in Interference
    /\ table' = get_items(table, {k}, now)
    /\ UNCHANGED <<clock, flight, holder, faults>>

OtherSet(k, o) ==
    /\ "set" \in Interference
    /\ table' = set_item(table, [x \in {k} |->
         new_row(Plain, IF o = Null THEN default_options ELSE o, clock)])
    /\ UNCHANGED <<clock, flight, holder, faults>>

OtherRemove(k) ==
    /\ "remove" \in Interference
    /\ table' = remove_item(table, {k})
    /\ UNCHANGED <<clock, flight, holder, faults>>

Scan ==
    /\ "scan" \in Interference
    /\ table' = delete_expired(table, clock)
    /\ UNCHANGED <<clock, flight, holder, faults>>

Tick ==
    /\ clock < MaxClock
    /\ clock' = clock + 1
    /\ UNCHANGED <<table, flight, holder, faults>>

Progress(c) ==
    \/ Connect(c) \/ PoolTimeout(c) \/ CheckHit(c) \/ CheckMiss(c)
    \/ FactoryReturns(c) \/ FactoryRaises(c) \/ FailoverCatches(c)
    \/ StaleConnect(c) \/ StaleFound(c) \/ StaleMissing(c)
    \/ Store(c) \/ Doomed(c)

Next ==
    \/ \E c \in Callers :
         \/ \E k \in Keys, o \in OptionChoices, m \in Modes : Call(c, k, o, m)
         \/ Progress(c) \/ Lock(c) \/ ConnectionLost(c) \/ StaleReadFails(c)
    \/ \E k \in Keys :
         \/ \E now \in 0 .. clock : OtherGet(k, now)
         \/ \E o \in OptionChoices : OtherSet(k, o)
         \/ OtherRemove(k)
    \/ Scan \/ Tick \/ ServerCrash

Spec == Init /\ [][Next]_vars

(* Factories end, the pool gives a connection or times out, and PostgreSQL *)
(* serves the waiters of a lock in turn.                                   *)
FairSpec ==
    Spec /\ \A c \in Callers : WF_vars(Progress(c)) /\ SF_vars(Lock(c))

-----------------------------------------------------------------------------
TypeOK ==
    /\ IsTable(table, Keys)
    /\ clock \in Nat
    /\ flight \in [Callers -> {Idle} \cup Flights]
    /\ holder \in [Keys -> Callers \cup {Null}]
    /\ faults \in Nat

(* At most one open transaction per key is between its double-check and    *)
(* its commit, whatever connections are lost, calls fail or servers crash  *)
(* meanwhile.                                                              *)
Authorised(c, k) ==
    flight[c].pc \in Leading /\ flight[c].key = k /\ flight[c].alive

OneFlightPerKey ==
    \A k \in Keys : \A c, d \in Callers :
        Authorised(c, k) /\ Authorised(d, k) => c = d

(* What a factory computed is neither computed again nor thrown away:      *)
(* while an open transaction computes or stores, the table holds no value  *)
(* of another call that was live when the transaction's call began.  It    *)
(* would, were the double-check made before the lock, or the lock given up *)
(* before the commit.  Rows with a sliding window are excepted, since a    *)
(* late read of another client may revive one behind the leader's back.    *)
NoComputationWasted ==
    \A c \in Callers, k \in DOMAIN table :
        Authorised(c, k) =>
            \/ table[k].value \notin Callers
            \/ table[k].sliding # Null
            \/ Expired(table[k], flight[c].now)

(* What these rest on.  The lock of a key is held by exactly the open      *)
(* transaction between its double-check and its commit; and nothing but a  *)
(* payload is ever stored, get_stale's None least of all.                  *)
Owns(c) == flight[c].pc \in {"checking"} \cup Leading /\ flight[c].alive

LockInv ==
    /\ \A c \in Callers : Owns(c) => holder[flight[c].key] = c
    /\ \A k \in Keys : holder[k] # Null =>
          Owns(holder[k]) /\ flight[holder[k]].key = k

PayloadInv ==
    /\ \A k \in DOMAIN table : table[k].value \in Blobs
    /\ \A c \in Callers : At(c, "storing") => flight[c].value \in Blobs

(* Every call ends: a factory that raises, a lost connection, a crash or   *)
(* an exhausted pool leaves no lock behind for the others to wait on.      *)
EveryCallEnds == \A c \in Callers : ~At(c, "idle") ~> At(c, "idle")

(* The calls on each key behave as SingleFlight allows.                    *)
members == [k \in Keys |-> {c \in InFlight : flight[c].key = k}]

leader ==
    [k \in Keys |-> IF holder[k] # Null /\ flight[holder[k]].pc \in Leading
                    THEN holder[k] ELSE Null]

Waits(c) == flight[c].pc \in {"locking", "checking"} /\ flight[c].alive

waiting == {c \in Callers : Waits(c)}

entry ==
    [k \in Keys |-> IF k \in DOMAIN table THEN table[k].value ELSE Null]

Abstract == INSTANCE SingleFlight WITH
    Values <- Blobs, None <- Null, callers <- members

ImplementsSingleFlight == Abstract!Spec

(* README.md:244, "Other concurrent requests block and safely read the     *)
(* computed value once finished": a value that is stored is live for every *)
(* caller blocked on the lock of its key.  The code stamps it with the     *)
(* instant the storing call began, which may be a whole TTL ago.           *)
WaitersReadTheValue ==
    [][\A c, d \in Callers :
          /\ At(c, "storing") /\ flight'[c] = Idle /\ flight[c].alive
          /\ At(d, "locking") /\ flight[d].key = flight[c].key
          => Live(table'[flight[d].key], flight[d].now)]_vars

(* README.md:299, "the last successfully cached weather data is returned": *)
(* a failover call whose function raised, with a row for its key, does not *)
(* raise in turn.  The code raises PoolTimeout when the connections of the *)
(* pool are all held by calls like itself.                                 *)
StaleServedOnFailure ==
    [][\A c \in Callers :
          /\ flight[c].pc \in {"stale_connecting", "stale_reading"}
          /\ flight'[c] = Idle
          => flight[c].key \notin DOMAIN table]_vars

(* What does hold of it: a call of failover whose function raised, and     *)
(* whose key has a row, ends without storing only when its connection to   *)
(* the database is lost meanwhile, or while the calls that are in a        *)
(* transaction are more than half the connections of the pool.             *)
StaleServedWithRoom ==
    [][\A c \in Callers :
          /\ flight[c].pc \in {"stale_connecting", "stale_reading"}
          /\ flight'[c] = Idle
          /\ PoolSize >=
                2 * Cardinality({d \in Callers : flight[d].pc \in InTransaction})
          /\ faults' = faults
          => flight[c].key \notin DOMAIN table]_vars
=============================================================================
