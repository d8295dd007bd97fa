--------------------------- MODULE DistributedLock ---------------------------
(***************************************************************************)
(* set_lock, unlock, is_locked and the lock() context manager, with the    *)
(* scanner, on one cache table.                                            *)
(*                                                                         *)
(* A lock is a row whose value is its owner's token and whose expiry is    *)
(* the end of the lease.  PostgresCache.set_lock stamps the lease,         *)
(* DatabaseOperations.set_lock then reads the clock a second time for the  *)
(* takeover test, and the statement runs when a connection comes free: a   *)
(* lease may be half spent, or over, when its owner gets to know of it.    *)
(***************************************************************************)
EXTENDS CacheSql, Sequences

CONSTANTS
    Clients,        \* threads or processes sharing the table
    Expires,        \* the expire arguments, as parsed parts
    UnitTicks,      \* ticks in a "d", an "h", an "m" and an "s"
    Waits,          \* the wait arguments of is_locked
    UseWal,
    MaxClock, MaxCalls, MaxCrashes      \* bounds of the model

(* The parts of a repeated unit add up, and so do the units.               *)
parse_duration(parts) ==
    FoldFunction(+, 0, [i \in DOMAIN parts |->
                            parts[i].value * UnitTicks[parts[i].unit]])

ASSUME LockAssumption ==
    /\ \A e \in Expires : parse_duration(e) \in Nat
    /\ Waits \subseteq Nat
    /\ UseWal \in BOOLEAN

VARIABLES
    table,      \* the cache table
    clock,
    client,     \* the call each client is in
    scan,       \* the scanner thread
    issued,     \* the tokens drawn so far, numbered: uuid4
    crashes     \* server crashes so far

vars == <<table, clock, client, scan, issued, crashes>>

Idle == [pc |-> "idle"]

(* A client asking for a lock, and one that was given it.                  *)
Request == [pc     : {"polling", "stamped", "sending"},
            polls  : BOOLEAN,       \* lock() polls, set_lock tries once
            key    : Keys,
            token  : Nat,
            expire : Expires,
            until  : Nat,           \* the end of the lease, as stamped
            now    : Nat]           \* the instant of the takeover test

Tenure == [pc     : {"body", "unlocking"},
           key    : Keys,
           token  : Nat,
           expire : Expires,
           until  : Nat,
           since  : Nat]            \* history: when the body was entered

(* A client in is_locked; "free" once it was told that nobody holds it.    *)
AskCall == [pc : {"asking", "querying", "free"}, key : Keys, now : Nat,
            deadline : Nat]

Waiting  == [pc |-> "waiting"]
Scanning == [pc : {"deleting"}, now : Nat]

At(c, step) == client[c].pc = step

Init ==
    /\ table = [k \in {} |-> Null]
    /\ clock = 0
    /\ client = [c \in Clients |-> Idle]
    /\ scan = Waiting
    /\ issued = 0
    /\ crashes = 0

-----------------------------------------------------------------------------
(* The statements. *)

(* Slip: <= for <, a lease taken over at its last instant. *)
TakeableInclusive(tb, k, now) == ~(k \in DOMAIN tb /\ tb[k].exp > now)

(* Slip: no takeover, a row blocks until somebody deletes it. *)
TakeableIfAbsent(tb, k, now) == k \notin DOMAIN tb

Takeable(tb, k, now) == ~(k \in DOMAIN tb /\ Live(tb[k], now))

(* Slip: 'infinity' for the end of a new row, as increment_item has it. *)
set_lock_item_forever(tb, k, token, until) ==
    IF k \notin DOMAIN tb
    THEN set_item(tb, [x \in {k} |-> [value |-> token, exp |-> Infinity,
                                      sliding |-> Null, abs |-> Null,
                                      tags |-> Null]])
    ELSE [tb EXCEPT ![k] = [@ EXCEPT !.value = token, !.exp = until]]

(* A new row has no other columns; a row taken over keeps the ones it had. *)
set_lock_item(tb, k, token, until) ==
    IF k \notin DOMAIN tb
    THEN set_item(tb, [x \in {k} |-> [value |-> token, exp |-> until,
                                      sliding |-> Null, abs |-> Null,
                                      tags |-> Null]])
    ELSE [tb EXCEPT ![k] = [@ EXCEPT !.value = token, !.exp = until]]

(* Slip: the row deleted whoever owns it. *)
unlock_item_any(tb, k, token) == remove_item(tb, {k})

(* Slip: the owner cleared, and the row kept. *)
unlock_item_clears(tb, k, token) ==
    IF k \in DOMAIN tb /\ tb[k].value = token
    THEN [tb EXCEPT ![k].value = Null] ELSE tb

unlock_item(tb, k, token) ==
    remove_item(tb, {x \in {k} \cap DOMAIN tb : tb[x].value = token})

(* Slip: > for >=. *)
is_locked_item_exclusive(tb, k, now) == k \in DOMAIN tb /\ tb[k].exp > now

is_locked_item(tb, k, now) == k \in DOMAIN tb /\ Live(tb[k], now)

-----------------------------------------------------------------------------
(* Clients. *)

Free(c) == client[c].pc \in {"idle", "free"}

Step(c, r) ==
    /\ client' = [client EXCEPT ![c] = r]
    /\ UNCHANGED <<clock, scan, crashes>>

(* A call of lock(), which polls, or of set_lock with a token of its own.  *)
Lock(c, k, e, polls) ==
    /\ Free(c)
    /\ issued < MaxCalls
    /\ issued' = issued + 1
    /\ Step(c, [pc |-> "polling", polls |-> polls, key |-> k,
                token |-> issued + 1, expire |-> e, until |-> 0, now |-> 0])
    /\ UNCHANGED table

(* PostgresCache.set_lock: expires_at = utc_now + expire. *)
Stamp(c) ==
    /\ At(c, "polling")
    /\ Step(c, [client[c] EXCEPT !.pc = "stamped",
                    !.until = clock + parse_duration(client[c].expire)])
    /\ UNCHANGED <<table, issued>>

(* DatabaseOperations.set_lock: utc_now of the takeover test. *)
Send(c) ==
    /\ At(c, "stamped")
    /\ Step(c, [client[c] EXCEPT !.pc = "sending", !.now = clock])
    /\ UNCHANGED <<table, issued>>

(* The statement inserts or takes over: True. *)
Acquire(c) ==
    /\ At(c, "sending")
    /\ Takeable(table, client[c].key, client[c].now)
    /\ table' = set_lock_item(table, client[c].key, client[c].token,
                              client[c].until)
    /\ Step(c, [pc     |-> "body",
                key    |-> client[c].key,
                token  |-> client[c].token,
                expire |-> client[c].expire,
                until  |-> client[c].until,
                since  |-> clock])
    /\ UNCHANGED issued

(* rowcount = 0: lock() sleeps and tries again, set_lock returns False. *)
Held(c) ==
    /\ At(c, "sending")
    /\ ~Takeable(table, client[c].key, client[c].now)
    /\ Step(c, IF client[c].polls
               THEN [client[c] EXCEPT !.pc = "polling", !.until = 0, !.now = 0]
               ELSE Idle)
    /\ UNCHANGED <<table, issued>>

(* Slip: the error is taken for a refusal, and the poll goes on. *)
LoseAnswerPolling(c) ==
    /\ At(c, "sending")
    /\ client[c].until < MaxClock
    /\ Takeable(table, client[c].key, client[c].now)
    /\ table' = set_lock_item(table, client[c].key, client[c].token,
                              client[c].until)
    /\ Step(c, [client[c] EXCEPT !.pc = "polling", !.until = 0, !.now = 0])
    /\ UNCHANGED issued

(* COMMIT succeeded and its answer was lost: the lock is nobody's. *)
LoseAnswer(c) ==
    /\ At(c, "sending")
    /\ client[c].until < MaxClock
    /\ Takeable(table, client[c].key, client[c].now)
    /\ table' = set_lock_item(table, client[c].key, client[c].token,
                              client[c].until)
    /\ Step(c, Idle)
    /\ UNCHANGED issued

(* The body returns or raises, however long it took: finally. *)
LeaveBody(c) ==
    /\ At(c, "body")
    /\ Step(c, [client[c] EXCEPT !.pc = "unlocking"])
    /\ UNCHANGED <<table, issued>>

Unlock(c) ==
    /\ At(c, "unlocking")
    /\ table' = unlock_item(table, client[c].key, client[c].token)
    /\ Step(c, Idle)
    /\ UNCHANGED issued

(* is_locked: poll until nobody holds the lock or the wait is over. *)
IsLocked(c, k, wait) ==
    /\ Free(c)
    /\ clock + wait <= MaxClock
    /\ Step(c, [pc |-> "asking", key |-> k, now |-> 0,
                deadline |-> clock + wait])
    /\ UNCHANGED <<table, issued>>

Ask(c) ==
    /\ At(c, "asking")
    /\ Step(c, [client[c] EXCEPT !.pc = "querying", !.now = clock])
    /\ UNCHANGED <<table, issued>>

Answer(c) ==
    /\ At(c, "querying")
    /\ Step(c,
         IF ~is_locked_item(table, client[c].key, client[c].now)
         THEN [client[c] EXCEPT !.pc = "free", !.now = 0, !.deadline = 0]
         ELSE IF clock >= client[c].deadline THEN Idle
         ELSE [client[c] EXCEPT !.pc = "asking", !.now = 0])
    /\ UNCHANGED <<table, issued>>

(* The call raises without effect, or its process dies: what the table     *)
(* holds for it stays.  The bound lets such a lease end within the clock.  *)
Fail(c) ==
    /\ ~Free(c)
    /\ client[c].pc \in {"body", "unlocking"} => client[c].until < MaxClock
    /\ Step(c, Idle)
    /\ UNCHANGED <<table, issued>>

-----------------------------------------------------------------------------
(* The scanner of any of the processes, time, and the server. *)

ScanWake ==
    /\ scan = Waiting
    /\ scan' = [pc |-> "deleting", now |-> clock]
    /\ UNCHANGED <<table, clock, client, issued, crashes>>

ScanDelete ==
    /\ scan.pc = "deleting"
    /\ table' = delete_expired(table, scan.now)
    /\ scan' = Waiting
    /\ UNCHANGED <<clock, client, issued, crashes>>

ScanFail ==
    /\ scan.pc = "deleting"
    /\ scan' = Waiting
    /\ UNCHANGED <<table, clock, client, issued, crashes>>

Tick ==
    /\ clock < MaxClock
    /\ clock' = clock + 1
    /\ UNCHANGED <<table, client, scan, issued, crashes>>

ServerCrash ==
    /\ crashes < MaxCrashes
    /\ crashes' = crashes + 1
    /\ table' = IF UseWal THEN table ELSE [k \in {} |-> Null]
    /\ UNCHANGED <<clock, client, scan, issued>>

Progress(c) ==
    \/ Stamp(c) \/ Send(c) \/ Acquire(c) \/ Held(c) \/ LeaveBody(c)
    \/ Unlock(c) \/ Ask(c) \/ Answer(c)

ClientStep(c) ==
    \/ \E k \in Keys, e \in Expires, polls \in BOOLEAN : Lock(c, k, e, polls)
    \/ \E k \in Keys, w \in Waits : IsLocked(c, k, w)
    \/ Progress(c) \/ LoseAnswer(c) \/ Fail(c)

Next ==
    \/ \E c \in Clients : ClientStep(c)
    \/ ScanWake \/ ScanDelete \/ ScanFail
    \/ Tick \/ ServerCrash

Spec == Init /\ [][Next]_vars

(* Clients are scheduled, bodies end, and time passes.  Of the scanner     *)
(* nothing is assumed: it may be disabled, or fail each time.              *)
FairSpec ==
    Spec /\ WF_vars(Tick) /\ \A c \in Clients : WF_vars(Progress(c))

-----------------------------------------------------------------------------
TypeOK ==
    /\ IsTable(table, Keys)
    /\ clock \in Nat
    /\ client \in [Clients -> {Idle} \cup Request \cup Tenure \cup AskCall]
    /\ scan \in {Waiting} \cup Scanning
    /\ issued \in Nat
    /\ crashes \in Nat

(* The table has kept its rows: a crash empties an UNLOGGED one.           *)
Durable == UseWal \/ crashes = 0

(* c is in the body of its lock, or on its way out, within its lease.      *)
Leases(c, k) ==
    /\ client[c].pc \in {"body", "unlocking"}
    /\ client[c].key = k
    /\ clock <= client[c].until

(* Two clients never hold unexpired leases of one lock, whatever polls,    *)
(* takeovers, late unlocks of overrun owners, scans carrying old instants  *)
(* and lost answers lie between: a worker that overran its lease cannot    *)
(* release, nor a delayed statement take over, what its successor holds.   *)
ExclusiveWhileLeased ==
    Durable => \A c, d \in Clients, k \in Keys :
                  Leases(c, k) /\ Leases(d, k) => c = d

(* is_locked answers False, with or without waiting, only when nobody      *)
(* holds an unexpired lease: not even one taken after its clock reading.   *)
FreeMeansFree ==
    [][\A c \in Clients :
          At(c, "querying") /\ client'[c].pc = "free" /\ Durable
          => \A d \in Clients : ~Leases(d, client[c].key)]_vars

(* What both rest on: the row of a live lease is its owner's, tokens are   *)
(* not shared, and no statement in flight carries a later instant.         *)
HasToken(c) ==
    client[c].pc \in {"polling", "stamped", "sending", "body", "unlocking"}

TokenInv ==
    /\ \A c \in Clients : HasToken(c) => client[c].token <= issued
    /\ \A c, d \in Clients :
          HasToken(c) /\ HasToken(d) /\ client[c].token = client[d].token
          => c = d

PastInv ==
    /\ \A c \in Clients :
          client[c].pc \in {"sending", "querying"} => client[c].now <= clock
    /\ scan # Waiting => scan.now <= clock

Backed(c, k) ==
    /\ k \in DOMAIN table
    /\ table[k].value = client[c].token
    /\ table[k].exp = client[c].until

BackedInv ==
    Durable => \A c \in Clients, k \in Keys : Leases(c, k) => Backed(c, k)

LeaseInv == TokenInv /\ PastInv /\ BackedInv

(* The protocol implements the abstract lease service: a row is a lease,   *)
(* and a client in its body is its tenant.  An unexpired lease is removed  *)
(* by its owner's unlock and by no other's, nor by a scan or a takeover,   *)
(* and no token is granted twice, polls and lost answers included.         *)
Holding(c) == client[c].pc \in {"body", "unlocking"}

lease ==
    [k \in DOMAIN table |-> [token |-> table[k].value, until |-> table[k].exp]]

tenant ==
    [c \in {d \in Clients : Holding(d)} |->
        [key |-> client[c].key, token |-> client[c].token]]

Service == INSTANCE LeaseService WITH Locks <- Keys, Durable <- UseWal

ImplementsLeases == Service!Spec

(* What that takes besides: every lease has an end, and the token of a     *)
(* call is in no row until it is granted.                                  *)
RowInv ==
    \A k \in DOMAIN table :
        /\ table[k].exp \in Nat
        /\ table[k].value \in Nat /\ table[k].value <= issued
        /\ \A c \in Clients : client[c].pc \in {"polling", "stamped", "sending"}
               => client[c].token # table[k].value

(* No lock is stuck: from any moment on, whoever died or overran, whose    *)
(* answer was lost and however late its statement was, a row stands in the *)
(* way of others for at most the longest expire in use.                    *)
LeasesRunOut ==
    \A k \in DOMAIN table : \E e \in Expires :
        table[k].exp # Infinity /\ table[k].exp <= clock + parse_duration(e)

(* It rests on what a statement on its way carries.                        *)
StampInv ==
    \A c \in Clients : client[c].pc \in {"stamped", "sending"} =>
        client[c].until <= clock + parse_duration(client[c].expire)

(* README.md:356, "It requires an expiration time to ensure that no        *)
(* deadlock occurs if a worker crashes midway": every call of lock() and   *)
(* of set_lock ends, be the owner before it dead, its unlock failed or its *)
(* answer lost, and the scanner disabled.  Every is_locked ends as well.   *)
Calling(c) ==
    client[c].pc \in {"polling", "stamped", "sending", "asking", "querying"}

CallsEnd == \A c \in Clients : Calling(c) ~> ~Calling(c)

(* README.md:359, "Guaranteed exclusive access across all worker nodes!",  *)
(* and _cache.py:322, "Max duration to hold the lock": two bodies do not   *)
(* overlap while both have been running for less than their expire.  The   *)
(* lease is counted from before the wait for a connection instead.         *)
WithinExpire(c, k) ==
    /\ At(c, "body")
    /\ client[c].key = k
    /\ clock - client[c].since < parse_duration(client[c].expire)

ExclusiveWithinExpire ==
    Durable => \A c, d \in Clients, k \in Keys :
                  WithinExpire(c, k) /\ WithinExpire(d, k) => c = d
=============================================================================
