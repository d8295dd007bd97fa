----------------------------- MODULE CacheStore -----------------------------
(***************************************************************************)
(* DatabaseOperations and the scanner thread on one shared cache table.    *)
(*                                                                         *)
(* Every operation is two steps, as in the code: the handler reads the     *)
(* clock and computes what it will send, then waits for a connection, and  *)
(* only then is its statement executed and committed.  Any number of other *)
(* steps, the clock's included, fit between the two, so the instant a      *)
(* statement carries may be long past when it takes effect.  A call may    *)
(* also end with an exception and no effect (PoolTimeout, a failed         *)
(* statement, a lost connection: the transaction rolls back).  A call      *)
(* whose COMMIT succeeded but whose answer was lost is, for the table, an  *)
(* execution.                                                              *)
(***************************************************************************)
EXTENDS CacheSql

CONSTANTS
    Clients,        \* threads or processes sharing the table
    EntryKeys,      \* keys the application stores entries under
    CounterKeys,    \* keys the application increments
    KeySets,        \* the key sets given to bulk calls or matched by patterns
    TagSets,        \* the tag lists given to delete_tags
    OptionChoices,  \* the entry options given to writes, Null for none
    Amounts,        \* the amounts given to incr
    UseWal,         \* options.use_wal: the table survives a server crash
    MaxClock, MaxTotal, MaxCrashes      \* bounds of the model

ASSUME StoreAssumption ==
    /\ EntryKeys \subseteq Keys
    /\ CounterKeys \subseteq Keys
    /\ KeySets \subseteq SUBSET Keys
    /\ TagSets \subseteq SUBSET Tags
    /\ OptionChoices \subseteq EntryOptions \cup {Null}
    /\ Amounts \subseteq Int
    /\ UseWal \in BOOLEAN

VARIABLES
    table,      \* the cache table
    clock,      \* the time every process reads
    call,       \* the call each client is in
    scan,       \* the scanner thread
    crashes,    \* server crashes so far
    lastUse,    \* history: the latest instant a read or a write of a key began
    total       \* history: the increments committed since a key was last deleted

vars == <<table, clock, call, scan, crashes, lastUse, total>>

Idle == [op |-> "idle"]

ReadCall   == [op : {"read"}, keys : SUBSET Keys, now : Nat]
DeleteCall == [op : {"delete"}, keys : SUBSET Keys]
TagCall    == [op : {"delete_by_tags"}, tags : SUBSET Tags]
IncrCall   == [op : {"incr"}, key : CounterKeys, amount : Amounts, now : Nat]

IsCall(r) ==
    \/ r \in {Idle} \cup ReadCall \cup DeleteCall \cup TagCall \cup IncrCall
    \/ r = [op |-> "set", rows |-> r.rows] /\ IsTable(r.rows, EntryKeys)

Waiting  == [pc |-> "waiting"]
Scanning == [pc : {"deleting"}, now : Nat]

Init ==
    /\ table = [k \in {} |-> Null]
    /\ clock = 0
    /\ call = [c \in Clients |-> Idle]
    /\ scan = Waiting
    /\ crashes = 0
    /\ lastUse = [k \in Keys |-> 0]
    /\ total = [k \in Keys |-> 0]

-----------------------------------------------------------------------------
(* First half of a call: validate, read the clock, compute the parameters. *)

Begin(c, request) ==
    /\ call[c] = Idle
    /\ call' = [call EXCEPT ![c] = request]
    /\ UNCHANGED <<table, clock, scan, crashes, total>>

Use(ks) == lastUse' = [k \in Keys |-> IF k \in ks THEN clock ELSE lastUse[k]]

Read(c, ks) ==
    /\ Begin(c, [op |-> "read", keys |-> ks, now |-> clock])
    /\ Use(ks)

(* get, get_with_ttl and refresh. *)
Get(c, k) == Read(c, {k})

GetMany(c, ks) == ks # {} /\ Read(c, ks)

GetPattern(c, pattern) == Read(c, pattern)

Write(c, ks, f, o) ==
    LET options == IF o = Null THEN default_options ELSE o
    IN  /\ Begin(c, [op |-> "set",
                     rows |-> [k \in ks |-> new_row(f[k], options, clock)]])
        /\ Use(ks)

Set(c, k, v, o) == Write(c, {k}, [x \in {k} |-> v], o)

SetMany(c, f, o) == DOMAIN f # {} /\ Write(c, DOMAIN f, f, o)

Delete(c, ks) ==
    /\ Begin(c, [op |-> "delete", keys |-> ks])
    /\ UNCHANGED lastUse

Remove(c, k) == Delete(c, {k})

DeleteMany(c, ks) == ks # {} /\ Delete(c, ks)

DeletePattern(c, pattern) == Delete(c, pattern)

(* An empty tag list returns before any statement. *)
DeleteByTags(c, ts) ==
    /\ ts # {}
    /\ Begin(c, [op |-> "delete_by_tags", tags |-> ts])
    /\ UNCHANGED lastUse

Incr(c, k, n) ==
    /\ total[k] + n <= MaxTotal
    /\ Begin(c, [op |-> "incr", key |-> k, amount |-> n, now |-> clock])
    /\ UNCHANGED lastUse

-----------------------------------------------------------------------------
(* Second half: the statement executes and commits, or the call raises.    *)

Return(c) ==
    /\ call' = [call EXCEPT ![c] = Idle]
    /\ UNCHANGED <<clock, scan, crashes, lastUse>>

ExecRead(c) ==
    /\ call[c].op = "read"
    /\ table' = get_items(table, call[c].keys, call[c].now)
    /\ Return(c)
    /\ UNCHANGED total

ExecSet(c) ==
    /\ call[c].op = "set"
    /\ table' = set_item(table, call[c].rows)
    /\ Return(c)
    /\ UNCHANGED total

(* What a deletion of ks does to the count of increments. *)
Forget(ks) == total' = [k \in Keys |-> IF k \in ks THEN 0 ELSE total[k]]

ExecDelete(c) ==
    /\ call[c].op = "delete"
    /\ table' = remove_item(table, call[c].keys)
    /\ Return(c)
    /\ Forget(call[c].keys)

ExecDeleteByTags(c) ==
    /\ call[c].op = "delete_by_tags"
    /\ table' = delete_by_tags(table, call[c].tags)
    /\ Return(c)
    /\ Forget(Tagged(table, call[c].tags))

(* A live payload that is no integer makes the statement fail: see Raise.  *)
ExecIncr(c) ==
    /\ call[c].op = "incr"
    /\ LET k == call[c].key
       IN  /\ k \in DOMAIN table =>
                \/ Expired(table[k], call[c].now)
                \/ table[k].value \in Int
           /\ table' = increment_item(table, k, call[c].amount, call[c].now)
           /\ total' = [total EXCEPT ![k] = @ + call[c].amount]
    /\ Return(c)

Raise(c) ==
    /\ call[c] # Idle
    /\ Return(c)
    /\ UNCHANGED <<table, total>>

-----------------------------------------------------------------------------
(* _scanner_loop: wait for the interval, delete what had expired when the  *)
(* clock was read, and carry on after any exception.                       *)

ScanWake ==
    /\ scan = Waiting
    /\ scan' = [pc |-> "deleting", now |-> clock]
    /\ UNCHANGED <<table, clock, call, crashes, lastUse, total>>

ScanDelete ==
    /\ scan.pc = "deleting"
    /\ table' = delete_expired(table, scan.now)
    /\ scan' = Waiting
    /\ UNCHANGED <<clock, call, crashes, lastUse, total>>

(* Slip: an exception ends the scanner loop. *)
ScanFailEndsLoop ==
    /\ scan.pc = "deleting"
    /\ scan' = [pc |-> "stopped"]
    /\ UNCHANGED <<table, clock, call, crashes, lastUse, total>>

ScanFail ==
    /\ scan.pc = "deleting"
    /\ scan' = Waiting
    /\ UNCHANGED <<table, clock, call, crashes, lastUse, total>>

-----------------------------------------------------------------------------
(* The environment: time passes, and PostgreSQL may crash and restart,     *)
(* which truncates an UNLOGGED table.  A statement the crash aborts raises *)
(* (Raise, ScanFail); one not yet sent may still be executed afterwards.   *)

Tick ==
    /\ clock < MaxClock
    /\ clock' = clock + 1
    /\ UNCHANGED <<table, call, scan, crashes, lastUse, total>>

ServerCrash ==
    /\ crashes < MaxCrashes
    /\ crashes' = crashes + 1
    /\ table' = IF UseWal THEN table ELSE [k \in {} |-> Null]
    /\ UNCHANGED <<clock, call, scan, lastUse, total>>

ClientStep(c) ==
    \/ \E k \in Keys : Get(c, k) \/ Remove(c, k)
    \/ \E ks \in KeySets : \/ GetMany(c, ks)    \/ GetPattern(c, ks)
                           \/ DeleteMany(c, ks) \/ DeletePattern(c, ks)
    \/ \E k \in EntryKeys, v \in Blobs, o \in OptionChoices : Set(c, k, v, o)
    \/ \E ks \in KeySets \cap SUBSET EntryKeys : \E f \in [ks -> Blobs] :
         \E o \in OptionChoices : SetMany(c, f, o)
    \/ \E ts \in TagSets : DeleteByTags(c, ts)
    \/ \E k \in CounterKeys, n \in Amounts : Incr(c, k, n)
    \/ ExecRead(c) \/ ExecSet(c) \/ ExecDelete(c)
    \/ ExecDeleteByTags(c) \/ ExecIncr(c) \/ Raise(c)

Next ==
    \/ \E c \in Clients : ClientStep(c)
    \/ ScanWake \/ ScanDelete \/ ScanFail
    \/ Tick \/ ServerCrash

Spec == Init /\ [][Next]_vars

(* The scanner thread is scheduled, and its statement does not fail for    *)
(* ever.  Nothing is assumed of clients, of time or of crashes.            *)
FairSpec == Spec /\ WF_vars(ScanWake) /\ SF_vars(ScanDelete)

-----------------------------------------------------------------------------
TypeOK ==
    /\ IsTable(table, Keys)
    /\ clock \in Nat
    /\ call = [c \in Clients |-> call[c]]
    /\ \A c \in Clients : IsCall(call[c])
    /\ scan \in {Waiting} \cup Scanning
    /\ crashes \in Nat
    /\ lastUse \in [Keys -> Nat]
    /\ total \in [Keys -> Int]

PureEntries  == EntryKeys \ CounterKeys
PureCounters == CounterKeys \ EntryKeys

(* No entry is readable after its absolute expiration, however often it is *)
(* read, and however late the renewals of its sliding window execute: the  *)
(* LEAST of the UPDATE and the cap in set() and set_many() agree.          *)
HardCutoff ==
    \A k \in PureEntries \cap DOMAIN table :
        table[k].abs # Null /\ table[k].abs < clock => Expired(table[k], clock)

(* An entry nobody has begun to read or write for longer than its sliding  *)
(* window is not readable: no delayed statement keeps an idle entry alive. *)
IdleEntriesExpire ==
    \A k \in PureEntries \cap DOMAIN table :
        /\ table[k].sliding # Null
        /\ lastUse[k] + table[k].sliding < clock
        => Expired(table[k], clock)

(* What makes both true at every step: a row, in the table or on its way   *)
(* to it, is bounded by its ceiling and by the latest use of its key, and  *)
(* a read in flight carries no instant later than that use.                *)
Bounded(row, used) ==
    /\ row.exp # Infinity
    /\ row.abs # Null => row.exp <= row.abs
    /\ row.sliding # Null => row.exp <= used + row.sliding

RowsBounded(tb, used) ==
    \A k \in PureEntries \cap DOMAIN tb : Bounded(tb[k], used[k])

CallBounded(r, used) ==
    /\ r.op = "set" => RowsBounded(r.rows, used)
    /\ r.op = "read" => \A k \in r.keys : r.now <= used[k]

DeadlineInv ==
    /\ \A k \in Keys : lastUse[k] <= clock
    /\ RowsBounded(table, lastUse)
    /\ \A c \in Clients : CallBounded(call[c], lastUse)

(* A counter is the sum of the increments committed since it was last      *)
(* deleted: no two increments are merged, the scanner never collects one,  *)
(* and with use_wal a crash loses none.                                    *)
CounterExact ==
    UseWal =>
        \A k \in PureCounters :
            total[k] = IF k \in DOMAIN table THEN table[k].value ELSE 0

(* What makes it true at every step: a counter has no expiry to run out    *)
(* and no window a read could renew.                                       *)
CounterInv ==
    \A k \in PureCounters :
        /\ k \in DOMAIN table => /\ table[k].exp = Infinity
                                 /\ table[k].sliding = Null
                                 /\ UseWal => total[k] = table[k].value
        /\ k \notin DOMAIN table => (UseWal => total[k] = 0)

(* A row that is still live leaves the table only through a remove, a bulk *)
(* or pattern delete naming its key, or a delete_tags all of whose tags it *)
(* carries: neither the scanner, whatever instant its statement carries,   *)
(* nor a delete_tags with an empty list takes it.  An UNLOGGED table may   *)
(* also lose it in a crash.                                                *)
Invalidates(c, k) ==
    /\ call'[c] = Idle
    /\ \/ call[c].op = "delete" /\ k \in call[c].keys
       \/ /\ call[c].op = "delete_by_tags"
          /\ table[k].tags # Null
          /\ call[c].tags # {}
          /\ call[c].tags \subseteq table[k].tags

LiveRowsLeaveOnlyByInvalidation ==
    [][\A k \in DOMAIN table \ DOMAIN table' :
          \/ Expired(table[k], clock)
          \/ \E c \in Clients : Invalidates(c, k)
          \/ ~UseWal /\ crashes' # crashes]_vars

(* What makes it true at every step: the scanner's instant is never in the *)
(* future, and no empty tag list is on its way to the table.               *)
DeletionInv ==
    /\ scan # Waiting => scan.now <= clock
    /\ \A c \in Clients : call[c].op = "delete_by_tags" => call[c].tags # {}

(* A read that is the latest use of an entry never brings its expiry       *)
(* forward: only one that another read or write has overtaken may, since   *)
(* every deadline in the table is that of some earlier use, or less.       *)
OnlyOvertakenReadsShorten ==
    [][\A c \in Clients : \A k \in PureEntries \cap DOMAIN table \cap DOMAIN table' :
          /\ call[c].op = "read" /\ call'[c] = Idle
          /\ table'[k].exp < table[k].exp
          => call[c].now < lastUse[k]]_vars

(* Keys that are entries, and keys that are counters, behave as            *)
(* CacheContract allows, whatever statements overlap or come late.         *)
used == [k \in PureEntries |-> lastUse[k]]

deleting == {c \in Clients : call[c].op \in {"delete", "delete_by_tags"}}

entry ==
    [k \in PureEntries \cap DOMAIN table |->
        [value   |-> table[k].value, window   |-> table[k].sliding,
         ceiling |-> table[k].abs,   deadline |-> table[k].exp]]

count ==
    [k \in PureCounters |-> IF k \in DOMAIN table THEN table[k].value ELSE 0]

Contract == INSTANCE CacheContract WITH
    Entries <- PureEntries, Counters <- PureCounters, Durable <- UseWal,
    Values <- Blobs \cup Int, None <- Null

ImplementsContract == Contract!Spec

(* Every expired row is in the end collected, unless it is written or      *)
(* revived: a scan that fails does not end the scanner loop.               *)
HasExpired(k) == k \in DOMAIN table /\ Expired(table[k], clock)

ExpiredRowsAreCollected == \A k \in Keys : HasExpired(k) ~> ~HasExpired(k)

(* README.md:219, "Sliding expiration (extends each time it is accessed)": *)
(* a read of a live entry never brings its expiry forward.  The code does: *)
(* the read carries an instant taken before it waited for its connection.  *)
RenewalNeverShortens ==
    [][\A c \in Clients : \A k \in DOMAIN table \cap DOMAIN table' :
          call[c].op = "read" /\ call'[c] = Idle /\ table[k].exp # Infinity
          => table'[k].exp >= table[k].exp]_vars
=============================================================================
