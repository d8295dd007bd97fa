------------------------------ MODULE Lifecycle ------------------------------
(***************************************************************************)
(* One cache object from its construction on: the context manager and      *)
(* close(), the scanner's start and stop, the connection pool, and the     *)
(* double-checked DDL that every operation runs first.                     *)
(*                                                                         *)
(* PostgresCache (threads) and AsyncPostgresCache (tasks) are one model.   *)
(* They part where the pool is opened and where close() gives up on the    *)
(* scanner: a thread is forgotten, a task is cancelled.  One owner enters  *)
(* and closes the cache; workers call its operations at any time, closed   *)
(* or not.  Other processes run the same DDL for tables of the schema.     *)
(***************************************************************************)
EXTENDS Integers, FiniteSets

CONSTANTS
    Workers,            \* threads or tasks calling operations
    Scanners,           \* the scanners that can be started: a bound
    Tables,             \* tables of the schema
    OptionChoices,      \* arguments of PostgresCacheOptions
    MIN_SCAN_INTERVAL,
    Null

Threads == Workers \cup Scanners

Sources == {"dsn", "connection_factory", "async_connection_factory"}

Options == [kind                       : {"threads", "tasks"},
            sources                    : SUBSET Sources,
            table                      : Tables,
            create_if_not_exists       : BOOLEAN,
            enable_expiration_scan     : BOOLEAN,
            expiration_scan_interval   : Int,
            default_sliding_expiration : Int]

(* __post_init__ raises otherwise. *)
Valid(o) ==
    /\ Cardinality(o.sources) = 1
    /\ o.expiration_scan_interval >= MIN_SCAN_INTERVAL
    /\ o.default_sliding_expiration > 0

ASSUME LifecycleAssumption ==
    /\ Workers \cap Scanners = {}
    /\ Null \notin Threads \cup Tables
    /\ OptionChoices \subseteq Options

VARIABLES
    options,
    owner,          \* outside or inside the with block, or in close()
    stop,           \* _stop_event
    handle,         \* _scanner_thread, _scanner_task
    gaveup,         \* history: close() has abandoned a running thread
    pc,             \* what each thread is doing
    ddl_lock,       \* the thread holding _ddl_lock
    table_created,  \* _table_created
    pool,           \* "none" with a factory, "new" before it is opened
    tables,         \* the tables that exist
    expiry_index    \* the table whose index is named ix_expiresattime

object == <<owner, stop, handle, gaveup>>
schema == <<tables, expiry_index>>
vars   == <<options, object, pc, ddl_lock, table_created, pool, schema>>

Factory == IF options.kind = "threads"
           THEN "connection_factory" ELSE "async_connection_factory"

(* The pool, when there is a dsn and no factory of this kind. *)
new_pool(o) ==
    IF "dsn" \notin o.sources THEN "none"
    ELSE IF o.kind = "threads" THEN "open" ELSE "new"

Init ==
    /\ options \in {o \in OptionChoices : Valid(o)}
    /\ owner = "outside"
    /\ stop = FALSE
    /\ handle = Null
    /\ gaveup = FALSE
    /\ pc = [t \in Threads |-> IF t \in Workers THEN "idle" ELSE "new"]
    /\ ddl_lock = Null
    /\ table_created = FALSE
    /\ pool = new_pool(options)
    /\ tables = {}
    /\ expiry_index = Null

-----------------------------------------------------------------------------
(* Operations: ensure_table_exists, then a statement. *)

At(t, step) == pc[t] = step
Goto(t, step) == pc' = [pc EXCEPT ![t] = step]

(* Back to the caller, or to the scanner's loop. *)
Rest(t) == IF t \in Workers THEN "idle" ELSE "waiting"

(* The unlocked check of the flag. *)
Begin(t) ==
    /\ Goto(t, IF options.create_if_not_exists /\ ~table_created
               THEN "locking" ELSE "executing")
    /\ UNCHANGED <<options, object, ddl_lock, table_created, pool, schema>>

Call(w) == At(w, "idle") /\ Begin(w)

(* Slip: no second look at the flag. *)
DdlLockUnchecked(t) ==
    /\ At(t, "locking")
    /\ ddl_lock = Null
    /\ ddl_lock' = t
    /\ Goto(t, "connecting")
    /\ UNCHANGED <<options, object, table_created, pool, schema>>

DdlLock(t) ==
    /\ At(t, "locking")
    /\ ddl_lock = Null
    /\ ~table_created
    /\ ddl_lock' = t
    /\ Goto(t, "connecting")
    /\ UNCHANGED <<options, object, table_created, pool, schema>>

(* Taken, and given back at once. *)
DdlAlreadyDone(t) ==
    /\ At(t, "locking")
    /\ ddl_lock = Null
    /\ table_created
    /\ Goto(t, "executing")
    /\ UNCHANGED <<options, object, ddl_lock, table_created, pool, schema>>

(* A connection can be had; the tasks' pool is opened by its first use.    *)
Connected ==
    /\ IF pool = "none" THEN Factory \in options.sources ELSE pool # "closed"
    /\ pool' = IF pool = "new" THEN "open" ELSE pool

DdlConnect(t) ==
    /\ At(t, "connecting")
    /\ Connected
    /\ Goto(t, "creating")
    /\ UNCHANGED <<options, object, ddl_lock, table_created, schema>>

(* CREATE ... IF NOT EXISTS: the name of the index on the expiry does not  *)
(* depend on the table, and one that is taken is left as it is.            *)
Create(tb) ==
    /\ tables' = tables \cup {tb}
    /\ expiry_index' = IF expiry_index = Null THEN tb ELSE expiry_index

DdlCommit(t) ==
    /\ At(t, "creating")
    /\ Create(options.table)
    /\ table_created' = TRUE
    /\ ddl_lock' = Null
    /\ Goto(t, "executing")
    /\ UNCHANGED <<options, object, pool>>

(* Slip: the error is logged and not raised. *)
DdlFailsLogged(t) ==
    /\ pc[t] \in {"connecting", "creating"}
    /\ ddl_lock' = Null
    /\ Goto(t, "executing")
    /\ UNCHANGED <<options, object, table_created, pool, schema>>

(* Slip: the lock is given back on success only. *)
DdlFailsHolding(t) ==
    /\ pc[t] \in {"connecting", "creating"}
    /\ Goto(t, Rest(t))
    /\ UNCHANGED <<options, object, ddl_lock, table_created, pool, schema>>

(* No connection, an error of a statement, a race lost to another process, *)
(* or a cancelled task; or a commit whose answer was lost.                 *)
DdlFails(t) ==
    /\ pc[t] \in {"connecting", "creating"}
    /\ ddl_lock' = Null
    /\ Goto(t, Rest(t))
    /\ UNCHANGED schema \/ (At(t, "creating") /\ Create(options.table))
    /\ UNCHANGED <<options, object, table_created, pool>>

Execute(t) ==
    /\ At(t, "executing")
    /\ options.table \in tables
    /\ Connected
    /\ Goto(t, Rest(t))
    /\ UNCHANGED <<options, object, ddl_lock, table_created, schema>>

(* The exception goes to the caller; the scanner logs it. *)
ExecuteFails(t) ==
    /\ At(t, "executing")
    /\ Goto(t, Rest(t))
    /\ UNCHANGED <<options, object, ddl_lock, table_created, pool, schema>>

(* A task is cancelled while it waits for the lock. *)
CallCancelled(w) ==
    /\ options.kind = "tasks"
    /\ At(w, "locking")
    /\ Goto(w, "idle")
    /\ UNCHANGED <<options, object, ddl_lock, table_created, pool, schema>>

-----------------------------------------------------------------------------
(* The scanner. *)

Alive(s) == pc[s] \notin {"new", "ended"}

(* The wait for the event times out: delete_expired. *)
ScanWake(s) == At(s, "waiting") /\ ~stop /\ Begin(s)

ScanStops(s) ==
    /\ At(s, "waiting")
    /\ stop
    /\ Goto(s, "ended")
    /\ UNCHANGED <<options, object, ddl_lock, table_created, pool, schema>>

-----------------------------------------------------------------------------
(* The owner. *)

Running == handle # Null /\ Alive(handle)

(* Slip: the event left set by an earlier close(). *)
EnterStopped(s) ==
    /\ owner \in {"outside", "inside"}
    /\ options.enable_expiration_scan
    /\ ~Running
    /\ At(s, "new")
    /\ owner' = "inside"
    /\ handle' = s
    /\ Goto(s, "waiting")
    /\ UNCHANGED <<options, table_created, schema,
                   stop, gaveup, ddl_lock, pool>>

(* Slip: a scanner for each with block, nested ones too. *)
EnterAlways(s) ==
    /\ owner \in {"outside", "inside"}
    /\ options.enable_expiration_scan
    /\ At(s, "new")
    /\ owner' = "inside"
    /\ stop' = FALSE
    /\ handle' = s
    /\ Goto(s, "waiting")
    /\ UNCHANGED <<options, table_created, schema,
                   gaveup, ddl_lock, pool>>

Enter(s) ==
    /\ owner \in {"outside", "inside"}
    /\ options.enable_expiration_scan
    /\ ~Running
    /\ At(s, "new")
    /\ owner' = "inside"
    /\ stop' = FALSE
    /\ handle' = s
    /\ Goto(s, "waiting")
    /\ UNCHANGED <<options, table_created, schema,
                   gaveup, ddl_lock, pool>>

(* _start_scanner has nothing to do. *)
EnterIdly ==
    /\ owner \in {"outside", "inside"}
    /\ options.enable_expiration_scan => Running
    /\ owner' = "inside"
    /\ UNCHANGED <<options, table_created, schema,
                   stop, handle, gaveup, pc, ddl_lock, pool>>

(* Slip: the scanner is waited for and not told. *)
CloseUntold ==
    /\ owner \in {"outside", "inside"}
    /\ owner' = IF Running THEN "joining" ELSE "closing"
    /\ handle' = IF Running THEN handle ELSE Null
    /\ UNCHANGED <<options, table_created, schema,
                   stop, gaveup, pc, ddl_lock, pool>>

Close ==
    /\ owner \in {"outside", "inside"}
    /\ stop' = TRUE
    /\ owner' = IF Running THEN "joining" ELSE "closing"
    /\ handle' = IF Running THEN handle ELSE Null
    /\ UNCHANGED <<options, table_created, schema,
                   gaveup, pc, ddl_lock, pool>>

Joined ==
    /\ owner = "joining"
    /\ At(handle, "ended")
    /\ owner' = "closing"
    /\ handle' = Null
    /\ UNCHANGED <<options, table_created, schema,
                   stop, gaveup, pc, ddl_lock, pool>>

(* After 5 s a thread is left running and forgotten ...                    *)
GiveUp ==
    /\ owner = "joining"
    /\ options.kind = "threads"
    /\ Alive(handle)
    /\ owner' = "closing"
    /\ handle' = Null
    /\ gaveup' = TRUE
    /\ UNCHANGED <<options, table_created, schema,
                   stop, pc, ddl_lock, pool>>

(* Slip: a wait that times out without cancelling the task. *)
CancelForgets ==
    /\ owner = "joining"
    /\ options.kind = "tasks"
    /\ Alive(handle)
    /\ owner' = "closing"
    /\ handle' = Null
    /\ UNCHANGED <<options, table_created, schema,
                   stop, gaveup, pc, ddl_lock, pool>>

(* ... and a task is cancelled, which frees what it held. *)
Cancel ==
    /\ owner = "joining"
    /\ options.kind = "tasks"
    /\ Alive(handle)
    /\ owner' = "closing"
    /\ handle' = Null
    /\ Goto(handle, "ended")
    /\ ddl_lock' = IF ddl_lock = handle THEN Null ELSE ddl_lock
    /\ UNCHANGED schema \/ (At(handle, "creating") /\ Create(options.table))
    /\ UNCHANGED <<options, table_created, stop, gaveup, pool>>

(* Slip: the pool is replaced by a fresh one. *)
ClosePoolAnew ==
    /\ owner = "closing"
    /\ owner' = "outside"
    /\ pool' = IF pool = "open" THEN "new" ELSE pool
    /\ UNCHANGED <<options, table_created, schema,
                   stop, handle, gaveup, pc, ddl_lock>>

(* A closed pool cannot be opened again; one never opened still can.       *)
ClosePool ==
    /\ owner = "closing"
    /\ owner' = "outside"
    /\ pool' = IF pool = "open" THEN "closed" ELSE pool
    /\ UNCHANGED <<options, table_created, schema,
                   stop, handle, gaveup, pc, ddl_lock>>

-----------------------------------------------------------------------------
(* Another process with a cache on this table or another of the schema.    *)
OtherCreates(tb) ==
    /\ Create(tb)
    /\ UNCHANGED <<options, object, pc, ddl_lock, table_created, pool>>

TakeDdlLock(t) == DdlLock(t) \/ DdlAlreadyDone(t)

Progress(t) ==
    \/ DdlConnect(t) \/ DdlCommit(t) \/ DdlFails(t)
    \/ Execute(t) \/ ExecuteFails(t)

ScannerStep(s) == ScanWake(s) \/ ScanStops(s) \/ Enter(s)

OwnerStep ==
    EnterIdly \/ Close \/ Joined \/ GiveUp \/ Cancel \/ ClosePool

Next ==
    \/ \E w \in Workers : Call(w) \/ CallCancelled(w)
    \/ \E t \in Threads : TakeDdlLock(t) \/ Progress(t)
    \/ \E s \in Scanners : ScannerStep(s)
    \/ OwnerStep
    \/ \E tb \in Tables : OtherCreates(tb)

Spec == Init /\ [][Next]_vars

(* Threads are scheduled, statements end, and _ddl_lock is not kept from   *)
(* one of its waiters for ever.  Of the owner nothing is assumed.          *)
FairSpec ==
    /\ Spec
    /\ \A t \in Threads : WF_vars(Progress(t)) /\ SF_vars(TakeDdlLock(t))
    /\ \A s \in Scanners : WF_vars(ScanStops(s))

-----------------------------------------------------------------------------
Busy == {"locking", "connecting", "creating", "executing"}

TypeOK ==
    /\ options \in Options
    /\ owner \in {"outside", "inside", "joining", "closing"}
    /\ stop \in BOOLEAN
    /\ handle \in Scanners \cup {Null}
    /\ gaveup \in BOOLEAN
    /\ pc \in [Threads -> {"idle", "new", "waiting", "ended"} \cup Busy]
    /\ \A w \in Workers : pc[w] \in {"idle"} \cup Busy
    /\ \A s \in Scanners : pc[s] \in {"new", "waiting", "ended"} \cup Busy
    /\ ddl_lock \in Threads \cup {Null}
    /\ table_created \in BOOLEAN
    /\ pool \in IF options.kind = "threads" THEN {"none", "open", "closed"}
                ELSE {"none", "new", "open", "closed"}
    /\ tables \subseteq Tables
    /\ expiry_index \in tables \cup {Null}

InDdl(t) == pc[t] \in {"connecting", "creating"}

(* No statement of a cache that creates its table is sent before the table *)
(* exists, whichever thread or process creates it and however often that   *)
(* failed before: failures must not pass for success, nor the flag be seen *)
(* before the commit.                                                      *)
TableReady ==
    options.create_if_not_exists =>
        /\ table_created => options.table \in tables
        /\ \A t \in Threads : At(t, "executing") => options.table \in tables

(* _db.py:92, "DDL is attempted at most once per instance, even under      *)
(* concurrent calls": one thread at a time, and never again once it has    *)
(* succeeded, whatever waits for the lock.                                 *)
DdlOnce ==
    \A t \in Threads : InDdl(t) =>
        /\ ~table_created
        /\ \A u \in Threads : InDdl(u) => u = t

(* A cache has at most one scanner, and it is the one close() waits for,   *)
(* through nested and repeated with blocks: unless a close() gave up on a  *)
(* thread, which a later __enter__ lets run on beside the new one.         *)
OneScanner == gaveup \/ \A s \in Scanners : Alive(s) => handle = s

(* Inside the with block the scanner runs and has not been told to stop:   *)
(* no failed scan or DDL ends it, and no earlier close() reaches it.       *)
HasScanner ==
    owner = "inside" /\ options.enable_expiration_scan => Running /\ ~stop

(* Once close() is past the scanner, and until the cache is entered again, *)
(* a scanner is left only where a thread had to be given up on, and that   *)
(* one has been told to stop: no nested block, scanner of an earlier block *)
(* or task in the middle of its DDL is.                                    *)
NoScannerAfterClose ==
    owner \in {"closing", "outside"} =>
        \A s \in Scanners : Alive(s) => gaveup /\ stop /\ options.kind = "threads"

(* What they rest on: who holds _ddl_lock, and what the owner knows of the *)
(* scanners.                                                               *)
DdlInv ==
    /\ \A t \in Threads : InDdl(t) <=> ddl_lock = t
    /\ ddl_lock # Null => ~table_created
    /\ options.create_if_not_exists =>
          \A t \in Threads : At(t, "executing") => table_created

ScannerInv ==
    /\ handle # Null => ~At(handle, "new") /\ (stop \/ Alive(handle))
    /\ owner = "joining" => handle # Null /\ stop
    /\ owner \in {"outside", "closing"} => handle = Null
    /\ owner = "inside" /\ handle = Null => ~options.enable_expiration_scan

(* What it rests on: the event stays set from close() to the next start.   *)
ToldInv ==
    /\ owner \in {"joining", "closing"} => stop
    /\ owner = "outside" => stop \/ \A s \in Scanners : ~Alive(s)
    /\ gaveup => options.kind = "threads"

(* Every call comes back, with a result or an exception, whatever became   *)
(* of the DDL before it: a failed creation leaves the lock to the next.    *)
CallsReturn == \A w \in Workers : pc[w] # "idle" ~> pc[w] = "idle"

(* tests/integration/test_integration.py:308, the scanner must not outlive *)
(* the cache: after close(), even one that gave up, every scanner ends     *)
(* unless the cache is entered again.                                      *)
ScannerStops ==
    \A s \in Scanners : owner = "outside" /\ Alive(s)
                        ~> ~Alive(s) \/ owner # "outside"

(* _db.py:90, "Create the cache table and index if they do not exist yet": *)
(* a cache that has run its DDL has the index on its own table's expiry.   *)
IndexReady == table_created => expiry_index = options.table
=============================================================================
