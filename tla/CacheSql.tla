------------------------------ MODULE CacheSql ------------------------------
(***************************************************************************)
(* The cache table and the statements of SqlQueries, as functions from     *)
(* tables to tables, and the expiry arithmetic the client does before it   *)
(* sends a write.                                                          *)
(*                                                                         *)
(* A table is a function whose DOMAIN is the set of keys that have a row,  *)
(* expired rows included: nothing but a DELETE removes a row.  Instants    *)
(* and durations are whole ticks; a key, a payload and a tag are model     *)
(* values.  A LIKE pattern is the set of keys it matches.  Each statement  *)
(* runs in a transaction of its own under READ COMMITTED and takes the row *)
(* locks it needs, so it is one atomic function of the table.              *)
(***************************************************************************)
EXTENDS Integers, Functions

CONSTANTS
    Keys,               \* key_id
    Blobs,              \* opaque payloads; a counter's payload is its integer
    Tags,
    Null,               \* SQL NULL, Python None
    Infinity,           \* 'infinity'::timestamptz
    TicksPerSecond,     \* sliding windows are stored as whole seconds
    DefaultSliding,     \* options.default_sliding_expiration, in ticks
    Century             \* the 365 * 100 days of an entry with no TTL

ASSUME SqlAssumption ==
    /\ Null \notin Int
    /\ Infinity \notin Int
    /\ Null # Infinity
    /\ TicksPerSecond \in Nat \ {0}
    /\ DefaultSliding \in Nat \ {0}
    /\ Century \in Nat

Row == [value   : Blobs \cup Int,
        exp     : Int \cup {Infinity},
        sliding : Int \cup {Null},
        abs     : Int \cup {Null},
        tags    : {Null} \cup SUBSET Tags]

(* The tables over a set of keys. *)
IsTable(tb, ks) ==
    /\ tb = [k \in DOMAIN tb |-> tb[k]]
    /\ DOMAIN tb \subseteq ks
    /\ \A k \in DOMAIN tb : tb[k] \in Row

(* No two absolute fields at once: EntryOptions.__post_init__ rejects it.  *)
EntryOptions ==
    {o \in [sliding  : Int \cup {Null},
            absolute : Int \cup {Null},
            relative : Int \cup {Null},
            tags     : {Null} \cup SUBSET Tags] :
        o.absolute = Null \/ o.relative = Null}

(* The options a write uses when the caller passes none.                   *)
default_options ==
    [sliding |-> DefaultSliding, absolute |-> Null, relative |-> Null,
     tags |-> Null]

(* int(total_seconds()): the fraction of a second is dropped, towards 0.   *)
resolve_sliding_seconds(o) ==
    IF o.sliding = Null THEN Null
    ELSE IF o.sliding >= 0 THEN o.sliding - (o.sliding % TicksPerSecond)
    ELSE o.sliding + ((-o.sliding) % TicksPerSecond)

resolve_expires_at(o, now) ==
    IF o.absolute # Null THEN o.absolute
    ELSE IF o.relative # Null THEN now + o.relative ELSE Null

(* A sliding deadline, cut at the absolute one.                            *)
Capped(t, abs) == IF abs # Null /\ abs < t THEN abs ELSE t

(* Slip: no sentinel, expires_at stays unset when no TTL is given.         *)
expires_at_unset(o, now) ==
    LET s == resolve_sliding_seconds(o)
        a == resolve_expires_at(o, now)
    IN  IF s # Null THEN Capped(now + s, a) ELSE a

(* Slip: the ceiling for the expiry of an entry that has a window as well. *)
expires_at_ceiling(o, now) ==
    LET s == resolve_sliding_seconds(o)
        a == resolve_expires_at(o, now)
    IN  IF a # Null THEN a ELSE IF s # Null THEN now + s ELSE now + Century

(* expires_at of a write whose clock was read at now.                      *)
expires_at(o, now) ==
    LET s == resolve_sliding_seconds(o)
        a == resolve_expires_at(o, now)
    IN  IF s # Null THEN Capped(now + s, a)
        ELSE IF a # Null THEN a ELSE now + Century

new_row(v, o, now) ==
    [value   |-> v,
     exp     |-> expires_at(o, now),
     sliding |-> resolve_sliding_seconds(o),
     abs     |-> resolve_expires_at(o, now),
     tags    |-> o.tags]

-----------------------------------------------------------------------------
(* WHERE expires_at >= now, and its complement expires_at < now.           *)
Live(row, now)    == row.exp = Infinity \/ row.exp >= now
Expired(row, now) == ~Live(row, now)

(* Slips: the LEAST forgotten; the window added to the old deadline; the   *)
(* default window for a row that has none.                                 *)
renewed_uncapped(row, now) ==
    IF row.sliding = Null THEN row ELSE [row EXCEPT !.exp = now + row.sliding]

renewed_cumulative(row, now) ==
    IF row.sliding = Null THEN row
    ELSE [row EXCEPT !.exp = Capped(@ + row.sliding, row.abs)]

renewed_defaulting(row, now) ==
    [row EXCEPT !.exp = Capped(
        now + (IF row.sliding = Null THEN DefaultSliding ELSE row.sliding),
        row.abs)]

(* SET expires_at = CASE WHEN sliding IS NOT NULL THEN LEAST(...) ... END. *)
renewed(row, now) ==
    IF row.sliding = Null THEN row
    ELSE [row EXCEPT !.exp = Capped(now + row.sliding, row.abs)]

(* The UPDATE ... RETURNING of every read: get_item, get_item_with_ttl and *)
(* refresh_item name one key, get_many_items and get_by_pattern a set.     *)
get_items(tb, ks, now) ==
    [k \in DOMAIN tb |-> IF k \in ks /\ Live(tb[k], now)
                         THEN renewed(tb[k], now) ELSE tb[k]]

(* INSERT ... ON CONFLICT DO UPDATE of every column, one row per key; a    *)
(* set_many sends them all in one transaction.                             *)
set_item(tb, rows) ==
    [k \in DOMAIN tb \cup DOMAIN rows |->
        IF k \in DOMAIN rows THEN rows[k] ELSE tb[k]]

(* remove_item, delete_many_items and delete_by_pattern.                   *)
remove_item(tb, ks) == Restrict(tb, DOMAIN tb \ ks)

(* Slip: <= for <. *)
delete_expired_inclusive(tb, now) ==
    remove_item(tb, {k \in DOMAIN tb : tb[k].exp # Infinity /\ tb[k].exp <= now})

delete_expired(tb, now) ==
    remove_item(tb, {k \in DOMAIN tb : Expired(tb[k], now)})

(* tags @> ts: never true of a row whose tags are NULL, and true of every  *)
(* other row when ts is empty.                                             *)
Tagged(tb, ts) == {k \in DOMAIN tb : tb[k].tags # Null /\ ts \subseteq tb[k].tags}

delete_by_tags(tb, ts) == remove_item(tb, Tagged(tb, ts))

(* Slip: a counter given the default window in place of 'infinity'.        *)
increment_item_expiring(tb, k, n, now) ==
    IF k \notin DOMAIN tb
    THEN set_item(tb, [x \in {k} |-> new_row(n, default_options, now)])
    ELSE [tb EXCEPT ![k].value = IF Expired(tb[k], now) THEN n ELSE @ + n]

(* A new counter never expires.  An expired row is reset in value and      *)
(* expiry only: its other columns stay.                                    *)
increment_item(tb, k, n, now) ==
    IF k \notin DOMAIN tb
    THEN set_item(tb, [x \in {k} |-> [value |-> n, exp |-> Infinity,
                                      sliding |-> Null, abs |-> Null,
                                      tags |-> Null]])
    ELSE IF Expired(tb[k], now)
    THEN [tb EXCEPT ![k] = [@ EXCEPT !.value = n, !.exp = Infinity]]
    ELSE [tb EXCEPT ![k] = [@ EXCEPT !.value = tb[k].value + n]]
=============================================================================
