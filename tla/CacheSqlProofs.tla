--------------------------- MODULE CacheSqlProofs ---------------------------
(***************************************************************************)
(* The statements of CacheSql keep a table a table, the deadlines they     *)
(* compute are instants, a statement over several rows is made of those    *)
(* over its parts, and a scan shows to no later read.                      *)
(***************************************************************************)
EXTENDS CacheSql, TLAPS

LEMMA ResolvedType ==
    ASSUME NEW o \in EntryOptions, NEW now \in Int
    PROVE  /\ resolve_sliding_seconds(o) \in Int \cup {Null}
           /\ resolve_expires_at(o, now) \in Int \cup {Null}
<1>1. /\ o.sliding \in Int \cup {Null}
      /\ o.absolute \in Int \cup {Null}
      /\ o.relative \in Int \cup {Null}
  BY DEF EntryOptions
<1>2. resolve_sliding_seconds(o) \in Int \cup {Null}
  <2>1. CASE o.sliding = Null
    BY <2>1 DEF resolve_sliding_seconds
  <2>2. CASE o.sliding # Null
    <3>1. o.sliding \in Int /\ TicksPerSecond \in Nat \ {0}
      BY <1>1, <2>2, SqlAssumption
    <3>2. /\ o.sliding - (o.sliding % TicksPerSecond) \in Int
          /\ o.sliding + ((-o.sliding) % TicksPerSecond) \in Int
      BY <3>1
    <3> QED  BY <3>2, <2>2 DEF resolve_sliding_seconds
  <2> QED  BY <2>1, <2>2
<1>3. resolve_expires_at(o, now) \in Int \cup {Null}
  BY <1>1 DEF resolve_expires_at
<1> QED  BY <1>2, <1>3

(* Truncation to whole seconds, resolve_sliding_seconds of _options.py:265, *)
(* never lengthens a window and costs it less than one second; one shorter *)
(* than a second becomes none at all: an entry that is over at once.       *)
THEOREM TruncationLosesLittle ==
    ASSUME NEW o \in EntryOptions, o.sliding \in Nat
    PROVE  LET s == resolve_sliding_seconds(o)
           IN  /\ s \in 0 .. o.sliding
               /\ o.sliding < s + TicksPerSecond
               /\ o.sliding < TicksPerSecond => s = 0
<1> DEFINE r == o.sliding % TicksPerSecond
           s == resolve_sliding_seconds(o)
<1>1. TicksPerSecond \in Nat \ {0} /\ o.sliding \in Nat /\ o.sliding # Null
  BY SqlAssumption
<1>2. r \in 0 .. TicksPerSecond - 1 /\ r <= o.sliding
  BY <1>1
<1>3. o.sliding < TicksPerSecond => r = o.sliding
  BY <1>1
<1>4. s = o.sliding - r
  BY <1>1 DEF resolve_sliding_seconds
<1>5. s \in 0 .. o.sliding /\ o.sliding < s + TicksPerSecond
  <2> HIDE DEF r, s
  <2> QED  BY <1>1, <1>2, <1>4
<1>6. o.sliding < TicksPerSecond => s = 0
  <2> HIDE DEF r, s
  <2> QED  BY <1>1, <1>2, <1>3, <1>4
<1> QED  BY <1>5, <1>6

LEMMA CappedBounds ==
    ASSUME NEW t \in Int, NEW a \in Int \cup {Null}
    PROVE  /\ Capped(t, a) \in Int
           /\ Capped(t, a) <= t
           /\ a # Null => Capped(t, a) <= a
BY SqlAssumption DEF Capped

LEMMA NewRowType ==
    ASSUME NEW v \in Blobs \cup Int, NEW o \in EntryOptions, NEW now \in Int
    PROVE  /\ new_row(v, o, now) \in Row
           /\ new_row(v, o, now).exp \in Int
<1> DEFINE s == resolve_sliding_seconds(o)
           a == resolve_expires_at(o, now)
<1>1. s \in Int \cup {Null} /\ a \in Int \cup {Null}
  BY ResolvedType
<1>2. o.tags \in {Null} \cup SUBSET Tags
  BY DEF EntryOptions
<1>3. expires_at(o, now) \in Int
  <2> HIDE DEF s, a
  <2>1. CASE s # Null
    <3>1. now + s \in Int
      BY <1>1, <2>1
    <3>2. Capped(now + s, a) \in Int
      BY <3>1, <1>1, CappedBounds
    <3> QED  BY <3>2, <2>1 DEF expires_at, s, a
  <2>2. CASE s = Null /\ a # Null
    BY <1>1, <2>2 DEF expires_at, s, a
  <2>3. CASE s = Null /\ a = Null
    BY <2>3, SqlAssumption DEF expires_at, s, a
  <2> QED  BY <2>1, <2>2, <2>3
<1> QED  BY <1>1, <1>2, <1>3 DEF new_row, Row

LEMMA GetItemsType ==
    ASSUME NEW tb, IsTable(tb, Keys), NEW ks, NEW now \in Int
    PROVE  IsTable(get_items(tb, ks, now), Keys)
<1> DEFINE new == get_items(tb, ks, now)
<1>1. /\ new = [k \in DOMAIN new |-> new[k]]
      /\ DOMAIN new = DOMAIN tb
  BY DEF get_items
<1>2. ASSUME NEW k \in DOMAIN tb
      PROVE  new[k] \in Row
  <2>1. tb[k] \in Row
    BY DEF IsTable
  <2>2. renewed(tb[k], now) \in Row
    <3>1. CASE tb[k].sliding = Null
      BY <2>1, <3>1 DEF renewed
    <3>2. CASE tb[k].sliding # Null
      <4>1. now + tb[k].sliding \in Int /\ tb[k].abs \in Int \cup {Null}
        BY <2>1, <3>2 DEF Row
      <4>2. Capped(now + tb[k].sliding, tb[k].abs) \in Int
        BY <4>1, CappedBounds
      <4> QED  BY <2>1, <3>2, <4>2 DEF renewed, Row
    <3> QED  BY <3>1, <3>2
  <2> QED  BY <2>1, <2>2 DEF get_items
<1> QED  BY <1>1, <1>2 DEF IsTable

LEMMA SetItemType ==
    ASSUME NEW tb, IsTable(tb, Keys), NEW rows, IsTable(rows, Keys)
    PROVE  IsTable(set_item(tb, rows), Keys)
BY DEF IsTable, set_item

LEMMA RemoveItemType ==
    ASSUME NEW tb, IsTable(tb, Keys), NEW ks
    PROVE  IsTable(remove_item(tb, ks), Keys)
BY DEF IsTable, remove_item, Restrict

LEMMA IncrementItemType ==
    ASSUME NEW tb, IsTable(tb, Keys), NEW k \in Keys, NEW n \in Int,
           NEW now \in Int,
           k \in DOMAIN tb => Expired(tb[k], now) \/ tb[k].value \in Int
    PROVE  IsTable(increment_item(tb, k, n, now), Keys)
<1>1. CASE k \notin DOMAIN tb
  <2> DEFINE new == [x \in {k} |-> [value |-> n, exp |-> Infinity,
                                    sliding |-> Null, abs |-> Null,
                                    tags |-> Null]]
  <2>1. IsTable(new, Keys)
    BY DEF IsTable, Row
  <2>2. increment_item(tb, k, n, now) = set_item(tb, new)
    BY <1>1 DEF increment_item
  <2> QED  BY <2>1, <2>2, SetItemType
<1>2. CASE k \in DOMAIN tb /\ Expired(tb[k], now)
  <2>1. tb[k] \in Row
    BY <1>2 DEF IsTable
  <2> DEFINE row == [tb[k] EXCEPT !.value = n, !.exp = Infinity]
  <2>2. row \in Row
    <3> DEFINE counted == [tb[k] EXCEPT !.value = n]
    <3>1. counted \in Row
      BY <2>1 DEF Row
    <3>2. row = [counted EXCEPT !.exp = Infinity]
      OBVIOUS
    <3> HIDE DEF counted, row
    <3>3. [counted EXCEPT !.exp = Infinity] \in Row
      BY <3>1 DEF Row
    <3> QED  BY <3>2, <3>3
  <2>3. increment_item(tb, k, n, now) = [tb EXCEPT ![k] = row]
    BY <1>2 DEF increment_item
  <2> HIDE DEF row
  <2> QED  BY <2>2, <2>3, <1>2 DEF IsTable
<1>3. CASE k \in DOMAIN tb /\ ~Expired(tb[k], now)
  <2>1. tb[k] \in Row /\ tb[k].value \in Int
    BY <1>3 DEF IsTable
  <2> DEFINE row == [tb[k] EXCEPT !.value = tb[k].value + n]
  <2>2. row \in Row
    BY <2>1 DEF Row
  <2>3. increment_item(tb, k, n, now) = [tb EXCEPT ![k] = row]
    BY <1>3 DEF increment_item
  <2> HIDE DEF row
  <2> QED  BY <2>2, <2>3, <1>3 DEF IsTable
<1> QED  BY <1>1, <1>2, <1>3

-----------------------------------------------------------------------------
(* A second renewal of a row at the same instant changes nothing.          *)
LEMMA RenewedTwice ==
    ASSUME NEW row \in Row, NEW now \in Int
    PROVE  /\ renewed(row, now) \in Row
           /\ renewed(renewed(row, now), now) = renewed(row, now)
<1>1. CASE row.sliding = Null
  BY <1>1 DEF renewed
<1>2. CASE row.sliding # Null
  <2>1. row.sliding \in Int /\ row.abs \in Int \cup {Null}
    BY <1>2 DEF Row
  <2> DEFINE e == Capped(now + row.sliding, row.abs)
  <2>2. e \in Int
    <3>1. now + row.sliding \in Int
      BY <2>1
    <3> QED  BY <2>1, <3>1, CappedBounds
  <2>3. renewed(row, now) = [row EXCEPT !.exp = e]
    BY <1>2 DEF renewed
  <2> HIDE DEF e
  <2> DEFINE next == [row EXCEPT !.exp = e]
  <2>4. /\ next \in Row
        /\ next.sliding = row.sliding
        /\ next.abs = row.abs
    BY <2>2 DEF Row
  <2>5. [next EXCEPT !.exp = e] = next
    BY <2>2 DEF Row
  <2>6. renewed(next, now) = [next EXCEPT !.exp = e]
    BY <1>2, <2>4 DEF renewed, e
  <2> QED  BY <2>3, <2>4, <2>5, <2>6
<1> QED  BY <1>1, <1>2

(* Reads that carry one instant commute, repeat without effect and add up: *)
(* get_many over a set of keys is the same as a get of each of them, in    *)
(* any order and however the keys are cut up.  The UPDATE of               *)
(* get_many_items and get_by_pattern locks its rows one after another, so  *)
(* others may come between two of them; it then does what single reads of  *)
(* as many more clients would have done.                                   *)
THEOREM ReadsArePiecewise ==
    ASSUME NEW tb, IsTable(tb, Keys), NEW ks, NEW ls, NEW now \in Int
    PROVE  get_items(get_items(tb, ks, now), ls, now)
             = get_items(tb, ks \cup ls, now)
<1> DEFINE one == get_items(tb, ks, now)
           two == get_items(one, ls, now)
           all == get_items(tb, ks \cup ls, now)
<1>1. ASSUME NEW k \in DOMAIN tb
      PROVE  two[k] = all[k]
  <2>1. tb[k] \in Row
    BY DEF IsTable
  <2>2. renewed(renewed(tb[k], now), now) = renewed(tb[k], now)
    BY <2>1, RenewedTwice
  <2>3. /\ one[k] = IF k \in ks /\ Live(tb[k], now)
                    THEN renewed(tb[k], now) ELSE tb[k]
        /\ two[k] = IF k \in ls /\ Live(one[k], now)
                    THEN renewed(one[k], now) ELSE one[k]
        /\ all[k] = IF k \in ks \cup ls /\ Live(tb[k], now)
                    THEN renewed(tb[k], now) ELSE tb[k]
    BY DEF get_items
  <2> HIDE DEF one, two, all
  <2> QED  BY <2>2, <2>3
<1>2. /\ two = [k \in DOMAIN tb |-> two[k]]
      /\ all = [k \in DOMAIN tb |-> all[k]]
  BY DEF get_items
<1> HIDE DEF one, two, all
<1>3. two = all
  BY <1>1, <1>2
<1> QED  BY <1>3 DEF one, two, all

(* The same of the statements that delete and write several rows: a        *)
(* delete_many is the deletes of its keys, and a set_many the upserts of   *)
(* its rows, whichever part of them comes first.                           *)
THEOREM WritesArePiecewise ==
    ASSUME NEW tb, NEW rows, NEW ks, NEW ls
    PROVE  /\ remove_item(remove_item(tb, ks), ls) = remove_item(tb, ks \cup ls)
           /\ set_item(set_item(tb, Restrict(rows, DOMAIN rows \cap ks)),
                       Restrict(rows, DOMAIN rows \ ks))
                = set_item(tb, rows)
<1>1. remove_item(remove_item(tb, ks), ls) = remove_item(tb, ks \cup ls)
  <2>1. DOMAIN remove_item(tb, ks) \ ls = DOMAIN tb \ (ks \cup ls)
    BY DEF remove_item, Restrict
  <2>2. \A k \in DOMAIN tb \ (ks \cup ls) : remove_item(tb, ks)[k] = tb[k]
    BY DEF remove_item, Restrict
  <2> QED  BY <2>1, <2>2 DEF remove_item, Restrict
<1>2. set_item(set_item(tb, Restrict(rows, DOMAIN rows \cap ks)),
               Restrict(rows, DOMAIN rows \ ks))
        = set_item(tb, rows)
  <2> DEFINE first == Restrict(rows, DOMAIN rows \cap ks)
             rest  == Restrict(rows, DOMAIN rows \ ks)
             one   == set_item(tb, first)
  <2>1. /\ DOMAIN first = DOMAIN rows \cap ks
        /\ \A k \in DOMAIN first : first[k] = rows[k]
        /\ DOMAIN rest = DOMAIN rows \ ks
        /\ \A k \in DOMAIN rest : rest[k] = rows[k]
    BY DEF Restrict
  <2> HIDE DEF first, rest
  <2>2. /\ DOMAIN one = DOMAIN tb \cup DOMAIN first
        /\ \A k \in DOMAIN one :
              one[k] = IF k \in DOMAIN first THEN first[k] ELSE tb[k]
    BY DEF set_item
  <2> HIDE DEF one
  <2>3. DOMAIN one \cup DOMAIN rest = DOMAIN tb \cup DOMAIN rows
    BY <2>1, <2>2
  <2>4. \A k \in DOMAIN tb \cup DOMAIN rows :
           (IF k \in DOMAIN rest THEN rest[k] ELSE one[k])
             = (IF k \in DOMAIN rows THEN rows[k] ELSE tb[k])
    BY <2>1, <2>2
  <2>5. set_item(one, rest) = set_item(tb, rows)
    BY <2>3, <2>4 DEF set_item
  <2> QED  BY <2>5 DEF one, first, rest
<1> QED  BY <1>1, <1>2

(* What a statement that begins at t can see of a table.                   *)
Visible(tb, t) == Restrict(tb, {k \in DOMAIN tb : Live(tb[k], t)})

(* A scan is invisible to every read that is not older than it: with or    *)
(* without the delete_expired of an instant now, a read at t >= now finds  *)
(* the same rows and leaves the same rows to be found.                     *)
THEOREM ScansAreInvisible ==
    ASSUME NEW tb, IsTable(tb, Keys), NEW ks,
           NEW now \in Int, NEW t \in Int, now <= t
    PROVE  /\ Visible(delete_expired(tb, now), t) = Visible(tb, t)
           /\ Visible(get_items(delete_expired(tb, now), ks, t), t)
                = Visible(get_items(tb, ks, t), t)
<1> DEFINE kept == delete_expired(tb, now)
<1>1. /\ DOMAIN kept = {k \in DOMAIN tb : Live(tb[k], now)}
      /\ \A k \in DOMAIN kept : kept[k] = tb[k]
  BY DEF delete_expired, remove_item, Restrict, Expired
<1>2. ASSUME NEW k \in DOMAIN tb, Live(tb[k], t)
      PROVE  Live(tb[k], now)
  <2>1. tb[k].exp \in Int \cup {Infinity}
    BY DEF IsTable, Row
  <2> QED  BY <1>2, <2>1 DEF Live
<1> HIDE DEF kept
<1>3. Visible(kept, t) = Visible(tb, t)
  <2>1. {k \in DOMAIN kept : Live(kept[k], t)} = {k \in DOMAIN tb : Live(tb[k], t)}
    BY <1>1, <1>2
  <2>2. \A k \in {k \in DOMAIN tb : Live(tb[k], t)} : kept[k] = tb[k]
    BY <1>1, <2>1
  <2> QED  BY <2>1, <2>2 DEF Visible, Restrict
<1>4. Visible(get_items(kept, ks, t), t) = Visible(get_items(tb, ks, t), t)
  <2> DEFINE a == get_items(kept, ks, t)
             b == get_items(tb, ks, t)
  <2>1. /\ DOMAIN a = DOMAIN kept
        /\ DOMAIN b = DOMAIN tb
        /\ \A k \in DOMAIN kept : a[k] = b[k]
        /\ \A k \in DOMAIN tb : ~Live(tb[k], t) => b[k] = tb[k]
    BY <1>1 DEF get_items
  <2> HIDE DEF a, b
  <2>2. {k \in DOMAIN a : Live(a[k], t)} = {k \in DOMAIN b : Live(b[k], t)}
    BY <1>1, <1>2, <2>1
  <2>3. \A k \in {k \in DOMAIN b : Live(b[k], t)} : a[k] = b[k]
    BY <2>1, <2>2
  <2>4. Visible(a, t) = Visible(b, t)
    BY <2>2, <2>3 DEF Visible, Restrict
  <2> QED  BY <2>4 DEF a, b
<1> QED  BY <1>3, <1>4 DEF kept
=============================================================================
