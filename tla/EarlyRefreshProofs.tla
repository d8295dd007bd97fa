------------------------- MODULE EarlyRefreshProofs -------------------------
(***************************************************************************)
(* What decides whether the early decorator refreshes: for every ttl and   *)
(* early_ttl, the fraction of a second in the ttl, and never the age of    *)
(* the value.  What get_with_ttl reports as remaining is always the whole  *)
(* window of the row.                                                      *)
(***************************************************************************)
EXTENDS EarlyRefresh, CacheSqlProofs

(* The arguments of the decorator are durations. *)
Durations == ttl \in Nat /\ early_ttl \in Nat

LEMMA WindowType ==
    ASSUME Durations
    PROVE  window \in Nat /\ ttl % TicksPerSecond \in Nat
BY SqlAssumption DEF Durations, window

LEMMA StoredWindow ==
    ASSUME Durations, NEW v \in Int, NEW now \in Int
    PROVE  new_row(v, options, now) \in Row /\ WholeWindow(new_row(v, options, now))
<1>1. options \in EntryOptions
  BY DEF Durations, options, EntryOptions
<1>2. resolve_sliding_seconds(options) = window
  BY SqlAssumption DEF Durations, options, resolve_sliding_seconds, window
<1>3. resolve_expires_at(options, now) = Null
  BY DEF options, resolve_expires_at
<1>4. new_row(v, options, now) \in Row /\ new_row(v, options, now).exp \in Int
  BY <1>1, NewRowType
<1> QED  BY <1>2, <1>3, <1>4 DEF new_row, WholeWindow

EarlyInv == TypeOK /\ WholeWindows

LEMMA RowStored ==
    ASSUME EarlyInv, NEW k \in Keys, NEW row \in Row, WholeWindow(row),
           table' = set_item(table, [x \in {k} |-> row])
    PROVE  /\ IsTable(table', Keys)
           /\ \A j \in DOMAIN table' : WholeWindow(table'[j])
<1> DEFINE rows == [x \in {k} |-> row]
<1>1. IsTable(rows, Keys) /\ IsTable(table, Keys)
  BY DEF IsTable, EarlyInv, TypeOK
<1>2. \A j \in DOMAIN table' : WholeWindow(table'[j])
  BY DEF EarlyInv, WholeWindows, set_item
<1>3. IsTable(set_item(table, rows), Keys)
  <2> HIDE DEF rows
  <2> QED  BY <1>1, SetItemType
<1> QED  BY <1>2, <1>3

(* A read renews by the whole window, and so reports the whole window.     *)
LEMMA HitRenews ==
    ASSUME Durations, EarlyInv, NEW c \in Callers, Hit(c)
    PROVE  /\ IsTable(table', Keys)
           /\ \A j \in DOMAIN table' : WholeWindow(table'[j])
           /\ call[c].key \in Keys
           /\ remaining(c) = window
<1> DEFINE k == call[c].key
           now == call[c].now
<1>1. k \in Keys /\ now \in Nat /\ k \in DOMAIN table /\ Live(table[k], now)
  BY DEF EarlyInv, TypeOK, Hit, At, Found, Idle, Calls, Stores
<1>2. /\ IsTable(table, Keys) /\ \A j \in DOMAIN table : WholeWindow(table[j])
      /\ table' = get_items(table, {k}, now)
  BY DEF EarlyInv, TypeOK, WholeWindows, Hit
<1>3. \A j \in DOMAIN table : renewed(table[j], now) =
                                 [table[j] EXCEPT !.exp = now + window]
  BY <1>2, WindowType, SqlAssumption DEF WholeWindow, renewed, Capped
<1>4. IsTable(table', Keys)
  BY <1>1, <1>2, GetItemsType
<1>5. \A j \in DOMAIN table : table[j] \in Row
  BY <1>2 DEF IsTable
<1>6. now + window \in Int
  BY <1>1, WindowType
<1>7. ASSUME NEW j \in DOMAIN table'
      PROVE  WholeWindow(table'[j])
  <2>1. j \in DOMAIN table
    BY <1>2 DEF get_items
  <2>2. table'[j] = table[j] \/ table'[j] = [table[j] EXCEPT !.exp = now + window]
    BY <1>2, <1>3, <2>1 DEF get_items
  <2>3. CASE table'[j] = table[j]
    BY <1>2, <2>1, <2>3
  <2>4. CASE table'[j] = [table[j] EXCEPT !.exp = now + window]
    <3>1. table[j] \in Row /\ WholeWindow(table[j])
      BY <1>2, <1>5, <2>1
    <3> HIDE DEF now
    <3> QED  BY <1>6, <2>4, <3>1 DEF Row, WholeWindow
  <2> QED  BY <2>2, <2>3, <2>4
<1>8. table'[k].exp = now + window
  BY <1>1, <1>2, <1>3, <1>5 DEF get_items, Row
<1>9. remaining(c) = window
  BY <1>1, <1>8, WindowType DEF remaining
<1> QED  BY <1>1, <1>4, <1>7, <1>9

(* The comparison of the decorator, which no longer sees the clock.        *)
LEMMA Due ==
    ASSUME Durations
    PROVE  window < early_threshold <=> early_ttl < ttl % TicksPerSecond
BY WindowType DEF Durations, window, early_threshold

LEMMA CallerKeeps ==
    ASSUME Durations, EarlyInv, NEW c \in Callers, CallerStep(c)
    PROVE  EarlyInv'
<1>1. /\ IsTable(table, Keys) /\ WholeWindows /\ clock \in Nat
      /\ call \in [Callers -> {Idle} \cup Calls \cup Stores]
      /\ running \in [Keys -> Nat] /\ writes \subseteq Writes
  BY DEF EarlyInv, TypeOK
<1>2. ASSUME NEW r \in {Idle} \cup Calls \cup Stores, Goto(c, r),
             running' \in [Keys -> Nat], IsTable(table', Keys),
             \A j \in DOMAIN table' : WholeWindow(table'[j])
      PROVE  EarlyInv'
  <2>1. call' \in [Callers -> {Idle} \cup Calls \cup Stores]
    BY <1>1, <1>2 DEF Goto
  <2> QED  BY <1>1, <1>2, <2>1 DEF EarlyInv, TypeOK, Goto, WholeWindows
<1>3. table' = table => /\ IsTable(table', Keys)
                        /\ \A j \in DOMAIN table' : WholeWindow(table'[j])
  BY <1>1 DEF WholeWindows
<1>4. ASSUME NEW k \in Keys, Call(c, k) PROVE EarlyInv'
  <2>1. [pc |-> "reading", key |-> k, now |-> clock] \in Calls
    BY <1>1 DEF Calls
  <2> QED  BY <1>1, <1>2, <1>3, <1>4, <2>1 DEF Call
<1>5. CASE Hit(c)
  <2>1. running' \in [Keys -> Nat]
    BY <1>1, <1>5, HitRenews DEF Hit
  <2> QED  BY <1>2, <1>5, <2>1, HitRenews DEF Hit
<1>6. CASE Miss(c)
  <2>1. call[c] \in Calls
    BY <1>1, <1>6 DEF Miss, At, Idle, Stores
  <2>2. [call[c] EXCEPT !.pc = "creating", !.now = clock] \in Calls
    BY <1>1, <2>1 DEF Calls
  <2> QED  BY <1>1, <1>2, <1>3, <1>6, <2>2 DEF Miss
<1>7. CASE CreatedMeanwhile(c) \/ Raise(c)
  BY <1>1, <1>2, <1>3, <1>7 DEF CreatedMeanwhile, Raise
<1>8. CASE Create(c)
  <2>1. call[c] \in Calls
    BY <1>1, <1>8 DEF Create, At, Idle, Stores
  <2>2. [call[c] EXCEPT !.pc = "computing"] \in Calls
    BY <2>1 DEF Calls
  <2> QED  BY <1>1, <1>2, <1>3, <1>8, <2>2 DEF Create
<1>9. CASE Compute(c)
  <2>1. call[c] \in Calls
    BY <1>1, <1>9 DEF Compute, At, Idle, Stores
  <2>2. [pc |-> "storing", key |-> call[c].key, now |-> call[c].now,
         value |-> clock] \in Stores
    BY <1>1, <2>1 DEF Calls, Stores
  <2> QED  BY <1>1, <1>2, <1>3, <1>9, <2>2 DEF Compute
<1>10. CASE Store(c)
  <2> DEFINE row == new_row(call[c].value, options, call[c].now)
  <2>1. call[c].key \in Keys /\ call[c].now \in Int /\ call[c].value \in Int
    BY <1>1, <1>10 DEF Store, At, Idle, Calls, Stores
  <2>2. row \in Row /\ WholeWindow(row)
    BY <2>1, StoredWindow
  <2>3. table' = set_item(table, [x \in {call[c].key} |-> row])
    BY <1>10 DEF Store
  <2> HIDE DEF row
  <2>4. IsTable(table', Keys) /\ \A j \in DOMAIN table' : WholeWindow(table'[j])
    BY <2>1, <2>2, <2>3, RowStored
  <2> QED  BY <1>1, <1>2, <1>10, <2>4 DEF Store
<1> QED  BY <1>4, <1>5, <1>6, <1>7, <1>8, <1>9, <1>10 DEF CallerStep

LEMMA RefreshKeeps ==
    ASSUME Durations, EarlyInv,
           \/ \E k \in Keys : RefreshComputes(k)
           \/ \E w \in writes : RefreshStores(w)
           \/ RefreshFails
    PROVE  EarlyInv'
<1>1. /\ IsTable(table, Keys) /\ WholeWindows /\ clock \in Nat
      /\ running \in [Keys -> Nat] /\ writes \subseteq Writes
  BY DEF EarlyInv, TypeOK
<1>2. ASSUME NEW k \in Keys, running[k] > 0
      PROVE  [running EXCEPT ![k] = @ - 1] \in [Keys -> Nat]
  BY <1>1, <1>2
<1>3. ASSUME NEW k \in Keys, RefreshComputes(k) PROVE EarlyInv'
  <2> DEFINE row == new_row(clock, options, clock)
             w == [key |-> k, row |-> row]
  <2>1. row \in Row /\ WholeWindow(row)
    BY <1>1, StoredWindow
  <2>2. writes' = writes \cup {w}
    BY <1>3 DEF RefreshComputes
  <2> HIDE DEF row
  <2>3. w \in Writes /\ WholeWindow(w.row)
    BY <2>1 DEF Writes
  <2> HIDE DEF w
  <2> QED  BY <1>2, <1>3, <2>2, <2>3 DEF RefreshComputes, EarlyInv, TypeOK,
           WholeWindows, IsTable
<1>4. ASSUME NEW w \in writes, RefreshStores(w) PROVE EarlyInv'
  <2>1. w.key \in Keys /\ w.row \in Row /\ WholeWindow(w.row)
    BY <1>1 DEF Writes, WholeWindows
  <2>2. IsTable(table', Keys) /\ \A j \in DOMAIN table' : WholeWindow(table'[j])
    BY <1>4, <2>1, RowStored DEF RefreshStores
  <2> QED  BY <1>4, <2>2 DEF RefreshStores, EarlyInv, TypeOK, WholeWindows
<1>5. CASE RefreshFails
  <2>1. running' \in [Keys -> Nat] /\ writes' \subseteq writes
    BY <1>1, <1>2, <1>5 DEF RefreshFails
  <2> QED  BY <1>5, <2>1 DEF RefreshFails, EarlyInv, TypeOK, WholeWindows, IsTable
<1> QED  BY <1>3, <1>4, <1>5

LEMMA EarlyInductive == ASSUME Durations PROVE Spec => []EarlyInv
<1>1. Init => EarlyInv
  BY DEF Init, EarlyInv, TypeOK, IsTable, WholeWindows
<1>2. EarlyInv /\ [Next]_vars => EarlyInv'
  <2> SUFFICES ASSUME EarlyInv, [Next]_vars PROVE EarlyInv'
    OBVIOUS
  <2>1. ASSUME NEW c \in Callers, CallerStep(c) PROVE EarlyInv'
    BY <2>1, CallerKeeps
  <2>2. ASSUME NEW now \in 0 .. clock, Scan(now) PROVE EarlyInv'
    <3>1. IsTable(table', Keys)
      BY <2>2, RemoveItemType DEF Scan, delete_expired, EarlyInv, TypeOK
    <3>2. \A j \in DOMAIN table' : WholeWindow(table'[j])
      BY <2>2 DEF Scan, delete_expired, remove_item, Restrict, EarlyInv,
         WholeWindows
    <3> QED  BY <2>2, <3>1, <3>2 DEF Scan, EarlyInv, TypeOK, WholeWindows
  <2>3. CASE Tick \/ UNCHANGED vars
    BY <2>3 DEF Tick, vars, EarlyInv, TypeOK, WholeWindows, IsTable
  <2> QED  BY <2>1, <2>2, <2>3, RefreshKeeps DEF Next
<1> QED  BY <1>1, <1>2, PTL DEF Spec

(* Tables, calls and background writes stay well typed, whatever the       *)
(* arguments of the decorator.                                             *)
THEOREM TypeCorrect == ASSUME Durations PROVE Spec => []TypeOK
BY EarlyInductive, PTL DEF EarlyInv

(* For every ttl and every early_ttl, whether a cached value is refreshed  *)
(* depends on neither its age nor the clock: the refresher is started by   *)
(* every hit, when int(total_seconds()) cuts more than early_ttl off the   *)
(* ttl, or else by none.                                                   *)
THEOREM RefreshIgnoresAge == ASSUME Durations PROVE Spec => AgeIsNotAsked
<1>1. EarlyInv /\ [Next]_vars =>
        \A c \in Callers :
          Hit(c) => running' = IF early_ttl < ttl % TicksPerSecond
                               THEN [running EXCEPT ![call[c].key] = @ + 1]
                               ELSE running
  BY HitRenews, Due DEF Hit
<1> QED  BY <1>1, EarlyInductive, PTL DEF Spec, AgeIsNotAsked

(* In particular a decorator whose early_ttl is no shorter than that       *)
(* fraction, as it is for every ttl of whole seconds, never refreshes: it  *)
(* serves one value for as long as it is read once in a ttl.               *)
THEOREM NeverRefreshes ==
    ASSUME Durations, ttl % TicksPerSecond <= early_ttl
    PROVE  Spec => []NothingRefreshed
<1>1. Init => NothingRefreshed
  BY DEF Init, NothingRefreshed
<1>2. EarlyInv /\ NothingRefreshed /\ [Next]_vars => NothingRefreshed'
  <2> SUFFICES ASSUME EarlyInv, NothingRefreshed, [Next]_vars
               PROVE  NothingRefreshed'
    OBVIOUS
  <2>1. ASSUME NEW c \in Callers, Hit(c) PROVE NothingRefreshed'
    <3>1. ~(remaining(c) < early_threshold)
      BY <2>1, HitRenews, Due, WindowType DEF Durations
    <3> QED  BY <2>1, <3>1 DEF Hit, Goto, NothingRefreshed
  <2>2. ASSUME NEW c \in Callers, CallerStep(c) PROVE NothingRefreshed'
    BY <2>1, <2>2 DEF CallerStep, Call, Miss, CreatedMeanwhile, Create, Compute,
       Store, Raise, Goto, NothingRefreshed
  <2>3. ~\E k \in Keys : running[k] > 0
    BY DEF NothingRefreshed
  <2>4. ~(\E k \in Keys : RefreshComputes(k)) /\ ~RefreshFails
    BY <2>3 DEF RefreshComputes, RefreshFails, NothingRefreshed
  <2>5. ~\E w \in writes : RefreshStores(w)
    BY DEF NothingRefreshed
  <2> QED  BY <2>2, <2>4, <2>5 DEF Next, Scan, Tick, vars, NothingRefreshed
<1> QED  BY <1>1, <1>2, EarlyInductive, PTL DEF Spec
=============================================================================
