-------------------------- MODULE CacheStoreProofs --------------------------
(***************************************************************************)
(* What CacheStore guarantees of every instance: type correctness, and     *)
(* then the two bounds on how long an entry stays readable.                *)
(***************************************************************************)
EXTENDS CacheStore, CacheSqlProofs

-----------------------------------------------------------------------------
(* Type correctness. *)

LEMMA BeginType ==
    ASSUME TypeOK, NEW c \in Clients, NEW r, IsCall(r), Begin(c, r),
           lastUse' \in [Keys -> Nat]
    PROVE  TypeOK'
<1>1. /\ call' = [d \in Clients |-> call'[d]]
      /\ \A d \in Clients : IsCall(call'[d])
  BY DEF TypeOK, Begin
<1>2. UNCHANGED <<table, clock, scan, crashes, total>>
  BY DEF Begin
<1> QED  BY <1>1, <1>2 DEF TypeOK, IsTable, IsCall

LEMMA ReadType ==
    ASSUME TypeOK, NEW c \in Clients, NEW ks \in SUBSET Keys, Read(c, ks)
    PROVE  TypeOK'
<1>1. IsCall([op |-> "read", keys |-> ks, now |-> clock])
  BY DEF TypeOK, IsCall, ReadCall
<1>2. lastUse' \in [Keys -> Nat]
  BY DEF Read, Use, TypeOK
<1> QED  BY <1>1, <1>2, BeginType DEF Read

LEMMA WriteType ==
    ASSUME TypeOK, NEW c \in Clients, NEW ks \in SUBSET EntryKeys,
           NEW f \in [ks -> Blobs], NEW o \in OptionChoices, Write(c, ks, f, o)
    PROVE  TypeOK'
<1> DEFINE options == IF o = Null THEN default_options ELSE o
           rows == [k \in ks |-> new_row(f[k], options, clock)]
<1>1. options \in EntryOptions
  BY StoreAssumption, SqlAssumption DEF default_options, EntryOptions
<1>2. clock \in Int
  BY DEF TypeOK
<1>3. \A k \in ks : new_row(f[k], options, clock) \in Row
  <2> HIDE DEF options
  <2> QED  BY <1>1, <1>2, NewRowType
<1>4. IsTable(rows, EntryKeys)
  BY <1>3 DEF IsTable
<1>5. IsCall([op |-> "set", rows |-> rows])
  <2> HIDE DEF rows
  <2> QED  BY <1>4 DEF IsCall
<1>6. lastUse' \in [Keys -> Nat]
  BY DEF Write, Use, TypeOK
<1>7. Begin(c, [op |-> "set", rows |-> rows])
  BY DEF Write
<1> HIDE DEF rows
<1> QED  BY <1>5, <1>6, <1>7, BeginType

LEMMA DeleteType ==
    ASSUME TypeOK, NEW c \in Clients, NEW ks \in SUBSET Keys, Delete(c, ks)
    PROVE  TypeOK'
<1>1. IsCall([op |-> "delete", keys |-> ks])
  BY DEF IsCall, DeleteCall
<1> QED  BY <1>1, BeginType DEF Delete, TypeOK

(* A step that ends the call of c and leaves a table. *)
LEMMA ReturnType ==
    ASSUME TypeOK, NEW c \in Clients, Return(c),
           IsTable(table', Keys), total' \in [Keys -> Int]
    PROVE  TypeOK'
<1>1. /\ call' = [d \in Clients |-> call'[d]]
      /\ \A d \in Clients : IsCall(call'[d])
  BY DEF TypeOK, Return, IsCall
<1>2. UNCHANGED <<clock, scan, crashes, lastUse>>
  BY DEF Return
<1> QED  BY <1>1, <1>2 DEF TypeOK, IsCall

(* The calls in flight, by operation. *)
LEMMA CallFields ==
    ASSUME NEW r, IsCall(r)
    PROVE  /\ r.op = "read" => r \in ReadCall
           /\ r.op = "set" => IsTable(r.rows, EntryKeys)
           /\ r.op = "delete" => r \in DeleteCall
           /\ r.op = "delete_by_tags" => r \in TagCall
           /\ r.op = "incr" => r \in IncrCall
BY DEF IsCall, Idle, ReadCall, DeleteCall, TagCall, IncrCall

LEMMA ClientStepType ==
    ASSUME TypeOK, NEW c \in Clients, ClientStep(c)
    PROVE  TypeOK'
<1> USE StoreAssumption
<1>1. ASSUME NEW k \in Keys, Get(c, k) \/ Remove(c, k)
      PROVE  TypeOK'
  BY <1>1, ReadType, DeleteType DEF Get, Remove
<1>2. ASSUME NEW ks \in KeySets,
             \/ GetMany(c, ks)    \/ GetPattern(c, ks)
             \/ DeleteMany(c, ks) \/ DeletePattern(c, ks)
      PROVE  TypeOK'
  BY <1>2, ReadType, DeleteType DEF GetMany, GetPattern, DeleteMany, DeletePattern
<1>3. ASSUME NEW k \in EntryKeys, NEW v \in Blobs, NEW o \in OptionChoices,
             Set(c, k, v, o)
      PROVE  TypeOK'
  <2>1. [x \in {k} |-> v] \in [{k} -> Blobs] /\ {k} \in SUBSET EntryKeys
    OBVIOUS
  <2> QED  BY <1>3, <2>1, WriteType DEF Set
<1>4. ASSUME NEW ks \in KeySets \cap SUBSET EntryKeys, NEW f \in [ks -> Blobs],
             NEW o \in OptionChoices, SetMany(c, f, o)
      PROVE  TypeOK'
  BY <1>4, WriteType DEF SetMany
<1>5. ASSUME NEW ts \in TagSets, DeleteByTags(c, ts)
      PROVE  TypeOK'
  <2>1. IsCall([op |-> "delete_by_tags", tags |-> ts])
    BY DEF IsCall, TagCall
  <2> QED  BY <1>5, <2>1, BeginType DEF DeleteByTags, TypeOK
<1>6. ASSUME NEW k \in CounterKeys, NEW n \in Amounts, Incr(c, k, n)
      PROVE  TypeOK'
  <2>1. IsCall([op |-> "incr", key |-> k, amount |-> n, now |-> clock])
    BY DEF IsCall, IncrCall, TypeOK
  <2> QED  BY <1>6, <2>1, BeginType DEF Incr, TypeOK
<1>7. IsCall(call[c]) /\ IsTable(table, Keys) /\ total \in [Keys -> Int]
  BY DEF TypeOK
<1>8. CASE ExecRead(c)
  <2>1. call[c].now \in Int
    BY <1>7, <1>8, CallFields DEF ExecRead, ReadCall
  <2>2. IsTable(table', Keys)
    BY <1>7, <1>8, <2>1, GetItemsType DEF ExecRead
  <2> QED  BY <1>7, <1>8, <2>2, ReturnType DEF ExecRead
<1>9. CASE ExecSet(c)
  <2>1. IsTable(call[c].rows, Keys)
    BY <1>7, <1>9, CallFields DEF ExecSet, IsTable
  <2>2. IsTable(table', Keys)
    BY <1>7, <1>9, <2>1, SetItemType DEF ExecSet
  <2> QED  BY <1>7, <1>9, <2>2, ReturnType DEF ExecSet
<1>10. CASE ExecDelete(c)
  <2>1. IsTable(table', Keys)
    BY <1>7, <1>10, RemoveItemType DEF ExecDelete
  <2> QED  BY <1>7, <1>10, <2>1, ReturnType DEF ExecDelete, Forget
<1>11. CASE ExecDeleteByTags(c)
  <2>1. IsTable(table', Keys)
    BY <1>7, <1>11, RemoveItemType DEF ExecDeleteByTags, delete_by_tags
  <2> QED  BY <1>7, <1>11, <2>1, ReturnType DEF ExecDeleteByTags, Forget
<1>12. CASE ExecIncr(c)
  <2>1. call[c].key \in Keys /\ call[c].amount \in Int /\ call[c].now \in Int
    <3>1. call[c] \in IncrCall
      BY <1>7, <1>12, CallFields DEF ExecIncr
    <3>2. /\ call[c].key \in CounterKeys /\ call[c].amount \in Amounts
          /\ call[c].now \in Nat
      BY <3>1 DEF IncrCall
    <3>3. CounterKeys \subseteq Keys /\ Amounts \subseteq Int
      BY StoreAssumption
    <3>4. call[c].amount \in Int
      BY <3>2, <3>3
    <3> QED  BY <3>2, <3>3, <3>4
  <2>2. IsTable(table', Keys)
    BY <1>7, <1>12, <2>1, IncrementItemType DEF ExecIncr
  <2>3. total' \in [Keys -> Int]
    BY <1>7, <1>12, <2>1 DEF ExecIncr
  <2> QED  BY <1>12, <2>2, <2>3, ReturnType DEF ExecIncr
<1>13. CASE Raise(c)
  BY <1>7, <1>13, ReturnType DEF Raise
<1> QED  BY <1>1, <1>2, <1>3, <1>4, <1>5, <1>6, <1>8, <1>9, <1>10, <1>11, <1>12,
            <1>13 DEF ClientStep

LEMMA TypeStep == TypeOK /\ [Next]_vars => TypeOK'
<1> SUFFICES ASSUME TypeOK, [Next]_vars PROVE TypeOK'
  OBVIOUS
<1>1. ASSUME NEW c \in Clients, ClientStep(c) PROVE TypeOK'
  BY <1>1, ClientStepType
<1>2. CASE ScanWake
  BY <1>2 DEF ScanWake, TypeOK, IsCall, IsTable, Scanning
<1>3. CASE ScanDelete
  <2>1. IsTable(table', Keys)
    BY <1>3, RemoveItemType DEF ScanDelete, delete_expired, TypeOK
  <2> QED  BY <1>3, <2>1 DEF ScanDelete, TypeOK, IsCall
<1>4. CASE ScanFail
  BY <1>4 DEF ScanFail, TypeOK, IsCall, IsTable
<1>5. CASE Tick
  BY <1>5 DEF Tick, TypeOK, IsCall, IsTable
<1>6. CASE ServerCrash
  <2>1. IsTable(table', Keys)
    BY <1>6 DEF ServerCrash, TypeOK, IsTable
  <2> QED  BY <1>6, <2>1 DEF ServerCrash, TypeOK, IsCall
<1>7. CASE UNCHANGED vars
  BY <1>7 DEF vars, TypeOK, IsCall, IsTable
<1> QED  BY <1>1, <1>2, <1>3, <1>4, <1>5, <1>6, <1>7 DEF Next

(* Every reachable state of every instance is well typed: rows keep the    *)
(* column types of the table through every statement, overlapping or late. *)
THEOREM TypeCorrect == Spec => []TypeOK
<1>1. Init => TypeOK
  BY DEF Init, TypeOK, IsTable, IsCall
<1> QED  BY <1>1, TypeStep, PTL DEF Spec

-----------------------------------------------------------------------------
(* How long an entry stays readable. *)

LEMMA NewRowBounded ==
    ASSUME NEW v \in Blobs, NEW o \in EntryOptions, NEW now \in Int
    PROVE  Bounded(new_row(v, o, now), now)
<1> DEFINE s == resolve_sliding_seconds(o)
           a == resolve_expires_at(o, now)
           e == expires_at(o, now)
<1>1. s \in Int \cup {Null} /\ a \in Int \cup {Null} /\ e \in Int
  BY ResolvedType, NewRowType DEF new_row
<1>2. (a # Null => e <= a) /\ (s # Null => e <= now + s)
  <2> HIDE DEF s, a
  <2>1. CASE s # Null
    <3>1. now + s \in Int /\ e = Capped(now + s, a)
      BY <1>1, <2>1 DEF expires_at, s, a
    <3> QED  BY <3>1, <1>1, CappedBounds
  <2>2. CASE s = Null
    BY <1>1, <2>2 DEF expires_at, s, a
  <2> QED  BY <2>1, <2>2
<1> QED  BY <1>1, <1>2, SqlAssumption DEF Bounded, new_row

LEMMA BoundedGrows ==
    ASSUME NEW row \in Row, NEW u \in Int, NEW w \in Int, u <= w, Bounded(row, u)
    PROVE  Bounded(row, w)
BY SqlAssumption DEF Bounded, Row

LEMMA RenewedBounded ==
    ASSUME NEW row \in Row, NEW u \in Int, NEW now \in Int, now <= u,
           Bounded(row, u)
    PROVE  Bounded(renewed(row, now), u)
<1>1. CASE row.sliding = Null
  BY <1>1 DEF renewed
<1>2. CASE row.sliding # Null
  <2> DEFINE e == Capped(now + row.sliding, row.abs)
  <2>1. /\ row.sliding \in Int /\ row.abs \in Int \cup {Null}
        /\ now + row.sliding \in Int
    BY <1>2 DEF Row
  <2>2. e \in Int /\ e <= now + row.sliding /\ (row.abs # Null => e <= row.abs)
    BY <2>1, CappedBounds
  <2>3. e <= u + row.sliding
    <3> HIDE DEF e
    <3> QED  BY <2>1, <2>2
  <2>4. /\ renewed(row, now).exp = e
        /\ renewed(row, now).abs = row.abs
        /\ renewed(row, now).sliding = row.sliding
    BY <1>2 DEF renewed, Row
  <2> HIDE DEF e
  <2> QED  BY <2>2, <2>3, <2>4, SqlAssumption DEF Bounded
<1> QED  BY <1>1, <1>2

LEMMA LastUseGrows ==
    ASSUME TypeOK, DeadlineInv, [Next]_vars
    PROVE  \A k \in Keys : lastUse[k] <= lastUse'[k] /\ lastUse'[k] <= clock'
<1>1. CASE UNCHANGED <<clock, lastUse>>
  BY <1>1 DEF TypeOK, DeadlineInv
<1>2. ASSUME NEW ks, Use(ks), clock' = clock
      PROVE  \A k \in Keys : lastUse[k] <= lastUse'[k] /\ lastUse'[k] <= clock'
  BY <1>2 DEF TypeOK, DeadlineInv, Use
<1>3. CASE Tick
  BY <1>3 DEF TypeOK, DeadlineInv, Tick
<1>4. ASSUME NEW c \in Clients, ClientStep(c)
      PROVE  clock' = clock /\ (UNCHANGED lastUse \/ \E ks : Use(ks))
  BY <1>4 DEF ClientStep, Get, Remove, GetMany, GetPattern, DeleteMany,
     DeletePattern, Set, SetMany, DeleteByTags, Incr, ExecRead, ExecSet,
     ExecDelete, ExecDeleteByTags, ExecIncr, Raise, Read, Write, Delete, Begin,
     Return
<1> QED  BY <1>1, <1>2, <1>3, <1>4
         DEF Next, vars, ScanWake, ScanDelete, ScanFail, ServerCrash

LEMMA RowsGrow ==
    ASSUME NEW tb, IsTable(tb, Keys), NEW u \in [Keys -> Nat],
           NEW w \in [Keys -> Nat], \A k \in Keys : u[k] <= w[k],
           RowsBounded(tb, u)
    PROVE  RowsBounded(tb, w)
<1> SUFFICES ASSUME NEW k \in PureEntries \cap DOMAIN tb
             PROVE  Bounded(tb[k], w[k])
  BY DEF RowsBounded
<1>1. k \in Keys /\ tb[k] \in Row /\ Bounded(tb[k], u[k])
  BY DEF IsTable, RowsBounded
<1>2. u[k] \in Int /\ w[k] \in Int /\ u[k] <= w[k]
  BY <1>1
<1> QED  BY <1>1, <1>2, BoundedGrows

LEMMA CallGrows ==
    ASSUME NEW r, IsCall(r), NEW u \in [Keys -> Nat], NEW w \in [Keys -> Nat],
           \A k \in Keys : u[k] <= w[k], CallBounded(r, u)
    PROVE  CallBounded(r, w)
<1>1. CASE r.op = "set"
  <2>1. IsTable(r.rows, Keys)
    BY <1>1, CallFields, StoreAssumption DEF IsTable
  <2> QED  BY <1>1, <2>1, RowsGrow DEF CallBounded
<1>2. CASE r.op = "read"
  <2>1. r.keys \in SUBSET Keys /\ r.now \in Nat
    BY <1>2, CallFields DEF ReadCall
  <2>2. \A k \in r.keys : r.now <= w[k]
    BY <1>2, <2>1 DEF CallBounded
  <2> QED  BY <1>2, <2>2 DEF CallBounded
<1> QED  BY <1>1, <1>2 DEF CallBounded

LEMMA GetItemsBounded ==
    ASSUME NEW tb, IsTable(tb, Keys), NEW last \in [Keys -> Nat], NEW ks,
           NEW now \in Nat, \A k \in ks : now <= last[k], RowsBounded(tb, last)
    PROVE  RowsBounded(get_items(tb, ks, now), last)
<1> SUFFICES ASSUME NEW k \in PureEntries \cap DOMAIN tb
             PROVE  Bounded(get_items(tb, ks, now)[k], last[k])
  BY DEF RowsBounded, get_items
<1>1. k \in Keys /\ tb[k] \in Row /\ Bounded(tb[k], last[k])
  BY DEF IsTable, RowsBounded
<1>2. CASE k \in ks /\ Live(tb[k], now)
  <2>1. get_items(tb, ks, now)[k] = renewed(tb[k], now)
    BY <1>2 DEF get_items
  <2>2. last[k] \in Int /\ now \in Int /\ now <= last[k]
    BY <1>1, <1>2
  <2> QED  BY <1>1, <2>1, <2>2, RenewedBounded
<1>3. CASE ~(k \in ks /\ Live(tb[k], now))
  BY <1>1, <1>3 DEF get_items
<1> QED  BY <1>2, <1>3

(* No statement that executes leaves a row out of bounds. *)
LEMMA TableBounded ==
    ASSUME TypeOK, DeadlineInv, [Next]_vars
    PROVE  RowsBounded(table', lastUse)
<1>1. IsTable(table, Keys) /\ RowsBounded(table, lastUse)
  BY DEF TypeOK, DeadlineInv
<1>2. CASE UNCHANGED table
  BY <1>1, <1>2
<1>3. ASSUME NEW ks, table' = remove_item(table, ks)
      PROVE  RowsBounded(table', lastUse)
  BY <1>1, <1>3 DEF RowsBounded, remove_item, Restrict
<1>4. ASSUME NEW c \in Clients, ExecRead(c)
      PROVE  RowsBounded(table', lastUse)
  <2>1. /\ call[c].keys \in SUBSET Keys /\ call[c].now \in Nat
        /\ \A k \in call[c].keys : call[c].now <= lastUse[k]
    BY <1>4, CallFields DEF ExecRead, TypeOK, ReadCall, DeadlineInv, CallBounded
  <2> QED  BY <1>1, <1>4, <2>1, GetItemsBounded DEF ExecRead, TypeOK
<1>5. ASSUME NEW c \in Clients, ExecSet(c)
      PROVE  RowsBounded(table', lastUse)
  <2>1. RowsBounded(call[c].rows, lastUse)
    BY <1>5 DEF ExecSet, DeadlineInv, CallBounded
  <2> QED  BY <1>1, <1>5, <2>1 DEF ExecSet, RowsBounded, set_item
<1>6. ASSUME NEW c \in Clients, ExecIncr(c)
      PROVE  RowsBounded(table', lastUse)
  <2>1. call[c].key \in CounterKeys
    BY <1>6, CallFields DEF ExecIncr, TypeOK, IncrCall
  <2>2. \A k \in PureEntries \cap DOMAIN table' :
           k \in DOMAIN table /\ table'[k] = table[k]
    BY <1>1, <1>6, <2>1
       DEF ExecIncr, increment_item, set_item, PureEntries, IsTable
  <2> QED  BY <1>1, <2>2 DEF RowsBounded
<1>7. CASE ServerCrash
  BY <1>1, <1>7 DEF ServerCrash, RowsBounded
<1>8. ASSUME NEW c \in Clients, ClientStep(c)
      PROVE  \/ UNCHANGED table \/ \E ks : table' = remove_item(table, ks)
             \/ ExecRead(c) \/ ExecSet(c) \/ ExecIncr(c)
  BY <1>8 DEF ClientStep, Get, Remove, GetMany, GetPattern, DeleteMany,
     DeletePattern, Set, SetMany, DeleteByTags, Incr, ExecDelete,
     ExecDeleteByTags, delete_by_tags, Raise, Read, Write, Delete, Begin
<1>9. CASE ScanDelete
  BY <1>3, <1>9 DEF ScanDelete, delete_expired
<1> QED  BY <1>2, <1>3, <1>4, <1>5, <1>6, <1>7, <1>8, <1>9
         DEF Next, vars, ScanWake, ScanFail, Tick

(* A call that begins is bounded by the instant it has just read. *)
LEMMA ReadCallBounded ==
    ASSUME TypeOK, NEW c \in Clients, NEW ks \in SUBSET Keys, Read(c, ks)
    PROVE  \A d \in Clients : call'[d] = call[d] \/ CallBounded(call'[d], lastUse')
<1> DEFINE r == [op |-> "read", keys |-> ks, now |-> clock]
<1>1. \A k \in ks : lastUse'[k] = clock
  BY DEF Read, Use
<1>2. CallBounded(r, lastUse')
  BY <1>1 DEF CallBounded, TypeOK
<1>3. call' = [call EXCEPT ![c] = r]
  BY DEF Read, Begin
<1> HIDE DEF r
<1> QED  BY <1>2, <1>3 DEF TypeOK

LEMMA WriteCallBounded ==
    ASSUME TypeOK, NEW c \in Clients, NEW ks \in SUBSET EntryKeys,
           NEW f \in [ks -> Blobs], NEW o \in OptionChoices, Write(c, ks, f, o)
    PROVE  \A d \in Clients : call'[d] = call[d] \/ CallBounded(call'[d], lastUse')
<1> DEFINE options == IF o = Null THEN default_options ELSE o
           rows == [k \in ks |-> new_row(f[k], options, clock)]
           r == [op |-> "set", rows |-> rows]
<1>1. options \in EntryOptions
  BY StoreAssumption, SqlAssumption DEF default_options, EntryOptions
<1>2. \A k \in ks : lastUse'[k] = clock
  BY StoreAssumption DEF Write, Use
<1>3. \A k \in ks : Bounded(rows[k], lastUse'[k])
  <2> HIDE DEF options
  <2> SUFFICES ASSUME NEW k \in ks
               PROVE  Bounded(new_row(f[k], options, clock), clock)
    BY <1>2
  <2>1. f[k] \in Blobs /\ clock \in Int
    BY DEF TypeOK
  <2> QED  BY <1>1, <2>1, NewRowBounded
<1>4. RowsBounded(rows, lastUse')
  <2>1. DOMAIN rows = ks
    OBVIOUS
  <2> HIDE DEF rows
  <2> QED  BY <1>3, <2>1 DEF RowsBounded
<1>5. CallBounded(r, lastUse')
  <2> HIDE DEF rows
  <2> QED  BY <1>4 DEF CallBounded
<1>6. call' = [call EXCEPT ![c] = r]
  BY DEF Write, Begin
<1> HIDE DEF r
<1> QED  BY <1>5, <1>6 DEF TypeOK

LEMMA CallsBounded ==
    ASSUME TypeOK, DeadlineInv, [Next]_vars
    PROVE  \A d \in Clients : call'[d] = call[d] \/ CallBounded(call'[d], lastUse')
<1> USE StoreAssumption
<1> DEFINE Kept == \A d \in Clients : call'[d] = call[d] \/ CallBounded(call'[d], lastUse')
<1>1. CASE UNCHANGED call
  BY <1>1
<1>2. ASSUME NEW c \in Clients, NEW r, call' = [call EXCEPT ![c] = r],
             r.op \notin {"set", "read"}
      PROVE  Kept
  BY <1>2 DEF TypeOK, CallBounded
<1>3. ASSUME NEW c \in Clients, Return(c)
      PROVE  Kept
  BY <1>2, <1>3 DEF Return, Idle
<1>4. ASSUME NEW c \in Clients, NEW ks, Delete(c, ks)
      PROVE  Kept
  BY <1>2, <1>4 DEF Delete, Begin
<1>5. ASSUME NEW c \in Clients, NEW ts, DeleteByTags(c, ts)
      PROVE  Kept
  BY <1>2, <1>5 DEF DeleteByTags, Begin
<1>6. ASSUME NEW c \in Clients, NEW k, NEW n, Incr(c, k, n)
      PROVE  Kept
  BY <1>2, <1>6 DEF Incr, Begin
<1>7. ASSUME NEW c \in Clients, NEW k \in EntryKeys, NEW v \in Blobs,
             NEW o \in OptionChoices, Set(c, k, v, o)
      PROVE  Kept
  <2>1. [x \in {k} |-> v] \in [{k} -> Blobs] /\ {k} \in SUBSET EntryKeys
    OBVIOUS
  <2> QED  BY <1>7, <2>1, WriteCallBounded DEF Set
<1>8. ASSUME NEW c \in Clients, NEW ks \in KeySets \cap SUBSET EntryKeys,
             NEW f \in [ks -> Blobs], NEW o \in OptionChoices, SetMany(c, f, o)
      PROVE  Kept
  BY <1>8, WriteCallBounded DEF SetMany
<1>9. ASSUME NEW c \in Clients, ClientStep(c)
      PROVE  Kept
  <2>1. ASSUME NEW k \in Keys, Get(c, k) \/ Remove(c, k)
        PROVE  Kept
    BY <2>1, <1>4, ReadCallBounded DEF Get, Remove
  <2>2. ASSUME NEW ks \in KeySets,
               \/ GetMany(c, ks)    \/ GetPattern(c, ks)
               \/ DeleteMany(c, ks) \/ DeletePattern(c, ks)
        PROVE  Kept
    BY <2>2, <1>4, ReadCallBounded
       DEF GetMany, GetPattern, DeleteMany, DeletePattern
  <2> QED  BY <1>9, <2>1, <2>2, <1>3, <1>5, <1>6, <1>7, <1>8
           DEF ClientStep, ExecRead, ExecSet, ExecDelete, ExecDeleteByTags,
               ExecIncr, Raise
<1> QED  BY <1>1, <1>9
         DEF Next, vars, ScanWake, ScanDelete, ScanFail, Tick, ServerCrash

LEMMA DeadlineStep == TypeOK /\ DeadlineInv /\ [Next]_vars => DeadlineInv'
<1> SUFFICES ASSUME TypeOK, DeadlineInv, [Next]_vars PROVE DeadlineInv'
  OBVIOUS
<1>1. TypeOK'
  BY TypeStep
<1>2. /\ lastUse \in [Keys -> Nat] /\ lastUse' \in [Keys -> Nat]
      /\ \A k \in Keys : lastUse[k] <= lastUse'[k] /\ lastUse'[k] <= clock'
  BY <1>1, LastUseGrows DEF TypeOK
<1>3. RowsBounded(table', lastUse')
  <2>1. IsTable(table', Keys)
    BY <1>1 DEF TypeOK
  <2> QED  BY <1>2, <2>1, TableBounded, RowsGrow
<1>4. ASSUME NEW d \in Clients
      PROVE  CallBounded(call'[d], lastUse')
  <2>1. IsCall(call[d]) /\ CallBounded(call[d], lastUse)
    BY DEF TypeOK, DeadlineInv
  <2>2. CallBounded(call[d], lastUse')
    BY <1>2, <2>1, CallGrows
  <2> QED  BY <2>2, CallsBounded
<1> QED  BY <1>2, <1>3, <1>4 DEF DeadlineInv

(* The inductive invariant behind the two theorems below. *)
THEOREM DeadlinesBounded == Spec => [](TypeOK /\ DeadlineInv)
<1>1. Init => TypeOK /\ DeadlineInv
  BY DEF Init, TypeOK, IsTable, IsCall, DeadlineInv, RowsBounded, CallBounded, Idle
<1> QED  BY <1>1, TypeStep, DeadlineStep, PTL DEF Spec

(* For every instance, no entry is readable after its absolute expiration. *)
THEOREM CutoffIsHard == Spec => []HardCutoff
<1>1. TypeOK /\ DeadlineInv => HardCutoff
  <2> SUFFICES ASSUME TypeOK, DeadlineInv,
                      NEW k \in PureEntries \cap DOMAIN table,
                      table[k].abs # Null, table[k].abs < clock
               PROVE  Expired(table[k], clock)
    BY DEF HardCutoff
  <2>1. table[k] \in Row /\ clock \in Nat /\ Bounded(table[k], lastUse[k])
    BY DEF TypeOK, IsTable, DeadlineInv, RowsBounded
  <2> QED  BY <2>1, SqlAssumption DEF Bounded, Row, Expired, Live
<1> QED  BY <1>1, DeadlinesBounded, PTL

(* For every instance, an entry idle for longer than its sliding window is *)
(* not readable.                                                           *)
THEOREM IdleEntriesDie == Spec => []IdleEntriesExpire
<1>1. TypeOK /\ DeadlineInv => IdleEntriesExpire
  <2> SUFFICES ASSUME TypeOK, DeadlineInv,
                      NEW k \in PureEntries \cap DOMAIN table,
                      table[k].sliding # Null,
                      lastUse[k] + table[k].sliding < clock
               PROVE  Expired(table[k], clock)
    BY DEF IdleEntriesExpire
  <2>1. /\ table[k] \in Row /\ clock \in Nat /\ lastUse[k] \in Nat
        /\ Bounded(table[k], lastUse[k])
    BY DEF TypeOK, IsTable, DeadlineInv, RowsBounded
  <2> QED  BY <2>1, SqlAssumption DEF Bounded, Row, Expired, Live
<1> QED  BY <1>1, DeadlinesBounded, PTL

-----------------------------------------------------------------------------
(* Counters. *)

(* A deletion of ks resets the counts it takes. *)
LEMMA ForgetCounts ==
    ASSUME TypeOK, CounterInv, NEW ks, table' = remove_item(table, ks), Forget(ks)
    PROVE  CounterInv'
BY StoreAssumption
   DEF TypeOK, CounterInv, Forget, remove_item, Restrict, PureCounters

LEMMA IncrCounts ==
    ASSUME TypeOK, CounterInv, NEW c \in Clients, ExecIncr(c)
    PROVE  CounterInv'
<1> DEFINE key == call[c].key
           n == call[c].amount
<1>1. key \in CounterKeys /\ n \in Int
  BY CallFields, StoreAssumption DEF TypeOK, ExecIncr, IncrCall
<1>2. IsTable(table, Keys) /\ total \in [Keys -> Int]
  BY DEF TypeOK
<1>3. /\ table' = increment_item(table, key, n, call[c].now)
      /\ total' = [total EXCEPT ![key] = @ + n]
      /\ key \in DOMAIN table => \/ Expired(table[key], call[c].now)
                                 \/ table[key].value \in Int
  BY DEF ExecIncr
<1> HIDE DEF key, n
<1> SUFFICES ASSUME NEW k \in PureCounters
             PROVE  /\ k \in DOMAIN table' =>
                          /\ table'[k].exp = Infinity
                          /\ table'[k].sliding = Null
                          /\ UseWal => total'[k] = table'[k].value
                    /\ k \notin DOMAIN table' => (UseWal => total'[k] = 0)
  BY DEF CounterInv
<1>4. k \in Keys
  BY StoreAssumption DEF PureCounters
<1>5. CASE k # key
  <2>1. total'[k] = total[k]
    BY <1>2, <1>3, <1>4, <1>5
  <2>2. /\ k \in DOMAIN table' <=> k \in DOMAIN table
        /\ k \in DOMAIN table => table'[k] = table[k]
    BY <1>2, <1>3, <1>5 DEF increment_item, set_item, IsTable
  <2> QED  BY <2>1, <2>2 DEF CounterInv
<1>6. CASE k = key /\ k \notin DOMAIN table
  <2>1. /\ k \in DOMAIN table'
        /\ table'[k] = [value |-> n, exp |-> Infinity, sliding |-> Null,
                        abs |-> Null, tags |-> Null]
    BY <1>3, <1>6 DEF increment_item, set_item
  <2>2. UseWal => total'[k] = n
    BY <1>1, <1>2, <1>3, <1>4, <1>6 DEF CounterInv
  <2> QED  BY <2>1, <2>2
<1>7. CASE k = key /\ k \in DOMAIN table
  <2>1. /\ table[k].exp = Infinity /\ table[k].sliding = Null
        /\ UseWal => total[k] = table[k].value
    BY <1>7 DEF CounterInv
  <2>2. ~Expired(table[k], call[c].now)
    BY <2>1 DEF Expired, Live
  <2>3. table' = [table EXCEPT ![k] = [@ EXCEPT !.value = table[k].value + n]]
    BY <1>3, <1>7, <2>2 DEF increment_item
  <2>4. table[k] \in Row
    BY <1>2, <1>7 DEF IsTable
  <2>5. /\ k \in DOMAIN table' /\ table'[k].exp = Infinity
        /\ table'[k].sliding = Null /\ table'[k].value = table[k].value + n
    BY <1>2, <1>7, <2>1, <2>3, <2>4 DEF IsTable, Row
  <2>6. total'[k] = total[k] + n
    BY <1>2, <1>3, <1>4, <1>7
  <2> QED  BY <2>1, <2>5, <2>6
<1> QED  BY <1>5, <1>6, <1>7

LEMMA CounterStep == TypeOK /\ CounterInv /\ [Next]_vars => CounterInv'
<1> SUFFICES ASSUME TypeOK, CounterInv, [Next]_vars PROVE CounterInv'
  OBVIOUS
<1>1. CASE UNCHANGED <<table, total>>
  BY <1>1 DEF CounterInv
<1>2. ASSUME NEW c \in Clients, ExecRead(c)
      PROVE  CounterInv'
  <2>1. \A k \in DOMAIN table : table[k].sliding = Null =>
           get_items(table, call[c].keys, call[c].now)[k] = table[k]
    BY DEF get_items, renewed
  <2>2. DOMAIN table' = DOMAIN table
    BY <1>2 DEF ExecRead, get_items
  <2> QED  BY <1>2, <2>1, <2>2 DEF ExecRead, CounterInv
<1>3. ASSUME NEW c \in Clients, ExecSet(c)
      PROVE  CounterInv'
  <2>1. DOMAIN call[c].rows \subseteq EntryKeys
    BY <1>3, CallFields DEF TypeOK, ExecSet, IsTable
  <2>2. \A k \in PureCounters :
           /\ k \in DOMAIN table' <=> k \in DOMAIN table
           /\ k \in DOMAIN table => table'[k] = table[k]
    BY <1>3, <2>1 DEF ExecSet, set_item, PureCounters
  <2> QED  BY <1>3, <2>2 DEF ExecSet, CounterInv
<1>4. ASSUME NEW c \in Clients, ExecDelete(c) \/ ExecDeleteByTags(c)
      PROVE  CounterInv'
  BY <1>4, ForgetCounts DEF ExecDelete, ExecDeleteByTags, delete_by_tags
<1>5. CASE ScanDelete
  <2>1. \A k \in PureCounters :
           /\ k \in DOMAIN table' <=> k \in DOMAIN table
           /\ k \in DOMAIN table => table'[k] = table[k]
    BY <1>5 DEF ScanDelete, delete_expired, remove_item, Restrict, CounterInv,
       Expired, Live
  <2> QED  BY <1>5, <2>1 DEF ScanDelete, CounterInv
<1>6. CASE ServerCrash
  BY <1>6 DEF ServerCrash, CounterInv
<1>7. ASSUME NEW c \in Clients, ClientStep(c)
      PROVE  \/ UNCHANGED <<table, total>>
             \/ ExecRead(c) \/ ExecSet(c) \/ ExecDelete(c)
             \/ ExecDeleteByTags(c) \/ ExecIncr(c)
  BY <1>7 DEF ClientStep, Get, Remove, GetMany, GetPattern, DeleteMany,
     DeletePattern, Set, SetMany, DeleteByTags, Incr, Raise, Read, Write, Delete,
     Begin
<1> QED  BY <1>1, <1>2, <1>3, <1>4, <1>5, <1>6, <1>7, IncrCounts
         DEF Next, vars, ScanWake, ScanFail, Tick

(* For every instance, a counter is the sum of the increments committed    *)
(* since it was last deleted.                                              *)
THEOREM CountersExact == Spec => []CounterExact
<1>1. Init => TypeOK /\ CounterInv
  BY StoreAssumption
     DEF Init, TypeOK, IsTable, IsCall, CounterInv, PureCounters
<1>2. CounterInv => CounterExact
  BY DEF CounterInv, CounterExact
<1> QED  BY <1>1, <1>2, TypeStep, CounterStep, PTL DEF Spec

-----------------------------------------------------------------------------
(* What may take a live row out of the table. *)

LEMMA DeletionStep == TypeOK /\ DeletionInv /\ [Next]_vars => DeletionInv'
<1> SUFFICES ASSUME TypeOK, DeletionInv, [Next]_vars PROVE DeletionInv'
  OBVIOUS
<1>1. clock \in Nat /\ clock' \in Nat /\ (scan # Waiting => scan.now \in Nat)
  BY TypeStep DEF TypeOK, Scanning
<1>2. ASSUME NEW c \in Clients, ClientStep(c) PROVE DeletionInv'
  <2>1. UNCHANGED <<clock, scan>>
    BY <1>2 DEF ClientStep, Get, Remove, GetMany, GetPattern, DeleteMany,
       DeletePattern, Set, SetMany, DeleteByTags, Incr, ExecRead, ExecSet,
       ExecDelete, ExecDeleteByTags, ExecIncr, Raise, Read, Write, Delete, Begin,
       Return
  <2>2. ASSUME NEW r, call' = [call EXCEPT ![c] = r],
               r.op = "delete_by_tags" => r.tags # {}
        PROVE  DeletionInv'
    BY <2>1, <2>2 DEF DeletionInv, TypeOK
  <2>3. CASE Return(c)
    BY <2>2, <2>3 DEF Return, Idle
  <2>4. ASSUME NEW ts, DeleteByTags(c, ts) PROVE DeletionInv'
    BY <2>2, <2>4 DEF DeleteByTags, Begin
  <2>5. ASSUME NEW ks, Read(c, ks) \/ Delete(c, ks) PROVE DeletionInv'
    BY <2>2, <2>5 DEF Read, Delete, Begin
  <2>6. ASSUME NEW ks, NEW f, NEW o, Write(c, ks, f, o) PROVE DeletionInv'
    <3> DEFINE options == IF o = Null THEN default_options ELSE o
               rows == [k \in ks |-> new_row(f[k], options, clock)]
    <3>1. call' = [call EXCEPT ![c] = [op |-> "set", rows |-> rows]]
      BY <2>6 DEF Write, Begin
    <3> HIDE DEF rows
    <3> QED  BY <2>2, <3>1
  <2>7. ASSUME NEW k, NEW n, Incr(c, k, n) PROVE DeletionInv'
    BY <2>2, <2>7 DEF Incr, Begin
  <2> QED  BY <1>2, <2>3, <2>4, <2>5, <2>6, <2>7
           DEF ClientStep, Get, Remove, GetMany, GetPattern, DeleteMany,
               DeletePattern, Set, SetMany, ExecRead, ExecSet, ExecDelete,
               ExecDeleteByTags, ExecIncr, Raise
<1>3. CASE UNCHANGED call /\ (ScanWake \/ ScanDelete \/ ScanFail \/ Tick \/ ServerCrash)
  BY <1>1, <1>3 DEF DeletionInv, ScanWake, ScanDelete, ScanFail, Tick, ServerCrash
<1> QED  BY <1>1, <1>2, <1>3 DEF Next, vars, DeletionInv, ScanWake, ScanDelete,
            ScanFail, Tick, ServerCrash

(* For every instance, a live row leaves the table only through an         *)
(* invalidation that names it, or a crash of an UNLOGGED table.            *)
THEOREM LiveRowsStay == Spec => LiveRowsLeaveOnlyByInvalidation
<1> DEFINE stays ==
      \A k \in DOMAIN table \ DOMAIN table' :
          \/ Expired(table[k], clock)
          \/ \E c \in Clients : Invalidates(c, k)
          \/ ~UseWal /\ crashes' # crashes
<1>1. ASSUME TypeOK, DeletionInv, [Next]_vars PROVE stays
  <2>1. CASE DOMAIN table' = DOMAIN table
    BY <2>1
  <2>2. ASSUME NEW c \in Clients, ClientStep(c) PROVE stays
    <3>1. IsCall(call[c]) /\ DOMAIN call = Clients
      BY <1>1 DEF TypeOK
    <3>2. ASSUME Return(c) PROVE call'[c].op = "idle" /\ call'[c] = Idle
      BY <3>1, <3>2 DEF Return, Idle
    <3>3. CASE ExecRead(c) \/ ExecSet(c)
      BY <3>3 DEF ExecRead, ExecSet, get_items, set_item
    <3>4. CASE ExecIncr(c)
      BY <3>4 DEF ExecIncr, increment_item, set_item
    <3>5. CASE ExecDelete(c)
      BY <3>2, <3>5 DEF ExecDelete, remove_item, Restrict, Invalidates
    <3>6. CASE ExecDeleteByTags(c)
      BY <1>1, <3>2, <3>6 DEF DeletionInv, ExecDeleteByTags, delete_by_tags, Tagged, remove_item,
         Restrict, Invalidates
    <3>7. \/ DOMAIN table' = DOMAIN table
          \/ ExecRead(c) \/ ExecSet(c) \/ ExecDelete(c)
          \/ ExecDeleteByTags(c) \/ ExecIncr(c)
      BY <2>2 DEF ClientStep, Get, Remove, GetMany, GetPattern, DeleteMany,
         DeletePattern, Set, SetMany, DeleteByTags, Incr, Raise, Read, Write,
         Delete, Begin
    <3> QED  BY <2>1, <3>3, <3>4, <3>5, <3>6, <3>7
  <2>3. CASE ScanDelete
    <3>1. scan.now \in Nat /\ scan.now <= clock /\ clock \in Nat
      BY <1>1, <2>3 DEF ScanDelete, DeletionInv, Waiting, TypeOK, Scanning
    <3>2. \A k \in DOMAIN table : table[k].exp \in Int \cup {Infinity}
      BY <1>1 DEF TypeOK, IsTable, Row
    <3> QED  BY <2>3, <3>1, <3>2
             DEF ScanDelete, delete_expired, remove_item, Restrict, Expired, Live
  <2>4. CASE ServerCrash
    BY <1>1, <2>4 DEF ServerCrash, TypeOK
  <2> QED  BY <1>1, <2>1, <2>2, <2>3, <2>4 DEF Next, vars, ScanWake, ScanFail, Tick
<1>2. TypeOK /\ DeletionInv /\ [Next]_vars => [stays]_vars
  BY <1>1
<1>3. Init => TypeOK /\ DeletionInv
  BY DEF Init, TypeOK, IsTable, IsCall, DeletionInv, Waiting, Idle
<1> QED  BY <1>2, <1>3, TypeStep, DeletionStep, PTL
         DEF Spec, LiveRowsLeaveOnlyByInvalidation

-----------------------------------------------------------------------------
(* Which reads may shorten a lifetime. *)

(* The deadline of a row in bounds is at most that of its latest use. *)
LEMMA LatestUseIsLongest ==
    ASSUME NEW row \in Row, NEW now \in Int, Bounded(row, now)
    PROVE  row.exp <= renewed(row, now).exp
<1>1. CASE row.sliding = Null
  BY <1>1, SqlAssumption DEF renewed, Bounded, Row
<1>2. CASE row.sliding # Null
  <2>1. renewed(row, now).exp = Capped(now + row.sliding, row.abs)
    BY <1>2 DEF renewed, Row
  <2> QED  BY <1>2, <2>1, SqlAssumption DEF Bounded, Row, Capped
<1> QED  BY <1>1, <1>2

(* A step that ends the read of c is its statement, or changes no row. *)
LEMMA EndOfRead ==
    ASSUME TypeOK, [Next]_vars, NEW c \in Clients, call[c].op = "read",
           call'[c] = Idle
    PROVE  ExecRead(c) \/ table' = table
<1>1. call[c] # call'[c]
  BY DEF Idle
<1>2. PICK d \in Clients : ClientStep(d)
  BY <1>1 DEF Next, vars, ScanWake, ScanDelete, ScanFail, Tick, ServerCrash
<1>3. \/ table' = table
      \/ /\ ExecRead(d) \/ ExecSet(d) \/ ExecDelete(d) \/ ExecDeleteByTags(d)
            \/ ExecIncr(d)
         /\ Return(d)
  BY <1>2 DEF ClientStep, Get, Remove, GetMany, GetPattern, DeleteMany,
     DeletePattern, Set, SetMany, DeleteByTags, Incr, Raise, Read, Write,
     Delete, Begin, ExecRead, ExecSet, ExecDelete, ExecDeleteByTags, ExecIncr
<1>4. Return(d) => d = c
  BY <1>1 DEF Return, TypeOK
<1> QED  BY <1>3, <1>4
         DEF ExecSet, ExecDelete, ExecDeleteByTags, ExecIncr

(* For every instance, a read brings an expiry forward only when another   *)
(* read or write of the entry has begun after it.                          *)
THEOREM ShortenersAreOvertaken == Spec => OnlyOvertakenReadsShorten
<1> DEFINE overtaken ==
      \A c \in Clients : \A k \in PureEntries \cap DOMAIN table \cap DOMAIN table' :
          /\ call[c].op = "read" /\ call'[c] = Idle
          /\ table'[k].exp < table[k].exp
          => call[c].now < lastUse[k]
<1>1. ASSUME TypeOK, DeadlineInv, [Next]_vars PROVE overtaken
  <2> SUFFICES ASSUME NEW c \in Clients,
                      NEW k \in PureEntries \cap DOMAIN table \cap DOMAIN table',
                      call[c].op = "read", call'[c] = Idle,
                      ~(call[c].now < lastUse[k])
               PROVE  ~(table'[k].exp < table[k].exp)
    OBVIOUS
  <2>1. /\ k \in Keys /\ table[k] \in Row /\ lastUse[k] \in Nat
        /\ Bounded(table[k], lastUse[k]) /\ call[c].now \in Nat
    <3>1. /\ IsTable(table, Keys) /\ RowsBounded(table, lastUse)
          /\ lastUse \in [Keys -> Nat] /\ IsCall(call[c])
      BY <1>1 DEF TypeOK, DeadlineInv
    <3>2. call[c].now \in Nat
      BY <3>1, CallFields DEF ReadCall
    <3> QED  BY <3>1, <3>2 DEF IsTable, RowsBounded
  <2>2. Bounded(table[k], call[c].now)
    BY <2>1, BoundedGrows
  <2>3. table[k].exp <= renewed(table[k], call[c].now).exp
    BY <2>1, <2>2, LatestUseIsLongest
  <2>4. table'[k] = table[k] \/ table'[k] = renewed(table[k], call[c].now)
    BY <1>1, EndOfRead DEF ExecRead, get_items
  <2>5. table[k].exp \in Int /\ renewed(table[k], call[c].now).exp \in Int
    BY <2>1, SqlAssumption DEF Bounded, Row, renewed, Capped
  <2> QED  BY <2>3, <2>4, <2>5
<1>2. TypeOK /\ DeadlineInv /\ [Next]_vars => [overtaken]_vars
  BY <1>1
<1> QED  BY <1>2, DeadlinesBounded, PTL DEF Spec, OnlyOvertakenReadsShorten

-----------------------------------------------------------------------------
(* The contract. *)

LEMMA DeletingBy ==
    ASSUME TypeOK, NEW c \in Clients, NEW r, call' = [call EXCEPT ![c] = r]
    PROVE  deleting' = IF r.op \in {"delete", "delete_by_tags"}
                       THEN deleting \cup {c} ELSE deleting \ {c}
BY DEF TypeOK, deleting

LEMMA SameTable ==
    ASSUME table' = table
    PROVE  entry' = entry /\ count' = count
BY DEF entry, count

LEMMA SameUses ==
    ASSUME lastUse' = lastUse
    PROVE  used' = used
BY DEF used

(* The first half of a call uses keys, asks for a deletion, or is nothing  *)
(* to the contract.                                                        *)
LEMMA BeginRefines ==
    ASSUME TypeOK, NEW c \in Clients, NEW r, Begin(c, r),
           \/ \E ks \in SUBSET Keys : Use(ks) /\ r.op \in {"read", "set"}
           \/ lastUse' = lastUse
    PROVE  [Contract!Next]_(Contract!vars)
<1>1. /\ call[c] = Idle /\ call' = [call EXCEPT ![c] = r]
      /\ table' = table /\ clock' = clock
  BY DEF Begin
<1>2. entry' = entry /\ count' = count
  BY <1>1, SameTable
<1>3. c \notin deleting
  BY <1>1 DEF deleting, Idle
<1>4. CASE r.op \notin {"delete", "delete_by_tags"}
  <2>1. deleting' = deleting
    BY <1>1, <1>3, <1>4, DeletingBy
  <2>2. ASSUME NEW ks \in SUBSET Keys, Use(ks) PROVE Contract!Next
    <3>1. used' = [k \in PureEntries |->
                     IF k \in ks \cap PureEntries THEN clock ELSE used[k]]
      BY <2>2, StoreAssumption DEF used, Use, PureEntries
    <3>2. Contract!Use(ks \cap PureEntries)
      BY <1>1, <1>2, <2>1, <3>1 DEF Contract!Use
    <3> QED  BY <3>2 DEF Contract!Next
  <2>3. CASE lastUse' = lastUse
    BY <1>1, <1>2, <2>1, <2>3, SameUses DEF Contract!vars
  <2> QED  BY <2>2, <2>3
<1>5. CASE r.op \in {"delete", "delete_by_tags"}
  <2>1. deleting' = deleting \cup {c}
    BY <1>1, <1>5, DeletingBy
  <2>2. used' = used
    BY <1>5, SameUses
  <2> QED  BY <1>1, <1>2, <2>1, <2>2
           DEF Contract!AskDeletion, Contract!Next
<1> QED  BY <1>4, <1>5

(* The end of a call that is no deletion. *)
LEMMA ReturnView ==
    ASSUME TypeOK, NEW c \in Clients, Return(c)
    PROVE  /\ clock' = clock /\ used' = used
           /\ deleting' = deleting \ {c}
           /\ call[c].op \notin {"delete", "delete_by_tags"} => c \notin deleting
BY SameUses, DeletingBy DEF Return, Idle, deleting

LEMMA ReadRefines ==
    ASSUME TypeOK, DeadlineInv, CounterInv, NEW c \in Clients, ExecRead(c)
    PROVE  Contract!Next
<1> DEFINE now == call[c].now
           ks == {k \in PureEntries \cap DOMAIN table :
                    /\ k \in call[c].keys /\ Live(table[k], now)
                    /\ table[k].sliding # Null}
<1>1. call[c] \in ReadCall /\ IsTable(table, Keys) /\ lastUse \in [Keys -> Nat]
  BY CallFields DEF ExecRead, TypeOK
<1>2. now \in Nat /\ \A k \in call[c].keys : now <= lastUse[k]
  BY <1>1 DEF ReadCall, ExecRead, DeadlineInv, CallBounded
<1>3. table' = get_items(table, call[c].keys, now)
  BY DEF ExecRead
<1>4. clock' = clock /\ used' = used /\ deleting' = deleting
  BY ReturnView DEF ExecRead
<1> HIDE DEF now
<1>5. DOMAIN table' = DOMAIN table
  BY <1>3 DEF get_items
<1>6. count' = count
  <2>1. \A k \in PureCounters \cap DOMAIN table : table'[k] = table[k]
    BY <1>3 DEF CounterInv, get_items, renewed
  <2> QED  BY <1>5, <2>1 DEF count
<1>7. DOMAIN entry' = DOMAIN entry /\ DOMAIN entry = PureEntries \cap DOMAIN table
  BY <1>5 DEF entry
<1>8. ASSUME NEW k \in DOMAIN entry, k \notin ks PROVE entry'[k] = entry[k]
  <2>1. table'[k] = table[k]
    BY <1>3, <1>7, <1>8 DEF get_items, renewed
  <2> QED  BY <1>5, <1>7, <2>1 DEF entry
<1>9. ASSUME NEW k \in ks
      PROVE  /\ entry[k].window # Null
             /\ now \in 0 .. used[k]
             /\ entry'[k] = [entry[k] EXCEPT !.deadline =
                                Contract!Deadline(entry[k], now)]
  <2>1. table[k] \in Row /\ k \in PureEntries /\ k \in Keys /\ k \in DOMAIN table
    BY <1>1 DEF IsTable
  <2>2. table'[k] = [table[k] EXCEPT !.exp =
                        Capped(now + table[k].sliding, table[k].abs)]
    BY <1>3, <1>9 DEF get_items, renewed
  <2>3. now <= lastUse[k] /\ used[k] = lastUse[k] /\ lastUse[k] \in Nat
    BY <1>1, <1>2, <1>9, <2>1 DEF used
  <2>4. /\ table'[k].value = table[k].value
        /\ table'[k].sliding = table[k].sliding
        /\ table'[k].abs = table[k].abs
        /\ table'[k].exp = Capped(now + table[k].sliding, table[k].abs)
    BY <2>1, <2>2 DEF Row
  <2>5. /\ entry[k] = [value   |-> table[k].value, window   |-> table[k].sliding,
                       ceiling |-> table[k].abs,   deadline |-> table[k].exp]
        /\ entry'[k] = [value   |-> table'[k].value, window   |-> table'[k].sliding,
                        ceiling |-> table'[k].abs,   deadline |-> table'[k].exp]
    BY <1>5, <2>1 DEF entry
  <2>6. Contract!Deadline(entry[k], now) = table'[k].exp
    BY <2>4, <2>5 DEF Contract!Deadline, Capped
  <2> QED  BY <1>2, <1>9, <2>3, <2>4, <2>5, <2>6
<1>10. Contract!Renew(ks)
  BY <1>4, <1>6, <1>7, <1>8, <1>9 DEF Contract!Renew
<1>11. ks \in SUBSET PureEntries
  OBVIOUS
<1> HIDE DEF ks
<1> QED  BY <1>10, <1>11 DEF Contract!Next

LEMMA SetRefines ==
    ASSUME TypeOK, DeadlineInv, NEW c \in Clients, ExecSet(c)
    PROVE  Contract!Next
<1> DEFINE rows == call[c].rows
           ks == PureEntries \cap DOMAIN rows
<1>1. /\ DOMAIN rows \subseteq EntryKeys /\ RowsBounded(rows, lastUse)
      /\ \A k \in DOMAIN rows : rows[k] \in Row
  BY CallFields DEF ExecSet, TypeOK, IsTable, DeadlineInv, CallBounded
<1>2. clock' = clock /\ used' = used /\ deleting' = deleting
  BY ReturnView DEF ExecSet
<1>3. /\ DOMAIN table' = DOMAIN table \cup DOMAIN rows
      /\ \A k \in DOMAIN rows : table'[k] = rows[k]
      /\ \A k \in DOMAIN table \ DOMAIN rows : table'[k] = table[k]
  BY DEF ExecSet, set_item
<1>4. count' = count
  BY <1>1, <1>3 DEF count, PureCounters
<1>5. /\ DOMAIN entry' = DOMAIN entry \cup ks
      /\ \A k \in DOMAIN entry \ ks : entry'[k] = entry[k]
  BY <1>3 DEF entry
<1>6. ASSUME NEW k \in ks
      PROVE  entry'[k] \in Contract!Entry /\ Contract!Within(entry'[k], used[k])
  <2>1. Bounded(rows[k], lastUse[k]) /\ used[k] = lastUse[k]
    BY <1>1 DEF RowsBounded, used
  <2>2. entry'[k] = [value   |-> rows[k].value, window   |-> rows[k].sliding,
                     ceiling |-> rows[k].abs,   deadline |-> rows[k].exp]
    BY <1>3 DEF entry
  <2>3. rows[k] \in Row
    BY <1>1
  <2> QED  BY <2>1, <2>2, <2>3 DEF Bounded, Row, Contract!Within, Contract!Entry
<1>7. Contract!Write(ks)
  BY <1>2, <1>4, <1>5, <1>6 DEF Contract!Write
<1>8. ks \in SUBSET PureEntries
  OBVIOUS
<1> HIDE DEF ks
<1> QED  BY <1>7, <1>8 DEF Contract!Next

LEMMA DeleteRefines ==
    ASSUME TypeOK, NEW c \in Clients, NEW ks, Return(c),
           table' = remove_item(table, ks),
           call[c].op \in {"delete", "delete_by_tags"}
    PROVE  Contract!Next
<1> DEFINE js == ks \cap (PureEntries \cup PureCounters)
<1>1. /\ clock' = clock /\ used' = used
      /\ c \in deleting /\ deleting' = deleting \ {c}
  BY ReturnView DEF deleting
<1>2. /\ DOMAIN table' = DOMAIN table \ ks
      /\ \A k \in DOMAIN table' : table'[k] = table[k]
  BY DEF remove_item, Restrict
<1>3. entry' = Contract!Without(entry, js)
  BY <1>2 DEF entry, Contract!Without
<1>4. count' = [k \in PureCounters |-> IF k \in js THEN 0 ELSE count[k]]
  BY <1>2 DEF count
<1>5. Contract!Delete(c, js)
  BY <1>1, <1>3, <1>4 DEF Contract!Delete, Contract!EndDeletion
<1>6. js \in SUBSET (PureEntries \cup PureCounters)
  OBVIOUS
<1> HIDE DEF js
<1> QED  BY <1>5, <1>6 DEF Contract!Next

LEMMA IncrRefines ==
    ASSUME TypeOK, CounterInv, NEW c \in Clients, ExecIncr(c)
    PROVE  [Contract!Next]_(Contract!vars)
<1> DEFINE key == call[c].key
           n == call[c].amount
<1>1. key \in CounterKeys /\ n \in Amounts /\ n \in Int
  <2>1. call[c] \in IncrCall
    BY CallFields DEF TypeOK, ExecIncr
  <2>2. key \in CounterKeys /\ n \in Amounts
    BY <2>1 DEF IncrCall
  <2>3. Amounts \subseteq Int
    BY StoreAssumption
  <2> QED  BY <2>2, <2>3
<1>2. clock' = clock /\ used' = used /\ deleting' = deleting
  BY ReturnView DEF ExecIncr
<1>3. IsTable(table, Keys) /\ table' = increment_item(table, key, n, call[c].now)
  BY DEF ExecIncr, TypeOK
<1> HIDE DEF key, n
<1>4. \A k \in Keys : k # key => /\ k \in DOMAIN table' <=> k \in DOMAIN table
                                 /\ k \in DOMAIN table => table'[k] = table[k]
  BY <1>3 DEF increment_item, set_item, IsTable
<1>5. DOMAIN table \subseteq Keys /\ PureEntries \subseteq Keys /\ PureCounters \subseteq Keys
  BY <1>3, StoreAssumption DEF IsTable, PureEntries, PureCounters
<1>6. entry' = entry
  BY <1>1, <1>4, <1>5 DEF entry, PureEntries
<1>7. CASE key \notin PureCounters
  <2>1. count' = count
    BY <1>4, <1>5, <1>7 DEF count
  <2> QED  BY <1>2, <1>6, <2>1 DEF Contract!vars
<1>8. CASE key \in PureCounters
  <2>1. key \in DOMAIN table' /\ table'[key].value = count[key] + n
    <3>1. CASE key \notin DOMAIN table
      BY <1>1, <1>3, <1>8, <3>1 DEF increment_item, set_item, count
    <3>2. CASE key \in DOMAIN table
      <4>1. table[key].exp = Infinity /\ table[key] \in Row
        BY <1>3, <1>8, <3>2 DEF CounterInv, IsTable
      <4>2. table' = [table EXCEPT ![key] = [@ EXCEPT !.value = table[key].value + n]]
        BY <1>3, <3>2, <4>1 DEF increment_item, Expired, Live
      <4> QED  BY <1>3, <1>8, <3>2, <4>1, <4>2 DEF count, IsTable, Row
    <3> QED  BY <3>1, <3>2
  <2>2. count' = [count EXCEPT ![key] = @ + n]
    BY <1>4, <1>5, <1>8, <2>1 DEF count
  <2>3. Contract!Add(key, n)
    BY <1>2, <1>6, <2>2 DEF Contract!Add
  <2> QED  BY <1>1, <1>8, <2>3 DEF Contract!Next
<1> QED  BY <1>7, <1>8

LEMMA ScanRefines ==
    ASSUME TypeOK, DeadlineInv, CounterInv, DeletionInv, ScanDelete
    PROVE  Contract!Next
<1> DEFINE gone == {k \in DOMAIN table : Expired(table[k], scan.now)}
           ks == gone \cap PureEntries
<1>1. scan.now \in Nat /\ scan.now <= clock /\ clock \in Nat
  BY DEF ScanDelete, DeletionInv, Waiting, TypeOK, Scanning
<1>2. IsTable(table, Keys) /\ RowsBounded(table, lastUse)
  BY DEF TypeOK, DeadlineInv
<1>3. /\ clock' = clock /\ call' = call /\ used' = used
      /\ DOMAIN table' = DOMAIN table \ gone
      /\ \A k \in DOMAIN table' : table'[k] = table[k]
  BY SameUses DEF ScanDelete, delete_expired, remove_item, Restrict
<1>4. deleting' = deleting
  BY <1>3 DEF deleting
<1>5. count' = count
  BY <1>3 DEF count, CounterInv, Expired, Live
<1>6. entry' = Contract!Without(entry, ks)
  BY <1>3 DEF entry, Contract!Without
<1>7. ks \in SUBSET {k \in DOMAIN entry : Contract!Over(k)}
  <2> SUFFICES ASSUME NEW k \in ks PROVE k \in DOMAIN entry /\ Contract!Over(k)
    OBVIOUS
  <2>1. table[k] \in Row /\ Expired(table[k], scan.now) /\ Bounded(table[k], lastUse[k])
    BY <1>2 DEF IsTable, RowsBounded
  <2>2. table[k].exp < clock
    BY <1>1, <2>1 DEF Row, Bounded, Expired, Live
  <2> QED  BY <2>2 DEF entry, Contract!Over
<1> HIDE DEF ks
<1> QED  BY <1>3, <1>4, <1>5, <1>6, <1>7 DEF Contract!Collect, Contract!Next

LEMMA ClientRefines ==
    ASSUME TypeOK, DeadlineInv, CounterInv, NEW c \in Clients, ClientStep(c)
    PROVE  [Contract!Next]_(Contract!vars)
<1> USE StoreAssumption
<1>1. ASSUME NEW ks \in SUBSET Keys, Read(c, ks) \/ Delete(c, ks)
      PROVE  [Contract!Next]_(Contract!vars)
  BY <1>1, BeginRefines DEF Read, Delete
<1>2. ASSUME NEW ks \in SUBSET Keys, NEW f, NEW o, Write(c, ks, f, o)
      PROVE  [Contract!Next]_(Contract!vars)
  <2> DEFINE options == IF o = Null THEN default_options ELSE o
             rows == [k \in ks |-> new_row(f[k], options, clock)]
  <2>1. Begin(c, [op |-> "set", rows |-> rows]) /\ Use(ks)
    BY <1>2 DEF Write
  <2> HIDE DEF rows
  <2> QED  BY <2>1, BeginRefines
<1>3. ASSUME NEW ts, DeleteByTags(c, ts) PROVE [Contract!Next]_(Contract!vars)
  BY <1>3, BeginRefines DEF DeleteByTags
<1>4. ASSUME NEW k, NEW n, Incr(c, k, n) PROVE [Contract!Next]_(Contract!vars)
  BY <1>4, BeginRefines DEF Incr
<1>5. CASE ExecDelete(c)
  BY <1>5, DeleteRefines DEF ExecDelete
<1>6. CASE ExecDeleteByTags(c)
  BY <1>6, DeleteRefines DEF ExecDeleteByTags, delete_by_tags
<1>7. CASE Raise(c)
  <2>1. entry' = entry /\ count' = count
    BY <1>7, SameTable DEF Raise
  <2>2. /\ clock' = clock /\ used' = used /\ deleting' = deleting \ {c}
    BY <1>7, ReturnView DEF Raise
  <2>3. CASE c \in deleting
    BY <2>1, <2>2, <2>3
       DEF Contract!EndDeletion, Contract!FailDeletion, Contract!Next
  <2>4. CASE c \notin deleting
    BY <2>1, <2>2, <2>4 DEF Contract!vars
  <2> QED  BY <2>3, <2>4
<1>8. ASSUME NEW k \in Keys, Get(c, k) \/ Remove(c, k)
      PROVE  [Contract!Next]_(Contract!vars)
  BY <1>1, <1>8 DEF Get, Remove
<1>9. ASSUME NEW ks \in KeySets,
             \/ GetMany(c, ks)    \/ GetPattern(c, ks)
             \/ DeleteMany(c, ks) \/ DeletePattern(c, ks)
      PROVE  [Contract!Next]_(Contract!vars)
  BY <1>1, <1>9 DEF GetMany, GetPattern, DeleteMany, DeletePattern
<1>10. ASSUME NEW k \in EntryKeys, NEW v, NEW o, Set(c, k, v, o)
       PROVE  [Contract!Next]_(Contract!vars)
  BY <1>2, <1>10 DEF Set
<1>11. ASSUME NEW ks \in KeySets \cap SUBSET EntryKeys, NEW f \in [ks -> Blobs],
              NEW o, SetMany(c, f, o)
       PROVE  [Contract!Next]_(Contract!vars)
  BY <1>2, <1>11 DEF SetMany
<1> QED  BY <1>3, <1>4, <1>5, <1>6, <1>7, <1>8, <1>9, <1>10, <1>11, ReadRefines,
            SetRefines, IncrRefines DEF ClientStep

LEMMA NextRefines ==
    ASSUME TypeOK, DeadlineInv, CounterInv, DeletionInv, [Next]_vars
    PROVE  [Contract!Next]_(Contract!vars)
<1>1. ASSUME NEW c \in Clients, ClientStep(c)
      PROVE  [Contract!Next]_(Contract!vars)
  BY <1>1, ClientRefines
<1>2. CASE ScanDelete
  BY <1>2, ScanRefines
<1>3. CASE ScanWake \/ ScanFail \/ UNCHANGED vars
  BY <1>3, SameTable, SameUses
     DEF ScanWake, ScanFail, vars, Contract!vars, deleting
<1>4. CASE Tick
  BY <1>4, SameTable, SameUses
     DEF Tick, Contract!Tick, Contract!Next, deleting
<1>5. CASE ServerCrash
  <2>1. clock' = clock /\ used' = used /\ deleting' = deleting
    BY <1>5, SameUses DEF ServerCrash, deleting
  <2>2. CASE UseWal
    BY <1>5, <2>1, <2>2, SameTable DEF ServerCrash, Contract!vars
  <2>3. CASE ~UseWal
    <3>1. DOMAIN table' = {}
      BY <1>5, <2>3 DEF ServerCrash
    <3>2. entry' = Contract!Without(entry, DOMAIN entry)
      BY <3>1 DEF entry, Contract!Without
    <3>3. count' = [k \in PureCounters |-> 0]
      BY <3>1 DEF count
    <3> QED  BY <2>1, <2>3, <3>2, <3>3 DEF Contract!Lose, Contract!Next
  <2> QED  BY <2>2, <2>3
<1> QED  BY <1>1, <1>2, <1>3, <1>4, <1>5 DEF Next

(* For every instance, the cache keeps its contract: each step is one of   *)
(* the contract's, or none of its concern.                                 *)
THEOREM Implementation == Spec => ImplementsContract
<1>1. Init => TypeOK /\ DeadlineInv /\ CounterInv /\ DeletionInv
  BY StoreAssumption
     DEF Init, TypeOK, IsTable, IsCall, DeadlineInv, RowsBounded, CallBounded,
         CounterInv, PureCounters, DeletionInv, Waiting, Idle
<1>2. Init => Contract!Init
  BY StoreAssumption
     DEF Init, Contract!Init, used, deleting, entry, count, PureEntries, Idle
<1>3. /\ TypeOK /\ DeadlineInv /\ CounterInv /\ DeletionInv
      /\ [Next]_vars
      => [Contract!Next]_(Contract!vars)
  BY NextRefines
<1> QED  BY <1>1, <1>2, <1>3, TypeStep, DeadlineStep, CounterStep, DeletionStep,
            PTL DEF Spec, ImplementsContract, Contract!Spec
=============================================================================
