--------------------------- MODULE StampedeProofs ---------------------------
(***************************************************************************)
(* What get_or_create guarantees of every instance: type correctness, one  *)
(* flight per key, no computation wasted, and that it implements           *)
(* SingleFlight.                                                           *)
(***************************************************************************)
EXTENDS Stampede, CacheSqlProofs, FiniteSetTheorems

Inv == TypeOK /\ LockInv /\ PayloadInv

-----------------------------------------------------------------------------
(* Type correctness. *)

LEMMA FlightType ==
    ASSUME TypeOK, NEW c \in Callers, flight[c].pc # "idle"
    PROVE  /\ flight[c] \in Flights
           /\ flight[c].key \in Keys
           /\ flight[c].now \in Nat
BY DEF TypeOK, Idle, Flights

LEMMA ReleaseType ==
    ASSUME TypeOK, NEW c \in Callers, Release(c)
    PROVE  holder' \in [Keys -> Callers \cup {Null}]
BY DEF TypeOK, Release

LEMMA EndType ==
    ASSUME TypeOK, NEW c \in Callers, End(c), IsTable(table', Keys)
    PROVE  TypeOK'
<1>1. flight' \in [Callers -> {Idle} \cup Flights]
  BY DEF End, TypeOK
<1>2. holder' \in [Keys -> Callers \cup {Null}]
  BY ReleaseType DEF End
<1> QED  BY <1>1, <1>2 DEF End, TypeOK

LEMMA AdvanceType ==
    ASSUME TypeOK, NEW c \in Callers, flight[c].pc # "idle",
           NEW step \in InTransaction, Advance(c, step),
           holder' \in [Keys -> Callers \cup {Null}]
    PROVE  TypeOK'
<1>1. flight[c] \in Flights
  BY FlightType
<1>2. [flight[c] EXCEPT !.pc = step] \in Flights
  BY <1>1 DEF Flights
<1>3. flight' = [flight EXCEPT ![c] = [flight[c] EXCEPT !.pc = step]]
  BY DEF Advance
<1>4. flight' \in [Callers -> {Idle} \cup Flights]
  BY <1>2, <1>3 DEF TypeOK
<1> QED  BY <1>4 DEF Advance, TypeOK, IsTable

(* A step of the environment that changes the table only. *)
LEMMA TableType ==
    ASSUME TypeOK, IsTable(table', Keys),
           UNCHANGED <<clock, flight, holder, faults>>
    PROVE  TypeOK'
BY DEF TypeOK

LEMMA ChosenOptions ==
    ASSUME NEW o \in OptionChoices
    PROVE  (IF o = Null THEN default_options ELSE o) \in EntryOptions
BY StampedeAssumption, SqlAssumption DEF default_options, EntryOptions

(* A write of one row. *)
LEMMA OneRowType ==
    ASSUME NEW k \in Keys, NEW v \in Blobs, NEW o \in EntryOptions,
           NEW now \in Nat, IsTable(table, Keys)
    PROVE  IsTable(set_item(table, [x \in {k} |-> new_row(v, o, now)]), Keys)
<1> DEFINE row == new_row(v, o, now)
           rows == [x \in {k} |-> row]
<1>1. row \in Row
  BY NewRowType
<1>2. IsTable(rows, Keys)
  <2> HIDE DEF row
  <2> QED  BY <1>1 DEF IsTable
<1> HIDE DEF rows
<1>3. IsTable(set_item(table, rows), Keys)
  BY <1>2, SetItemType
<1> QED  BY <1>3 DEF rows

LEMMA CallType ==
    ASSUME TypeOK, NEW c \in Callers, NEW k \in Keys, NEW o \in OptionChoices,
           NEW m \in Modes, Call(c, k, o, m)
    PROVE  TypeOK'
<1> DEFINE r == [pc |-> "connecting", key |-> k, options |-> o, mode |-> m,
                 now |-> clock, alive |-> TRUE, value |-> Null]
<1>1. r \in Flights
  BY DEF Flights, TypeOK
<1>2. flight' = [flight EXCEPT ![c] = r]
  BY DEF Call
<1> HIDE DEF r
<1>3. flight' \in [Callers -> {Idle} \cup Flights]
  BY <1>1, <1>2 DEF TypeOK
<1> QED  BY <1>3 DEF Call, TypeOK, IsTable

LEMMA StoreType ==
    ASSUME TypeOK, PayloadInv, NEW c \in Callers, Store(c)
    PROVE  TypeOK'
<1> DEFINE o == IF flight[c].options = Null THEN default_options
                                            ELSE flight[c].options
<1>1. /\ flight[c].key \in Keys /\ flight[c].now \in Nat
      /\ flight[c].options \in OptionChoices /\ flight[c].value \in Blobs
  BY FlightType DEF Store, At, Flights, PayloadInv
<1>2. o \in EntryOptions
  BY <1>1, ChosenOptions
<1>3. StoredRow(c) = new_row(flight[c].value, o, flight[c].now)
  BY DEF StoredRow
<1>4. IsTable(table', Keys)
  <2> HIDE DEF o
  <2>1. IsTable(set_item(table, [x \in {flight[c].key} |->
                   new_row(flight[c].value, o, flight[c].now)]), Keys)
    BY <1>1, <1>2, OneRowType DEF TypeOK
  <2> QED  BY <1>3, <2>1 DEF Store
<1> QED  BY <1>4, EndType DEF Store

LEMMA ValueType ==
    ASSUME TypeOK, NEW c \in Callers, flight[c].pc # "idle", NEW v \in Blobs,
           flight' = [flight EXCEPT ![c].pc = "storing", ![c].value = v],
           UNCHANGED <<table, clock, holder, faults>>
    PROVE  TypeOK'
<1> DEFINE r == [flight[c] EXCEPT !.pc = "storing"]
           s == [r EXCEPT !.value = v]
<1>1. flight[c] \in Flights
  BY FlightType
<1>2. r \in Flights
  BY <1>1 DEF Flights, InTransaction
<1>3. s \in Flights
  <2> HIDE DEF r
  <2> QED  BY <1>2 DEF Flights
<1>4. flight' = [flight EXCEPT ![c] = s]
  OBVIOUS
<1> HIDE DEF s
<1>5. flight' \in [Callers -> {Idle} \cup Flights]
  BY <1>3, <1>4 DEF TypeOK
<1> QED  BY <1>5 DEF TypeOK

LEMMA LeaveType ==
    ASSUME TypeOK, NEW c \in Callers, Leave(c)
    PROVE  TypeOK'
BY EndType DEF Leave, TypeOK, IsTable

LEMMA ProgressType ==
    ASSUME TypeOK, PayloadInv, NEW c \in Callers, Progress(c)
    PROVE  TypeOK'
<1>1. holder \in [Keys -> Callers \cup {Null}]
  BY DEF TypeOK
<1>2. CASE Connect(c)
  BY <1>1, <1>2, AdvanceType DEF Connect, At, InTransaction
<1>3. CASE \/ PoolTimeout(c)  \/ CheckHit(c) \/ FactoryRaises(c)
           \/ StaleMissing(c) \/ Doomed(c)
  BY <1>3, LeaveType DEF PoolTimeout, CheckHit, FactoryRaises, StaleMissing, Doomed
<1>4. CASE CheckMiss(c)
  BY <1>1, <1>4, AdvanceType DEF CheckMiss, At, InTransaction
<1>5. CASE FactoryReturns(c)
  <2>1. c \in Blobs
    BY StampedeAssumption
  <2> QED  BY <1>5, <2>1, ValueType DEF FactoryReturns, At
<1>6. CASE FailoverCatches(c)
  BY <1>1, <1>6, AdvanceType DEF FailoverCatches, At, InTransaction
<1>7. CASE StaleConnect(c)
  BY <1>1, <1>7, AdvanceType DEF StaleConnect, At, InTransaction
<1>8. CASE StaleFound(c)
  <2>1. table[flight[c].key].value \in Blobs
    BY <1>8 DEF StaleFound, PayloadInv
  <2> QED  BY <1>8, <2>1, ValueType DEF StaleFound, At
<1>9. CASE Store(c)
  BY <1>9, StoreType
<1> QED  BY <1>2, <1>3, <1>4, <1>5, <1>6, <1>7, <1>8, <1>9 DEF Progress

(* A fault leaves flights that are typed like the others. *)
LEMMA LostType ==
    ASSUME TypeOK, NEW c \in Callers, flight[c].pc # "idle"
    PROVE  [flight[c] EXCEPT !.alive = FALSE] \in Flights
BY FlightType DEF Flights

LEMMA FaultType ==
    ASSUME TypeOK, NEW c \in Callers, ConnectionLost(c) \/ StaleReadFails(c)
    PROVE  TypeOK'
<1>1. holder' \in [Keys -> Callers \cup {Null}]
  BY ReleaseType DEF ConnectionLost, StaleReadFails
<1>2. flight' \in [Callers -> {Idle} \cup Flights]
  <2>1. CASE ConnectionLost(c)
    <3>1. [flight[c] EXCEPT !.alive = FALSE] \in Flights
      BY <2>1, LostType DEF ConnectionLost, InTransaction
    <3>2. flight' = [flight EXCEPT ![c] = [flight[c] EXCEPT !.alive = FALSE]]
      BY <2>1 DEF ConnectionLost
    <3> QED  BY <3>1, <3>2 DEF TypeOK
  <2>2. CASE StaleReadFails(c)
    BY <2>2 DEF StaleReadFails, TypeOK
  <2> QED  BY <2>1, <2>2
<1>3. faults' \in Nat /\ UNCHANGED <<table, clock>>
  BY DEF ConnectionLost, StaleReadFails, Fault, TypeOK
<1> QED  BY <1>1, <1>2, <1>3 DEF TypeOK, IsTable

LEMMA CrashType ==
    ASSUME TypeOK, ServerCrash
    PROVE  TypeOK'
<1>1. \A c \in Callers : flight[c].pc \in InTransaction =>
          [flight[c] EXCEPT !.alive = FALSE] \in Flights
  BY LostType DEF InTransaction
<1>2. flight' \in [Callers -> {Idle} \cup Flights]
  BY <1>1 DEF ServerCrash, TypeOK
<1>3. IsTable(table', Keys)
  BY DEF ServerCrash, TypeOK, IsTable
<1>4. holder' \in [Keys -> Callers \cup {Null}] /\ faults' \in Nat
  BY DEF ServerCrash, Fault, TypeOK
<1> QED  BY <1>2, <1>3, <1>4 DEF ServerCrash, TypeOK

(* What others do to the table. *)
LEMMA OthersType ==
    ASSUME TypeOK, NEW k \in Keys,
           \/ \E now \in 0 .. clock : OtherGet(k, now)
           \/ \E o \in OptionChoices : OtherSet(k, o)
           \/ OtherRemove(k)
    PROVE  TypeOK'
<1>1. IsTable(table, Keys) /\ clock \in Nat
  BY DEF TypeOK
<1>2. ASSUME NEW now \in 0 .. clock, OtherGet(k, now) PROVE TypeOK'
  <2>1. IsTable(table', Keys)
    BY <1>1, <1>2, GetItemsType DEF OtherGet
  <2> QED  BY <1>2, <2>1, TableType DEF OtherGet
<1>3. ASSUME NEW o \in OptionChoices, OtherSet(k, o) PROVE TypeOK'
  <2> DEFINE options == IF o = Null THEN default_options ELSE o
  <2>1. options \in EntryOptions
    BY ChosenOptions
  <2>2. table' = set_item(table, [x \in {k} |-> new_row(Plain, options, clock)])
    BY <1>3 DEF OtherSet
  <2> HIDE DEF options
  <2>3. Plain \in Blobs
    BY StampedeAssumption
  <2>4. IsTable(set_item(table, [x \in {k} |-> new_row(Plain, options, clock)]),
                Keys)
    BY <1>1, <2>1, <2>3, OneRowType
  <2>5. IsTable(table', Keys)
    BY <2>2, <2>4
  <2> QED  BY <1>3, <2>5, TableType DEF OtherSet
<1>4. CASE OtherRemove(k)
  BY <1>1, <1>4, RemoveItemType, TableType DEF OtherRemove
<1> QED  BY <1>2, <1>3, <1>4

LEMMA LockType ==
    ASSUME TypeOK, NEW c \in Callers, Lock(c)
    PROVE  TypeOK'
<1>1. holder' \in [Keys -> Callers \cup {Null}]
  BY DEF Lock, TypeOK
<1> QED  BY <1>1, AdvanceType DEF Lock, At, InTransaction

LEMMA TypeStep == TypeOK /\ PayloadInv /\ [Next]_vars => TypeOK'
<1> SUFFICES ASSUME TypeOK, PayloadInv, [Next]_vars PROVE TypeOK'
  OBVIOUS
<1>1. ASSUME NEW c \in Callers, NEW k \in Keys, NEW o \in OptionChoices,
             NEW m \in Modes, Call(c, k, o, m)
      PROVE  TypeOK'
  BY <1>1, CallType
<1>2. ASSUME NEW c \in Callers, Progress(c) PROVE TypeOK'
  BY <1>2, ProgressType
<1>3. ASSUME NEW c \in Callers, Lock(c) PROVE TypeOK'
  BY <1>3, LockType
<1>4. ASSUME NEW c \in Callers, ConnectionLost(c) \/ StaleReadFails(c)
      PROVE  TypeOK'
  BY <1>4, FaultType
<1>5. ASSUME NEW k \in Keys,
             \/ \E now \in 0 .. clock : OtherGet(k, now)
             \/ \E o \in OptionChoices : OtherSet(k, o)
             \/ OtherRemove(k)
      PROVE  TypeOK'
  BY <1>5, OthersType
<1>6. CASE Scan
  <2>1. IsTable(table', Keys)
    BY <1>6, RemoveItemType DEF Scan, delete_expired, TypeOK
  <2> QED  BY <1>6, <2>1, TableType DEF Scan
<1>7. CASE Tick
  BY <1>7 DEF Tick, TypeOK, IsTable
<1>8. CASE ServerCrash
  BY <1>8, CrashType
<1>9. CASE UNCHANGED vars
  BY <1>9 DEF vars, TypeOK, IsTable
<1> QED  BY <1>1, <1>2, <1>3, <1>4, <1>5, <1>6, <1>7, <1>8, <1>9 DEF Next

-----------------------------------------------------------------------------
(* Only payloads are stored. *)

LEMMA RenewedValue ==
    ASSUME NEW row \in Row, NEW now
    PROVE  /\ renewed(row, now).value = row.value
           /\ renewed(row, now).sliding = row.sliding
           /\ row.sliding = Null => renewed(row, now) = row
BY DEF renewed, Row

(* The table keeps payloads through the statements of this module.         *)
Payloads(tb) == \A k \in DOMAIN tb : tb[k].value \in Blobs

LEMMA StoredPayload ==
    ASSUME Payloads(table), NEW k \in Keys, NEW row, row.value \in Blobs,
           table' = set_item(table, [x \in {k} |-> row])
    PROVE  Payloads(table')
BY DEF Payloads, set_item

LEMMA ReadPayload ==
    ASSUME TypeOK, Payloads(table), NEW ks, NEW now,
           table' = get_items(table, ks, now)
    PROVE  Payloads(table')
<1>1. \A k \in DOMAIN table : table[k] \in Row
  BY DEF TypeOK, IsTable
<1>2. \A k \in DOMAIN table : table'[k].value = table[k].value
  BY <1>1, RenewedValue DEF get_items
<1>3. DOMAIN table' = DOMAIN table
  BY DEF get_items
<1> QED  BY <1>2, <1>3 DEF Payloads

LEMMA RemovedPayload ==
    ASSUME Payloads(table), NEW ks, table' = remove_item(table, ks)
    PROVE  Payloads(table')
BY DEF Payloads, remove_item, Restrict

(* Of a caller's own steps only Store writes the table. *)
LEMMA CallersKeepTable ==
    ASSUME NEW c \in Callers,
           \/ \E k \in Keys, o \in OptionChoices, m \in Modes : Call(c, k, o, m)
           \/ Progress(c) /\ ~Store(c)
           \/ Lock(c) \/ ConnectionLost(c) \/ StaleReadFails(c)
    PROVE  UNCHANGED table
BY DEF Call, Progress, Connect, Advance, PoolTimeout, Leave, CheckHit,
   CheckMiss, FactoryReturns, FactoryRaises, FailoverCatches, StaleConnect,
   StaleFound, StaleMissing, Doomed, Lock, ConnectionLost, StaleReadFails

LEMMA PayloadTable == TypeOK /\ PayloadInv /\ [Next]_vars => Payloads(table')
<1> SUFFICES ASSUME TypeOK, PayloadInv, [Next]_vars PROVE Payloads(table')
  OBVIOUS
<1>1. Payloads(table)
  BY DEF Payloads, PayloadInv
<1>2. CASE UNCHANGED table
  BY <1>1, <1>2
<1>3. ASSUME NEW c \in Callers, Store(c) PROVE Payloads(table')
  <2>1. flight[c].key \in Keys /\ flight[c].value \in Blobs
    BY <1>3, FlightType DEF Store, At, PayloadInv
  <2>2. StoredRow(c).value = flight[c].value
    BY DEF StoredRow, new_row
  <2> QED  BY <1>1, <1>3, <2>1, <2>2, StoredPayload DEF Store
<1>4. ASSUME NEW k \in Keys, NEW now, OtherGet(k, now) PROVE Payloads(table')
  BY <1>1, <1>4, ReadPayload DEF OtherGet
<1>5. ASSUME NEW k \in Keys, NEW o, OtherSet(k, o) PROVE Payloads(table')
  <2> DEFINE row == new_row(Plain, IF o = Null THEN default_options ELSE o, clock)
  <2>1. row.value \in Blobs
    BY StampedeAssumption DEF new_row
  <2>2. table' = set_item(table, [x \in {k} |-> row])
    BY <1>5 DEF OtherSet
  <2> HIDE DEF row
  <2> QED  BY <1>1, <2>1, <2>2, StoredPayload
<1>6. ASSUME NEW k \in Keys, OtherRemove(k) PROVE Payloads(table')
  BY <1>1, <1>6, RemovedPayload DEF OtherRemove
<1>7. CASE Scan
  BY <1>1, <1>7, RemovedPayload DEF Scan, delete_expired
<1>8. CASE ServerCrash
  BY <1>1, <1>8 DEF ServerCrash, Payloads
<1>9. ASSUME NEW c \in Callers,
             \/ \E k \in Keys, o \in OptionChoices, m \in Modes : Call(c, k, o, m)
             \/ Progress(c) /\ ~Store(c)
             \/ Lock(c) \/ ConnectionLost(c) \/ StaleReadFails(c)
      PROVE  UNCHANGED table
  BY <1>9, CallersKeepTable
<1>10. CASE Tick \/ UNCHANGED vars
  BY <1>2, <1>10 DEF Tick, vars
<1> QED  BY <1>2, <1>3, <1>4, <1>5, <1>6, <1>7, <1>8, <1>9, <1>10 DEF Next

LEMMA PayloadStep == TypeOK /\ PayloadInv /\ [Next]_vars => PayloadInv'
<1> SUFFICES ASSUME TypeOK, PayloadInv, [Next]_vars,
                    NEW c \in Callers, At(c, "storing")'
             PROVE  flight'[c].value \in Blobs
  BY PayloadTable DEF PayloadInv, Payloads
<1>1. CASE UNCHANGED flight
  BY <1>1 DEF PayloadInv, At
<1>2. ASSUME NEW d \in Callers, NEW k, NEW o, NEW m, Call(d, k, o, m)
      PROVE  flight'[c].value \in Blobs
  BY <1>2 DEF Call, TypeOK, PayloadInv, At
<1>3. ASSUME NEW d \in Callers, NEW step, step # "storing", Advance(d, step)
      PROVE  flight'[c].value \in Blobs
  <2>1. c # d
    BY <1>3 DEF Advance, TypeOK, At
  <2> QED  BY <1>3, <2>1 DEF Advance, TypeOK, PayloadInv, At
<1>4. ASSUME NEW d \in Callers, flight' = [flight EXCEPT ![d] = Idle]
      PROVE  flight'[c].value \in Blobs
  BY <1>4 DEF TypeOK, PayloadInv, At, Idle
<1>5. ASSUME NEW d \in Callers, NEW v \in Blobs, flight[d].pc # "idle",
             flight' = [flight EXCEPT ![d].pc = "storing", ![d].value = v]
      PROVE  flight'[c].value \in Blobs
  <2>1. CASE c = d
    <3> DEFINE r == [flight[d] EXCEPT !.pc = "storing"]
    <3>1. r \in Flights
      BY <1>5, FlightType DEF Flights, InTransaction
    <3>2. flight'[c] = [r EXCEPT !.value = v]
      BY <1>5, <2>1 DEF TypeOK
    <3> HIDE DEF r
    <3> QED  BY <3>1, <3>2 DEF Flights
  <2>2. CASE c # d
    BY <1>5, <2>2 DEF TypeOK, PayloadInv, At
  <2> QED  BY <2>1, <2>2
<1>6. ASSUME NEW d \in Callers, Progress(d)
      PROVE  flight'[c].value \in Blobs
  <2>1. CASE \/ Connect(d) \/ CheckMiss(d) \/ FailoverCatches(d) \/ StaleConnect(d)
    BY <1>3, <2>1 DEF Connect, CheckMiss, FailoverCatches, StaleConnect
  <2>2. CASE \/ PoolTimeout(d)  \/ CheckHit(d) \/ FactoryRaises(d)
             \/ StaleMissing(d) \/ Doomed(d)   \/ Store(d)
    BY <1>4, <2>2 DEF PoolTimeout, CheckHit, FactoryRaises, StaleMissing, Doomed,
       Store, Leave, End
  <2>3. CASE FactoryReturns(d)
    BY <1>5, <2>3, StampedeAssumption DEF FactoryReturns, At
  <2>4. CASE StaleFound(d)
    BY <1>5, <2>4 DEF StaleFound, At, PayloadInv
  <2> QED  BY <1>6, <2>1, <2>2, <2>3, <2>4 DEF Progress
<1>7. ASSUME NEW d \in Callers, Lock(d) \/ StaleReadFails(d)
      PROVE  flight'[c].value \in Blobs
  BY <1>3, <1>4, <1>7 DEF Lock, StaleReadFails
<1>8. ASSUME NEW d \in Callers, ConnectionLost(d)
      PROVE  flight'[c].value \in Blobs
  <2>1. flight[d] \in Flights
    BY <1>8, FlightType DEF ConnectionLost, InTransaction
  <2>2. flight'[c] = IF c = d THEN [flight[c] EXCEPT !.alive = FALSE]
                              ELSE flight[c]
    BY <1>8 DEF ConnectionLost, TypeOK
  <2>3. flight'[c].pc = flight[c].pc /\ flight'[c].value = flight[c].value
    BY <2>1, <2>2 DEF Flights
  <2> QED  BY <2>3 DEF PayloadInv, At
<1>9. CASE ServerCrash
  <2>1. flight[c].pc \in InTransaction => flight[c] \in Flights
    BY FlightType DEF InTransaction
  <2>2. flight'[c] = IF flight[c].pc \in InTransaction
                     THEN [flight[c] EXCEPT !.alive = FALSE] ELSE flight[c]
    BY <1>9 DEF ServerCrash
  <2>3. flight'[c].pc = flight[c].pc /\ flight'[c].value = flight[c].value
    BY <2>1, <2>2 DEF Flights
  <2> QED  BY <2>3 DEF PayloadInv, At
<1>10. ASSUME NEW k, \/ \E now \in 0 .. clock : OtherGet(k, now)
                     \/ \E o \in OptionChoices : OtherSet(k, o)
                     \/ OtherRemove(k)
       PROVE  flight'[c].value \in Blobs
  BY <1>1, <1>10 DEF OtherGet, OtherSet, OtherRemove
<1>11. CASE Scan \/ Tick \/ UNCHANGED vars
  BY <1>1, <1>11 DEF Scan, Tick, vars
<1> QED  BY <1>2, <1>6, <1>7, <1>8, <1>9, <1>10, <1>11 DEF Next

-----------------------------------------------------------------------------
(* The lock of a key and its owner. *)

LEMMA OwnerFlight ==
    ASSUME TypeOK, NEW c \in Callers, Owns(c)
    PROVE  flight[c] \in Flights /\ flight[c].key \in Keys
BY FlightType DEF Owns, Leading

(* No lock changes hands when ownership does not. *)
LEMMA LockKept ==
    ASSUME TypeOK, LockInv, UNCHANGED holder,
           \A c \in Callers : Owns(c)' = Owns(c),
           \A c \in Callers : Owns(c) => flight'[c].key = flight[c].key
    PROVE  LockInv'
BY StampedeAssumption DEF LockInv, TypeOK

LEMMA LockReleased ==
    ASSUME TypeOK, LockInv, NEW c \in Callers, Release(c), ~Owns(c)',
           \A d \in Callers \ {c} : flight'[d] = flight[d]
    PROVE  LockInv'
<1>1. \A d \in Callers \ {c} : Owns(d)' = Owns(d)
  BY DEF Owns
<1>2. \A k \in Keys : holder'[k] = IF holder[k] = c THEN Null ELSE holder[k]
  BY DEF Release
<1>3. ASSUME NEW d \in Callers, Owns(d)'
      PROVE  holder'[flight'[d].key] = d
  <2>1. d # c /\ Owns(d)
    BY <1>1, <1>3
  <2>2. flight[d].key \in Keys /\ holder[flight[d].key] = d
    BY <2>1, OwnerFlight DEF LockInv
  <2> QED  BY <1>2, <2>1, <2>2
<1>4. ASSUME NEW k \in Keys, holder'[k] # Null
      PROVE  Owns(holder[k])' /\ holder'[k] = holder[k] /\ flight'[holder[k]].key = k
  <2>1. holder[k] \in Callers \ {c} /\ holder'[k] = holder[k]
    BY <1>2, <1>4 DEF TypeOK
  <2>2. Owns(holder[k]) /\ flight[holder[k]].key = k
    BY <1>4, <2>1 DEF LockInv
  <2> QED  BY <1>1, <2>1, <2>2
<1> QED  BY <1>3, <1>4 DEF LockInv, Owns

LEMMA LockTaken ==
    ASSUME TypeOK, LockInv, NEW c \in Callers, Lock(c)
    PROVE  LockInv'
<1> DEFINE k == flight[c].key
<1>1. flight[c].pc = "locking" /\ flight[c] \in Flights /\ k \in Keys
  BY FlightType DEF Lock, At
<1>2. flight' = [flight EXCEPT ![c].pc = "checking"]
  BY DEF Lock, Advance
<1>3. flight'[c].key = k /\ Owns(c)'
  <2>1. flight'[c] = [flight[c] EXCEPT !.pc = "checking"]
    BY <1>2 DEF TypeOK
  <2>2. flight'[c].pc = "checking" /\ flight'[c].key = k
        /\ flight'[c].alive = flight[c].alive
    BY <1>1, <2>1 DEF Flights
  <2>3. flight[c].alive
    BY DEF Lock
  <2> QED  BY <2>2, <2>3 DEF Owns
<1>4. ASSUME NEW d \in Callers, d # c
      PROVE  flight'[d] = flight[d] /\ (Owns(d)' = Owns(d))
  BY <1>2, <1>4 DEF TypeOK, Owns
<1>5. holder[k] = Null /\ holder' = [holder EXCEPT ![k] = c]
  BY DEF Lock
<1>6. ~Owns(c)
  BY <1>1 DEF Owns, Leading
<1> HIDE DEF k
<1>7. ASSUME NEW d \in Callers, Owns(d)'
      PROVE  holder'[flight'[d].key] = d
  <2>1. CASE d = c
    BY <1>1, <1>3, <1>5, <2>1 DEF TypeOK
  <2>2. CASE d # c
    <3>1. /\ flight'[d] = flight[d] /\ flight[d].key \in Keys
          /\ holder[flight[d].key] = d
      BY <1>4, <1>7, <2>2, OwnerFlight DEF LockInv
    <3>2. flight[d].key # k
      BY <1>5, <3>1, StampedeAssumption
    <3> QED  BY <1>5, <3>1, <3>2 DEF TypeOK
  <2> QED  BY <2>1, <2>2
<1>8. ASSUME NEW j \in Keys, holder'[j] # Null
      PROVE  \E d \in Callers : holder'[j] = d /\ Owns(d)' /\ flight'[d].key = j
  <2>1. CASE j = k
    BY <1>1, <1>3, <1>5, <2>1 DEF TypeOK
  <2>2. CASE j # k
    <3>1. PICK d \in Callers : holder'[j] = d /\ holder[j] = d
      BY <1>5, <1>8, <2>2 DEF TypeOK
    <3>2. Owns(d) /\ flight[d].key = j
      BY <1>8, <3>1 DEF LockInv
    <3>3. d # c
      BY <1>6, <3>2
    <3> QED  BY <1>4, <3>1, <3>2, <3>3
  <2> QED  BY <2>1, <2>2
<1> QED  BY <1>7, <1>8 DEF LockInv, Owns

(* A caller advances without taking a lock or giving one up. *)
LEMMA LockAdvance ==
    ASSUME TypeOK, LockInv, NEW c \in Callers, NEW r,
           flight' = [flight EXCEPT ![c] = r], UNCHANGED holder,
           (r.pc \in {"checking"} \cup Leading /\ r.alive) = Owns(c),
           Owns(c) => r.key = flight[c].key
    PROVE  LockInv'
<1>1. \A d \in Callers : flight'[d] = IF d = c THEN r ELSE flight[d]
  BY DEF TypeOK
<1>2. \A d \in Callers : Owns(d)' = Owns(d)
  BY <1>1 DEF Owns
<1>3. \A d \in Callers : Owns(d) => flight'[d].key = flight[d].key
  BY <1>1
<1> QED  BY <1>2, <1>3, LockKept

LEMMA LockProgress ==
    ASSUME TypeOK, LockInv, NEW c \in Callers, Progress(c)
    PROVE  LockInv'
<1>1. flight[c] \in Flights
  BY FlightType DEF Progress, Connect, PoolTimeout, CheckHit, CheckMiss,
     FactoryReturns, FactoryRaises, FailoverCatches, StaleConnect, StaleFound,
     StaleMissing, Store, Doomed, At
<1>2. CASE Connect(c)
  <2> DEFINE r == [flight[c] EXCEPT !.pc = "locking"]
  <2>1. r.pc = "locking" /\ flight[c].pc = "connecting"
    BY <1>1, <1>2 DEF Flights, Connect, At
  <2>2. flight' = [flight EXCEPT ![c] = r] /\ UNCHANGED holder
    BY <1>2 DEF Connect, Advance
  <2> HIDE DEF r
  <2> QED  BY <2>1, <2>2, LockAdvance DEF Owns, Leading
<1>3. ASSUME NEW step \in Leading, Owns(c) = flight[c].alive,
             flight' = [flight EXCEPT ![c].pc = step], UNCHANGED holder
      PROVE  LockInv'
  <2> DEFINE r == [flight[c] EXCEPT !.pc = step]
  <2>1. r.pc = step /\ r.key = flight[c].key /\ r.alive = flight[c].alive
    BY <1>1 DEF Flights
  <2>2. flight[c].alive \in BOOLEAN
    BY <1>1 DEF Flights
  <2>3. flight' = [flight EXCEPT ![c] = r]
    BY <1>3
  <2> HIDE DEF r
  <2>4. (r.pc \in {"checking"} \cup Leading /\ r.alive) = Owns(c)
    BY <1>3, <2>1, <2>2
  <2> QED  BY <1>3, <2>1, <2>3, <2>4, LockAdvance
<1>4. ASSUME flight[c].pc \in {"checking"} \cup Leading
      PROVE  Owns(c) = flight[c].alive
  <2>1. flight[c].alive \in BOOLEAN
    BY <1>1 DEF Flights
  <2> QED  BY <1>4, <2>1 DEF Owns
<1>5. CASE CheckMiss(c)
  BY <1>3, <1>4, <1>5 DEF CheckMiss, Advance, At, Leading
<1>6. CASE FailoverCatches(c)
  BY <1>3, <1>4, <1>6 DEF FailoverCatches, Advance, At, Leading
<1>7. CASE StaleConnect(c)
  BY <1>3, <1>4, <1>7 DEF StaleConnect, Advance, At, Leading
<1>8. ASSUME NEW v, flight[c].pc \in Leading, UNCHANGED holder,
             flight' = [flight EXCEPT ![c].pc = "storing", ![c].value = v]
      PROVE  LockInv'
  <2> DEFINE q == [flight[c] EXCEPT !.pc = "storing"]
             r == [q EXCEPT !.value = v]
  <2>1. q \in Flights /\ q.pc = "storing" /\ q.key = flight[c].key
        /\ q.alive = flight[c].alive
    BY <1>1 DEF Flights, InTransaction
  <2>2. flight' = [flight EXCEPT ![c] = r]
    BY <1>8
  <2> HIDE DEF q
  <2>3. r.pc = "storing" /\ r.key = flight[c].key /\ r.alive = flight[c].alive
    BY <2>1 DEF Flights
  <2>4. flight[c].alive \in BOOLEAN
    BY <1>1 DEF Flights
  <2> HIDE DEF r
  <2>5. (r.pc \in {"checking"} \cup Leading /\ r.alive) = Owns(c)
    BY <1>4, <1>8, <2>3, <2>4 DEF Leading
  <2> QED  BY <1>8, <2>2, <2>3, <2>5, LockAdvance
<1>9. CASE FactoryReturns(c)
  <2>1. /\ flight[c].pc \in Leading /\ UNCHANGED holder
        /\ flight' = [flight EXCEPT ![c].pc = "storing", ![c].value = c]
    BY <1>9 DEF FactoryReturns, At, Leading
  <2> QED  BY <2>1, <1>8
<1>10. CASE StaleFound(c)
  <2> DEFINE v == table[flight[c].key].value
  <2>1. /\ flight[c].pc \in Leading /\ UNCHANGED holder
        /\ flight' = [flight EXCEPT ![c].pc = "storing", ![c].value = v]
    BY <1>10 DEF StaleFound, At, Leading
  <2> HIDE DEF v
  <2> QED  BY <2>1, <1>8
<1>11. ASSUME End(c) PROVE LockInv'
  <2>1. \A d \in Callers : flight'[d] = IF d = c THEN Idle ELSE flight[d]
    BY <1>11 DEF End, TypeOK
  <2>2. ~Owns(c)'
    BY <2>1 DEF Owns, Idle, Leading
  <2> QED  BY <1>11, <2>1, <2>2, LockReleased DEF End
<1>12. CASE \/ PoolTimeout(c)  \/ CheckHit(c) \/ FactoryRaises(c)
            \/ StaleMissing(c) \/ Doomed(c)   \/ Store(c)
  BY <1>11, <1>12 DEF PoolTimeout, CheckHit, FactoryRaises, StaleMissing, Doomed,
     Store, Leave
<1> QED  BY <1>2, <1>5, <1>6, <1>7, <1>9, <1>10, <1>12 DEF Progress

LEMMA LockStep == TypeOK /\ LockInv /\ [Next]_vars => LockInv'
<1> SUFFICES ASSUME TypeOK, LockInv, [Next]_vars PROVE LockInv'
  OBVIOUS
<1>1. ASSUME NEW c \in Callers, NEW k \in Keys, NEW o \in OptionChoices,
             NEW m \in Modes, Call(c, k, o, m)
      PROVE  LockInv'
  <2> DEFINE r == [pc |-> "connecting", key |-> k, options |-> o, mode |-> m,
                   now |-> clock, alive |-> TRUE, value |-> Null]
  <2>1. flight' = [flight EXCEPT ![c] = r] /\ UNCHANGED holder
    BY <1>1 DEF Call
  <2>2. r.pc = "connecting" /\ flight[c].pc = "idle"
    BY <1>1 DEF Call, At
  <2> HIDE DEF r
  <2> QED  BY <2>1, <2>2, LockAdvance DEF Owns, Leading
<1>2. ASSUME NEW c \in Callers, Progress(c) PROVE LockInv'
  BY <1>2, LockProgress
<1>3. ASSUME NEW c \in Callers, Lock(c) PROVE LockInv'
  BY <1>3, LockTaken
<1>4. ASSUME NEW c \in Callers, ConnectionLost(c) PROVE LockInv'
  <2>1. flight[c] \in Flights
    BY <1>4, FlightType DEF ConnectionLost, InTransaction
  <2>2. \A d \in Callers : flight'[d] = IF d = c
                                        THEN [flight[c] EXCEPT !.alive = FALSE]
                                        ELSE flight[d]
    BY <1>4 DEF ConnectionLost, TypeOK
  <2>3. ~flight'[c].alive
    BY <2>1, <2>2 DEF Flights
  <2> QED  BY <1>4, <2>2, <2>3, LockReleased DEF Owns, ConnectionLost
<1>5. ASSUME NEW c \in Callers, StaleReadFails(c) PROVE LockInv'
  <2>1. \A d \in Callers : flight'[d] = IF d = c THEN Idle ELSE flight[d]
    BY <1>5 DEF StaleReadFails, TypeOK
  <2>2. ~Owns(c)'
    BY <2>1 DEF Owns, Idle, Leading
  <2> QED  BY <1>5, <2>1, <2>2, LockReleased DEF StaleReadFails
<1>6. CASE ServerCrash
  <2>1. \A c \in Callers : flight[c].pc \in InTransaction => flight[c] \in Flights
    BY FlightType DEF InTransaction
  <2>2. \A c \in Callers : flight'[c] =
            IF flight[c].pc \in InTransaction
            THEN [flight[c] EXCEPT !.alive = FALSE] ELSE flight[c]
    BY <1>6 DEF ServerCrash
  <2>3. ASSUME NEW c \in Callers PROVE ~Owns(c)'
    <3>1. CASE flight[c].pc \in InTransaction
      <4>1. ~flight'[c].alive
        BY <2>1, <2>2, <3>1 DEF Flights
      <4> QED  BY <4>1 DEF Owns
    <3>2. CASE flight[c].pc \notin InTransaction
      BY <2>2, <3>2 DEF Owns, InTransaction, Leading
    <3> QED  BY <3>1, <3>2
  <2>4. \A k \in Keys : holder'[k] = Null
    BY <1>6 DEF ServerCrash
  <2> QED  BY <2>3, <2>4 DEF LockInv
<1>7. ASSUME UNCHANGED <<flight, holder>> PROVE LockInv'
  BY <1>7 DEF LockInv, Owns
<1>8. ASSUME NEW k, \/ \E now \in 0 .. clock : OtherGet(k, now)
                    \/ \E o \in OptionChoices : OtherSet(k, o)
                    \/ OtherRemove(k)
      PROVE  LockInv'
  BY <1>7, <1>8 DEF OtherGet, OtherSet, OtherRemove
<1>9. CASE Scan \/ Tick \/ UNCHANGED vars
  BY <1>7, <1>9 DEF Scan, Tick, vars
<1> QED  BY <1>1, <1>2, <1>3, <1>4, <1>5, <1>6, <1>8, <1>9 DEF Next

LEMMA InvInductive == Spec => []Inv
<1>1. Init => Inv
  BY DEF Init, Inv, TypeOK, LockInv, PayloadInv, IsTable, Owns, Leading, Idle, At
<1>2. Inv /\ [Next]_vars => Inv'
  BY TypeStep, PayloadStep, LockStep DEF Inv
<1> QED  BY <1>1, <1>2, PTL DEF Spec

(* Every reachable state of every instance is well typed: no None is ever  *)
(* stored, and the instants and options of a call survive its faults.      *)
THEOREM TypeCorrect == Spec => []TypeOK
BY InvInductive, PTL DEF Inv

(* One open transaction per key between its double-check and its commit,   *)
(* for any number of callers, keys, connections and faults: each owner of  *)
(* the key is the one holder of its lock.                                  *)
THEOREM SingleOwner == Spec => []OneFlightPerKey
<1>1. Inv => OneFlightPerKey
  BY DEF Inv, LockInv, Owns, OneFlightPerKey, Authorised
<1> QED  BY <1>1, InvInductive, PTL

-----------------------------------------------------------------------------
(* No computation is wasted. *)

(* A step of one caller touches no other flight. *)
LEMMA OtherFlights ==
    ASSUME TypeOK, NEW c \in Callers, NEW d \in Callers \ {c},
           \/ \E k \in Keys, o \in OptionChoices, m \in Modes : Call(d, k, o, m)
           \/ Progress(d) \/ Lock(d) \/ ConnectionLost(d) \/ StaleReadFails(d)
    PROVE  flight'[c] = flight[c]
BY DEF TypeOK, Call, Progress, Connect, Advance, PoolTimeout, Leave, End, CheckHit,
   CheckMiss, FactoryReturns, FactoryRaises, FailoverCatches, StaleConnect,
   StaleFound, StaleMissing, Store, Doomed, Lock, ConnectionLost, StaleReadFails

(* A caller that leads was leading the same flight before, or its check    *)
(* has just missed.                                                        *)
LEMMA LeaderKept ==
    ASSUME TypeOK, [Next]_vars, NEW c \in Callers, flight'[c].pc \in Leading
    PROVE  /\ flight[c].pc \in Leading \/ CheckMiss(c)
           /\ flight'[c].key = flight[c].key
           /\ flight'[c].now = flight[c].now
           /\ flight'[c].alive => flight[c].alive
<1> DEFINE Kept == /\ flight'[c].key = flight[c].key
                   /\ flight'[c].now = flight[c].now
                   /\ flight'[c].alive => flight[c].alive
<1>1. CASE flight'[c] = flight[c]
  BY <1>1
<1>2. ASSUME NEW k \in Keys, NEW o \in OptionChoices, NEW m \in Modes,
             Call(c, k, o, m)
      PROVE  FALSE
  BY <1>2 DEF Call, TypeOK, Leading
<1>3. ASSUME NEW step, flight[c] \in Flights,
             flight' = [flight EXCEPT ![c].pc = step]
      PROVE  Kept /\ flight'[c].pc = step
  <2>1. flight'[c] = [flight[c] EXCEPT !.pc = step]
    BY <1>3 DEF TypeOK
  <2> QED  BY <1>3, <2>1 DEF Flights
<1>4. ASSUME NEW v, flight[c] \in Flights,
             flight' = [flight EXCEPT ![c].pc = "storing", ![c].value = v]
      PROVE  Kept
  <2> DEFINE q == [flight[c] EXCEPT !.pc = "storing"]
  <2>1. q \in Flights /\ q.key = flight[c].key /\ q.now = flight[c].now
        /\ q.alive = flight[c].alive
    BY <1>4 DEF Flights, InTransaction
  <2>2. flight'[c] = [q EXCEPT !.value = v]
    BY <1>4 DEF TypeOK
  <2> HIDE DEF q
  <2> QED  BY <2>1, <2>2 DEF Flights
<1>5. ASSUME flight' = [flight EXCEPT ![c] = Idle]
      PROVE  FALSE
  BY <1>5 DEF TypeOK, Idle, Leading
<1>6. flight[c].pc # "idle" => flight[c] \in Flights
  BY FlightType
<1> HIDE DEF Kept
<1>7. ASSUME Progress(c)
      PROVE  Kept /\ (flight[c].pc \in Leading \/ CheckMiss(c))
  <2>1. CASE Connect(c)
    <3>1. flight'[c].pc = "locking"
      BY <1>3, <1>6, <2>1 DEF Connect, Advance, At
    <3> QED  BY <3>1 DEF Leading
  <2>2. CASE CheckMiss(c)
    <3>1. Kept
      BY <1>3, <1>6, <2>2 DEF CheckMiss, Advance, At
    <3> QED  BY <2>2, <3>1
  <2>3. CASE FailoverCatches(c)
    <3>1. flight[c].pc = "computing"
          /\ flight' = [flight EXCEPT ![c].pc = "stale_connecting"]
      BY <2>3 DEF FailoverCatches, Advance, At
    <3> QED  BY <1>3, <1>6, <3>1 DEF Leading
  <2>4. CASE StaleConnect(c)
    <3>1. flight[c].pc = "stale_connecting"
          /\ flight' = [flight EXCEPT ![c].pc = "stale_reading"]
      BY <2>4 DEF StaleConnect, Advance, At
    <3> QED  BY <1>3, <1>6, <3>1 DEF Leading
  <2>5. CASE FactoryReturns(c)
    <3>1. flight[c].pc = "computing"
          /\ flight' = [flight EXCEPT ![c].pc = "storing", ![c].value = c]
      BY <2>5 DEF FactoryReturns, At
    <3> QED  BY <1>4, <1>6, <3>1 DEF Leading
  <2>6. CASE StaleFound(c)
    <3> DEFINE v == table[flight[c].key].value
    <3>1. flight[c].pc = "stale_reading"
          /\ flight' = [flight EXCEPT ![c].pc = "storing", ![c].value = v]
      BY <2>6 DEF StaleFound, At
    <3> HIDE DEF v
    <3> QED  BY <1>4, <1>6, <3>1 DEF Leading
  <2>7. CASE \/ PoolTimeout(c)  \/ CheckHit(c) \/ FactoryRaises(c)
             \/ StaleMissing(c) \/ Doomed(c)   \/ Store(c)
    BY <1>5, <2>7 DEF PoolTimeout, CheckHit, FactoryRaises, StaleMissing, Doomed,
       Store, Leave, End
  <2> QED  BY <1>7, <2>1, <2>2, <2>3, <2>4, <2>5, <2>6, <2>7 DEF Progress
<1>8. ASSUME Lock(c) PROVE FALSE
  <2>1. flight'[c].pc = "checking"
    BY <1>3, <1>6, <1>8 DEF Lock, Advance, At
  <2> QED  BY <2>1 DEF Leading
<1>9. ASSUME ConnectionLost(c) \/ ServerCrash
      PROVE  Kept /\ flight[c].pc \in Leading
  <2>1. \/ flight'[c] = flight[c]
        \/ /\ flight[c].pc \in InTransaction
           /\ flight'[c] = [flight[c] EXCEPT !.alive = FALSE]
    BY <1>9 DEF ConnectionLost, ServerCrash, TypeOK
  <2> QED  BY <1>6, <2>1 DEF Kept, Flights, InTransaction
<1>10. ASSUME StaleReadFails(c) PROVE FALSE
  BY <1>5, <1>10 DEF StaleReadFails
<1>11. ASSUME NEW d \in Callers \ {c},
              \/ \E k \in Keys, o \in OptionChoices, m \in Modes : Call(d, k, o, m)
              \/ Progress(d) \/ Lock(d) \/ ConnectionLost(d) \/ StaleReadFails(d)
       PROVE  flight'[c] = flight[c]
  BY <1>11, OtherFlights
<1>12. ASSUME NEW k, \/ \E now \in 0 .. clock : OtherGet(k, now)
                     \/ \E o \in OptionChoices : OtherSet(k, o)
                     \/ OtherRemove(k)
       PROVE  flight'[c] = flight[c]
  BY <1>12 DEF OtherGet, OtherSet, OtherRemove
<1>13. CASE Scan \/ Tick \/ UNCHANGED vars
  BY <1>1, <1>13 DEF Scan, Tick, vars
<1> QED  BY <1>1, <1>2, <1>7, <1>8, <1>9, <1>10, <1>11, <1>12, <1>13 DEF Next, Kept

(* Behind the leader of k the row of k may only vanish, be replaced by a   *)
(* value no call computed, or have its sliding window renewed.             *)
LEMMA RowBehindLeader ==
    ASSUME Inv, [Next]_vars, NEW c \in Callers, NEW k \in DOMAIN table',
           Owns(c), flight[c].key = k, flight'[c].pc \in Leading
    PROVE  \/ table'[k].value \notin Callers
           \/ table'[k].sliding # Null
           \/ k \in DOMAIN table /\ table'[k] = table[k]
<1> DEFINE Goal == \/ table'[k].value \notin Callers
                   \/ table'[k].sliding # Null
                   \/ k \in DOMAIN table /\ table'[k] = table[k]
<1>1. CASE UNCHANGED table
  BY <1>1
<1>2. ASSUME NEW d \in Callers, Store(d) PROVE Goal
  <2>1. d # c
    BY <1>2 DEF Inv, TypeOK, Store, End, Idle, Leading
  <2>2. Owns(d)
    BY <1>2 DEF Store, At, Owns, Leading
  <2>3. flight[d].key # k
    BY <2>1, <2>2 DEF Inv, LockInv
  <2>4. table' = set_item(table, [x \in {flight[d].key} |-> StoredRow(d)])
    BY <1>2 DEF Store
  <2> QED  BY <2>3, <2>4 DEF set_item
<1>3. ASSUME NEW j \in Keys, NEW now, OtherGet(j, now) PROVE Goal
  <2>1. k \in DOMAIN table /\ table[k] \in Row
    BY <1>3 DEF OtherGet, get_items, Inv, TypeOK, IsTable
  <2>2. table'[k] \in {table[k], renewed(table[k], now)}
    BY <1>3, <2>1 DEF OtherGet, get_items
  <2> QED  BY <2>1, <2>2, RenewedValue
<1>4. ASSUME NEW j \in Keys, NEW o, OtherSet(j, o) PROVE Goal
  <2> DEFINE row == new_row(Plain, IF o = Null THEN default_options ELSE o, clock)
  <2>1. row.value \notin Callers
    BY StampedeAssumption DEF new_row
  <2>2. table' = set_item(table, [x \in {j} |-> row])
    BY <1>4 DEF OtherSet
  <2> HIDE DEF row
  <2> QED  BY <2>1, <2>2 DEF set_item
<1>5. ASSUME NEW ks, table' = remove_item(table, ks) PROVE Goal
  BY <1>5 DEF remove_item, Restrict
<1>6. ASSUME NEW j \in Keys, OtherRemove(j) PROVE Goal
  BY <1>5, <1>6 DEF OtherRemove
<1>7. CASE Scan
  BY <1>5, <1>7 DEF Scan, delete_expired
<1>8. CASE ServerCrash
  BY <1>8 DEF ServerCrash
<1>9. ASSUME NEW d \in Callers,
             \/ \E j \in Keys, o \in OptionChoices, m \in Modes : Call(d, j, o, m)
             \/ Progress(d) /\ ~Store(d)
             \/ Lock(d) \/ ConnectionLost(d) \/ StaleReadFails(d)
      PROVE  UNCHANGED table
  BY <1>9, CallersKeepTable
<1>10. CASE Tick \/ UNCHANGED vars
  BY <1>1, <1>10 DEF Tick, vars
<1> QED  BY <1>1, <1>2, <1>3, <1>4, <1>6, <1>7, <1>8, <1>9, <1>10 DEF Next

LEMMA WasteStep == Inv /\ NoComputationWasted /\ [Next]_vars => NoComputationWasted'
<1> SUFFICES ASSUME Inv, NoComputationWasted, [Next]_vars, NEW c \in Callers,
                    NEW k \in DOMAIN table', Authorised(c, k)'
             PROVE  \/ table'[k].value \notin Callers
                    \/ table'[k].sliding # Null
                    \/ Expired(table'[k], flight'[c].now)
  BY DEF NoComputationWasted, Expired, Live
<1>1. /\ flight[c].pc \in Leading \/ CheckMiss(c)
      /\ flight[c].key = k /\ flight[c].alive
      /\ flight'[c].now = flight[c].now /\ flight'[c].pc \in Leading
  BY LeaderKept DEF Inv, Authorised
<1>2. Owns(c)
  BY <1>1 DEF Owns, CheckMiss, At
<1>3. \/ table'[k].value \notin Callers
      \/ table'[k].sliding # Null
      \/ k \in DOMAIN table /\ table'[k] = table[k]
  BY <1>1, <1>2, RowBehindLeader
<1>4. ASSUME k \in DOMAIN table
      PROVE  \/ table[k].value \notin Callers
             \/ table[k].sliding # Null
             \/ Expired(table[k], flight[c].now)
  <2>1. CASE CheckMiss(c)
    BY <1>1, <1>4, <2>1 DEF CheckMiss, Found, Expired
  <2>2. CASE flight[c].pc \in Leading
    BY <1>1, <1>4, <2>2 DEF NoComputationWasted, Authorised
  <2> QED  BY <1>1, <2>1, <2>2
<1> QED  BY <1>1, <1>3, <1>4

(* While an open transaction computes, no live value of another call is in *)
(* the table, for any number of callers and faults: the double-check and   *)
(* the lock together leave no room for a second computation.               *)
THEOREM NothingWasted == Spec => []NoComputationWasted
<1>1. Init => NoComputationWasted
  BY DEF Init, NoComputationWasted
<1> QED  BY <1>1, WasteStep, InvInductive, PTL DEF Spec

-----------------------------------------------------------------------------
(* Stampede implements SingleFlight. *)

LEMMA Members ==
    TypeOK => \A c \in Callers, k \in Keys :
                  c \in members[k] <=> flight[c].pc # "idle" /\ flight[c].key = k
<1> SUFFICES ASSUME TypeOK, NEW c \in Callers, NEW k \in Keys
             PROVE  c \in members[k] <=> flight[c].pc # "idle" /\ flight[c].key = k
  OBVIOUS
<1>1. flight[c] # Idle <=> flight[c].pc # "idle"
  BY DEF TypeOK, Flights, InTransaction, Idle
<1> QED  BY <1>1 DEF members, InFlight

LEMMA Leaders ==
    TypeOK /\ LockInv => \A k \in Keys :
        /\ leader[k] \in Callers \cup {Null}
        /\ \A c \in Callers : leader[k] = c <=> Authorised(c, k)
<1> SUFFICES ASSUME TypeOK, LockInv, NEW k \in Keys
             PROVE  /\ leader[k] \in Callers \cup {Null}
                    /\ \A c \in Callers : leader[k] = c <=> Authorised(c, k)
  OBVIOUS
<1>1. ASSUME NEW c \in Callers, Authorised(c, k) PROVE leader[k] = c
  <2>1. holder[k] = c
    BY <1>1 DEF LockInv, Owns, Authorised
  <2> QED  BY <1>1, <2>1, StampedeAssumption DEF leader, Authorised
<1>2. ASSUME NEW c \in Callers, leader[k] = c PROVE Authorised(c, k)
  <2>1. holder[k] = c /\ flight[c].pc \in Leading
    BY <1>2, StampedeAssumption DEF leader
  <2> QED  BY <2>1, StampedeAssumption DEF LockInv, Owns, Authorised
<1>3. leader[k] \in Callers \cup {Null}
  BY DEF leader, TypeOK
<1> QED  BY <1>1, <1>2, <1>3

(* What a step does to the abstract state, from what it does to flights.   *)

LEMMA MembersNext ==
    TypeOK' => \A c \in Callers, k \in Keys :
                   c \in members'[k] <=> flight'[c].pc # "idle" /\ flight'[c].key = k
<1>1. (TypeOK => \A c \in Callers, k \in Keys :
                     c \in members[k] <=> flight[c].pc # "idle" /\ flight[c].key = k)'
  BY Members, PTL
<1> QED  BY <1>1

LEMMA LeadersNext ==
    TypeOK' /\ LockInv' => \A k \in Keys :
        /\ leader'[k] \in Callers \cup {Null}
        /\ \A c \in Callers : leader'[k] = c <=> Authorised(c, k)'
<1>1. (TypeOK /\ LockInv => \A k \in Keys :
          /\ leader[k] \in Callers \cup {Null}
          /\ \A c \in Callers : leader[k] = c <=> Authorised(c, k))'
  BY Leaders, PTL
<1> QED  BY <1>1

LEMMA MembersShape ==
    /\ members = [k \in Keys |-> members[k]]
    /\ \A k \in Keys : members[k] \subseteq Callers
BY DEF members, InFlight

LEMMA MembersKept ==
    ASSUME TypeOK, TypeOK',
           \A c \in Callers : /\ flight[c].pc = "idle" <=> flight'[c].pc = "idle"
                              /\ flight[c].pc # "idle" => flight'[c].key = flight[c].key
    PROVE  members' = members
<1>1. \A k \in Keys, c \in Callers : c \in members'[k] <=> c \in members[k]
  BY Members, MembersNext
<1>2. /\ members' = [k \in Keys |-> members'[k]]
      /\ \A k \in Keys : members'[k] \subseteq Callers
  BY DEF members, InFlight
<1>3. \A k \in Keys : members'[k] = members[k]
  BY <1>1, <1>2, MembersShape
<1> QED  BY <1>2, <1>3, MembersShape

LEMMA LeadersShape ==
    /\ leader = [k \in Keys |-> leader[k]]
    /\ leader' = [k \in Keys |-> leader'[k]]
BY DEF leader

LEMMA LeadersKept ==
    ASSUME TypeOK, TypeOK', LockInv, LockInv',
           \A c \in Callers, k \in Keys : Authorised(c, k)' <=> Authorised(c, k)
    PROVE  leader' = leader
<1>1. \A k \in Keys : leader'[k] = leader[k]
  BY Leaders, LeadersNext
<1> QED  BY <1>1, LeadersShape

(* A call that ends leaves its key, and steps down if it led.              *)
LEMMA Leaving ==
    ASSUME TypeOK, TypeOK', LockInv, LockInv', NEW c \in Callers,
           flight[c].pc # "idle", flight' = [flight EXCEPT ![c] = Idle]
    PROVE  LET k == flight[c].key
           IN  /\ k \in Keys
               /\ c \in members[k]
               /\ members' = [members EXCEPT ![k] = @ \ {c}]
               /\ leader' = [leader EXCEPT ![k] = IF @ = c THEN Null ELSE @]
<1> DEFINE k == flight[c].key
<1>1. k \in Keys /\ c \in members[k]
  BY FlightType, Members
<1>2. /\ flight'[c].pc = "idle"
      /\ \A d \in Callers : d # c => flight'[d] = flight[d]
  BY DEF TypeOK, Idle
<1>3. members' = [members EXCEPT ![k] = @ \ {c}]
  <2>1. \A j \in Keys, d \in Callers :
            d \in members'[j] <=> d \in members[j] /\ d # c
    BY <1>2, Members, MembersNext
  <2>2. /\ members' = [j \in Keys |-> members'[j]]
        /\ \A j \in Keys : members'[j] \subseteq Callers
    BY DEF members, InFlight
  <2>3. \A j \in Keys : j # k => c \notin members[j]
    BY Members
  <2>4. \A j \in Keys : members'[j] = IF j = k THEN members[j] \ {c} ELSE members[j]
    BY <2>1, <2>2, <2>3, MembersShape
  <2> HIDE DEF k
  <2> QED  BY <2>2, <2>4, MembersShape
<1>4. leader' = [leader EXCEPT ![k] = IF @ = c THEN Null ELSE @]
  <2>1. \A j \in Keys, d \in Callers :
            Authorised(d, j)' <=> Authorised(d, j) /\ d # c
    BY <1>2 DEF Authorised, Leading
  <2>2. \A j \in Keys : leader[j] = c => j = k
    BY Leaders DEF Authorised
  <2>3. \A j \in Keys : leader'[j] = IF leader[j] = c THEN Null ELSE leader[j]
    BY <2>1, Leaders, LeadersNext, StampedeAssumption
  <2> HIDE DEF k
  <2>4. \A j \in Keys : leader'[j] =
            IF j = k THEN IF leader[j] = c THEN Null ELSE leader[j] ELSE leader[j]
    BY <2>2, <2>3
  <2> QED  BY <2>4, LeadersShape
<1> QED  BY <1>1, <1>3, <1>4

LEMMA EntryKept == ASSUME UNCHANGED table PROVE entry' = entry
BY DEF entry

LEMMA WaitingKept ==
    ASSUME \A c \in Callers : Waits(c)' <=> Waits(c)
    PROVE  waiting' = waiting
BY DEF waiting

(* A call that waits no longer, if it did. *)
LEMMA WaitingLeft ==
    ASSUME NEW c \in Callers, ~Waits(c)',
           \A d \in Callers \ {c} : flight'[d] = flight[d]
    PROVE  waiting' = waiting \ {c}
<1>1. \A d \in Callers \ {c} : Waits(d)' <=> Waits(d)
  BY DEF Waits
<1> QED  BY <1>1 DEF waiting

(* The call of c ends with an exception, and not in the queue: GiveUp. *)
LEMMA LeaveRefines ==
    ASSUME Inv, Inv', NEW c \in Callers, flight[c].pc # "idle",
           ~Waits(c), flight' = [flight EXCEPT ![c] = Idle], UNCHANGED table
    PROVE  Abstract!Next
<1> DEFINE k == flight[c].key
<1>1. /\ k \in Keys /\ c \in members[k]
      /\ members' = [members EXCEPT ![k] = @ \ {c}]
      /\ leader' = [leader EXCEPT ![k] = IF @ = c THEN Null ELSE @]
  BY Leaving DEF Inv
<1>2. c \notin waiting /\ waiting' = waiting
  <2>1. c \notin waiting
    BY DEF waiting
  <2>2. ~Waits(c)' /\ \A d \in Callers \ {c} : flight'[d] = flight[d]
    BY DEF Waits, Idle, Inv, TypeOK
  <2> QED  BY <2>1, <2>2, WaitingLeft
<1>3. Abstract!GiveUp(c, k)
  BY <1>1, <1>2, EntryKept DEF Abstract!GiveUp, Abstract!Leave
<1> HIDE DEF k
<1> QED  BY <1>1, <1>3 DEF Abstract!Next

LEMMA CheckHitRefines ==
    ASSUME Inv, Inv', NEW c \in Callers, CheckHit(c)
    PROVE  Abstract!Next
<1> DEFINE k == flight[c].key
<1>1. flight[c].pc = "checking" /\ flight[c].alive /\ k \in DOMAIN table
  BY DEF CheckHit, At, Found
<1>2. flight' = [flight EXCEPT ![c] = Idle] /\ UNCHANGED table
  BY DEF CheckHit, Leave, End
<1>3. /\ k \in Keys /\ c \in members[k]
      /\ members' = [members EXCEPT ![k] = @ \ {c}]
      /\ leader' = [leader EXCEPT ![k] = IF @ = c THEN Null ELSE @]
  BY <1>1, <1>2, Leaving DEF Inv
<1>4. leader[k] = Null
  <2>1. holder[k] = c
    BY <1>1 DEF Inv, LockInv, Owns
  <2> QED  BY <1>1, <1>3, <2>1 DEF leader, Leading
<1>5. leader' = leader
  BY <1>3, <1>4, LeadersShape, StampedeAssumption
<1>6. entry[k] # Null
  BY <1>1, <1>3, StampedeAssumption DEF entry, Inv, PayloadInv
<1>7. c \in waiting /\ waiting' = waiting \ {c}
  <2>1. c \in waiting
    BY <1>1 DEF waiting, Waits
  <2>2. ~Waits(c)' /\ \A d \in Callers \ {c} : flight'[d] = flight[d]
    BY <1>2 DEF Waits, Idle, Inv, TypeOK
  <2> QED  BY <2>1, <2>2, WaitingLeft
<1>8. Abstract!Serve(c, k)
  BY <1>2, <1>3, <1>4, <1>5, <1>6, <1>7, EntryKept
  DEF Abstract!Serve, Abstract!Leave
<1> HIDE DEF k
<1> QED  BY <1>3, <1>8 DEF Abstract!Next

LEMMA StoreRefines ==
    ASSUME Inv, Inv', NEW c \in Callers, Store(c)
    PROVE  Abstract!Next
<1> DEFINE k == flight[c].key
           v == flight[c].value
<1>1. flight[c].pc = "storing" /\ flight[c].alive /\ v \in Blobs
  BY DEF Store, At, Inv, PayloadInv
<1>2. /\ flight' = [flight EXCEPT ![c] = Idle]
      /\ table' = set_item(table, [x \in {k} |-> StoredRow(c)])
  BY DEF Store, End
<1>3. /\ k \in Keys /\ c \in members[k]
      /\ members' = [members EXCEPT ![k] = @ \ {c}]
      /\ leader' = [leader EXCEPT ![k] = IF @ = c THEN Null ELSE @]
  BY <1>1, <1>2, Leaving DEF Inv
<1>4. leader[k] = c
  BY <1>1, <1>3, Leaders DEF Inv, Authorised, Leading
<1>5. leader' = [leader EXCEPT ![k] = Null]
  BY <1>3, <1>4, LeadersShape
<1>6. entry' = [entry EXCEPT ![k] = v]
  <2>1. StoredRow(c).value = v
    BY DEF StoredRow, new_row
  <2> HIDE DEF k, v
  <2>2. \A j \in Keys : entry'[j] = IF j = k THEN v ELSE entry[j]
    BY <1>2, <2>1 DEF entry, set_item
  <2> QED  BY <2>2 DEF entry
<1>7. waiting' = waiting
  <2>1. \A d \in Callers : flight'[d] = IF d = c THEN Idle ELSE flight[d]
    BY <1>2 DEF Inv, TypeOK
  <2>2. \A d \in Callers : Waits(d)' <=> Waits(d)
    BY <1>1, <2>1 DEF Waits, Idle
  <2> QED  BY <2>2, WaitingKept
<1> HIDE DEF k, v
<1>8. Abstract!Publish(c, k, v)
  BY <1>3, <1>4, <1>5, <1>6, <1>7 DEF Abstract!Publish, Abstract!Leave
<1> QED  BY <1>1, <1>3, <1>8 DEF Abstract!Next

LEMMA CheckMissRefines ==
    ASSUME Inv, Inv', NEW c \in Callers, CheckMiss(c)
    PROVE  Abstract!Next
<1> DEFINE k == flight[c].key
           r == [flight[c] EXCEPT !.pc = "computing"]
<1>1. /\ flight[c].pc = "checking" /\ flight[c].alive
      /\ flight[c] \in Flights /\ k \in Keys
  BY FlightType DEF CheckMiss, At, Inv
<1>2. r.pc = "computing" /\ r.key = k /\ r.alive = flight[c].alive
  BY <1>1 DEF Flights
<1>3. /\ UNCHANGED table
      /\ \A d \in Callers : flight'[d] = IF d = c THEN r ELSE flight[d]
  BY DEF CheckMiss, Advance, Inv, TypeOK
<1> HIDE DEF k, r
<1>4. members' = members
  BY <1>1, <1>2, <1>3, MembersKept DEF Inv, k
<1>5. c \in members[k]
  BY <1>1, Members DEF Inv, k
<1>6. \A d \in Callers : ~Authorised(d, k)
  <2>1. ASSUME NEW d \in Callers, Authorised(d, k) PROVE d = c
    BY <1>1, <2>1 DEF Inv, LockInv, Owns, Authorised, k
  <2>2. ~Authorised(c, k)
    BY <1>1 DEF Authorised, Leading
  <2> QED  BY <2>1, <2>2
<1>7. leader[k] = Null
  BY <1>1, <1>6, Leaders DEF Inv
<1>8. leader' = [leader EXCEPT ![k] = c]
  <2>1. \A j \in Keys : j = k => Authorised(c, j)'
    BY <1>1, <1>2, <1>3 DEF Authorised, Leading
  <2>2. leader'[k] = c
    BY <1>1, <2>1, LeadersNext DEF Inv
  <2>3. ASSUME NEW j \in Keys \ {k}
        PROVE  leader'[j] = leader[j]
    <3>1. \A d \in Callers : Authorised(d, j)' <=> Authorised(d, j)
      BY <1>1, <1>2, <1>3 DEF Authorised, k
    <3> QED  BY <3>1, Leaders, LeadersNext DEF Inv
  <2> QED  BY <1>1, <2>2, <2>3, LeadersShape
<1>9. c \in waiting /\ waiting' = waiting \ {c}
  <2>1. c \in waiting
    BY <1>1 DEF waiting, Waits
  <2>2. ~Waits(c)' /\ \A d \in Callers \ {c} : flight'[d] = flight[d]
    BY <1>2, <1>3 DEF Waits
  <2> QED  BY <2>1, <2>2, WaitingLeft
<1>10. Abstract!Lead(c, k)
  BY <1>3, <1>4, <1>5, <1>7, <1>8, <1>9, EntryKept DEF Abstract!Lead
<1> QED  BY <1>1, <1>10 DEF Abstract!Next

LEMMA CallRefines ==
    ASSUME Inv, Inv', NEW c \in Callers, NEW k \in Keys, NEW o, NEW m,
           Call(c, k, o, m)
    PROVE  Abstract!Next
<1>1. flight[c].pc = "idle" /\ UNCHANGED table
  BY DEF Call, At
<1>2. /\ flight'[c].pc = "connecting" /\ flight'[c].key = k
      /\ \A d \in Callers \ {c} : flight'[d] = flight[d]
  BY DEF Call, Inv, TypeOK
<1>3. \A j \in Keys : c \notin members[j]
  BY <1>1, Members DEF Inv
<1>4. members' = [members EXCEPT ![k] = @ \cup {c}]
  <2>1. \A j \in Keys, d \in Callers :
            d \in members'[j] <=> d \in members[j] \/ (d = c /\ j = k)
    BY <1>1, <1>2, Members, MembersNext DEF Inv
  <2>2. /\ members' = [j \in Keys |-> members'[j]]
        /\ \A j \in Keys : members'[j] \subseteq Callers
    BY DEF members, InFlight
  <2>3. \A j \in Keys :
            members'[j] = IF j = k THEN members[j] \cup {c} ELSE members[j]
    BY <2>1, <2>2, MembersShape
  <2> QED  BY <2>2, <2>3, MembersShape
<1>5. leader' = leader
  <2>1. \A d \in Callers, j \in Keys : Authorised(d, j)' <=> Authorised(d, j)
    BY <1>1, <1>2 DEF Authorised, Leading
  <2> QED  BY <2>1, LeadersKept DEF Inv
<1>6. waiting' = waiting
  <2>1. \A d \in Callers : Waits(d)' <=> Waits(d)
    BY <1>1, <1>2 DEF Waits
  <2> QED  BY <2>1, WaitingKept
<1>7. Abstract!Join(c, k)
  BY <1>1, <1>3, <1>4, <1>5, <1>6, EntryKept DEF Abstract!Join
<1> QED  BY <1>7 DEF Abstract!Next

(* A call that has its connection waits for the lock. *)
LEMMA ConnectRefines ==
    ASSUME Inv, Inv', NEW c \in Callers, Connect(c)
    PROVE  Abstract!Next \/ UNCHANGED <<members, leader, waiting, entry>>
<1> DEFINE k == flight[c].key
           r == [flight[c] EXCEPT !.pc = "locking"]
<1>1. flight[c].pc = "connecting" /\ flight[c] \in Flights /\ k \in Keys
  BY FlightType DEF Connect, At, Inv
<1>2. r.pc = "locking" /\ r.key = k /\ r.alive = flight[c].alive
  BY <1>1 DEF Flights
<1>3. /\ UNCHANGED table
      /\ \A d \in Callers : flight'[d] = IF d = c THEN r ELSE flight[d]
  BY DEF Connect, Advance, Inv, TypeOK
<1> HIDE DEF k, r
<1>4. members' = members /\ c \in members[k]
  BY <1>1, <1>2, <1>3, MembersKept, Members DEF Inv, k
<1>5. leader' = leader
  <2>1. \A d \in Callers, j \in Keys : Authorised(d, j)' <=> Authorised(d, j)
    BY <1>1, <1>2, <1>3 DEF Authorised, Leading
  <2> QED  BY <2>1, LeadersKept DEF Inv
<1>6. leader[k] # c
  BY <1>1, Leaders DEF Inv, Authorised, Leading
<1>7. \A d \in Callers \ {c} : Waits(d)' <=> Waits(d)
  BY <1>3 DEF Waits
<1>8. ~Waits(c) /\ (Waits(c)' <=> flight[c].alive)
  BY <1>1, <1>2, <1>3 DEF Waits
<1>9. CASE flight[c].alive
  <2>1. waiting' = waiting \cup {c}
    BY <1>7, <1>8, <1>9 DEF waiting
  <2>2. Abstract!Wait(c, k)
    BY <1>3, <1>4, <1>5, <1>6, <2>1, EntryKept DEF Abstract!Wait
  <2> QED  BY <1>1, <2>2 DEF Abstract!Next
<1>10. CASE ~flight[c].alive
  <2>1. waiting' = waiting
    BY <1>7, <1>8, <1>10, WaitingKept
  <2> QED  BY <1>3, <1>4, <1>5, <2>1, EntryKept
<1> QED  BY <1>9, <1>10

(* Steps SingleFlight does not see. *)
LEMMA AdvanceRefines ==
    ASSUME Inv, Inv', NEW c \in Callers, NEW pc,
           flight[c] \in Flights, pc # "idle",
           flight'[c].pc = pc, flight'[c].key = flight[c].key,
           flight'[c].alive = flight[c].alive,
           \A d \in Callers \ {c} : flight'[d] = flight[d],
           pc \in Leading <=> flight[c].pc \in Leading,
           pc \in {"locking", "checking"} <=> flight[c].pc \in {"locking", "checking"},
           UNCHANGED table
    PROVE  UNCHANGED <<members, leader, waiting, entry>>
<1>1. flight[c].pc # "idle"
  BY DEF Flights, InTransaction
<1>2. members' = members
  BY <1>1, MembersKept DEF Inv
<1>3. \A d \in Callers, k \in Keys : Authorised(d, k)' <=> Authorised(d, k)
  BY DEF Authorised
<1>4. leader' = leader
  BY <1>3, LeadersKept DEF Inv
<1>5. waiting' = waiting
  <2>1. \A d \in Callers : Waits(d)' <=> Waits(d)
    BY DEF Waits
  <2> QED  BY <2>1, WaitingKept
<1> QED  BY <1>2, <1>4, <1>5, EntryKept

LEMMA ProgressRefines ==
    ASSUME Inv, Inv', NEW c \in Callers, Progress(c) \/ Lock(c)
    PROVE  Abstract!Next \/ UNCHANGED <<members, leader, waiting, entry>>
<1>1. /\ flight[c] \in Flights /\ flight[c].pc # "idle"
      /\ \A d \in Callers \ {c} : flight'[d] = flight[d]
  BY FlightType, OtherFlights DEF Inv, Progress, Connect, PoolTimeout, CheckHit,
     CheckMiss, FactoryReturns, FactoryRaises, FailoverCatches, StaleConnect,
     StaleFound, StaleMissing, Store, Doomed, Lock, At, Advance, Leave, End, TypeOK
<1>2. ASSUME NEW step, step # "idle", UNCHANGED table,
             flight' = [flight EXCEPT ![c].pc = step],
             step \in Leading <=> flight[c].pc \in Leading,
             step \in {"locking", "checking"}
                <=> flight[c].pc \in {"locking", "checking"}
      PROVE  UNCHANGED <<members, leader, waiting, entry>>
  <2>1. flight'[c] = [flight[c] EXCEPT !.pc = step]
    BY <1>2 DEF Inv, TypeOK
  <2>2. /\ flight'[c].pc = step /\ flight'[c].key = flight[c].key
        /\ flight'[c].alive = flight[c].alive
    BY <1>1, <2>1 DEF Flights
  <2> QED  BY <1>1, <1>2, <2>2, AdvanceRefines
<1>3. ASSUME NEW v, flight[c].pc \in Leading, UNCHANGED table,
             flight' = [flight EXCEPT ![c].pc = "storing", ![c].value = v]
      PROVE  UNCHANGED <<members, leader, waiting, entry>>
  <2> DEFINE q == [flight[c] EXCEPT !.pc = "storing"]
  <2>1. q \in Flights /\ q.pc = "storing" /\ q.key = flight[c].key
        /\ q.alive = flight[c].alive
    BY <1>1 DEF Flights, InTransaction
  <2>2. flight'[c] = [q EXCEPT !.value = v]
    BY <1>3 DEF Inv, TypeOK
  <2> HIDE DEF q
  <2>3. /\ flight'[c].pc = "storing" /\ flight'[c].key = flight[c].key
        /\ flight'[c].alive = flight[c].alive
    BY <2>1, <2>2 DEF Flights
  <2>4. "storing" \in Leading /\ flight[c].pc \notin {"locking", "checking"}
    BY <1>3 DEF Leading
  <2> QED  BY <1>1, <1>3, <2>3, <2>4, AdvanceRefines
<1>4. CASE Connect(c)
  BY <1>4, ConnectRefines
<1>5. CASE Lock(c)
  <2>1. /\ flight[c].pc = "locking" /\ UNCHANGED table
        /\ flight' = [flight EXCEPT ![c].pc = "checking"]
    BY <1>5 DEF Lock, Advance, At
  <2> QED  BY <1>2, <2>1 DEF Leading
<1>6. CASE FailoverCatches(c)
  <2>1. /\ flight[c].pc = "computing" /\ UNCHANGED table
        /\ flight' = [flight EXCEPT ![c].pc = "stale_connecting"]
    BY <1>6 DEF FailoverCatches, Advance, At
  <2> QED  BY <1>2, <2>1 DEF Leading
<1>7. CASE StaleConnect(c)
  <2>1. /\ flight[c].pc = "stale_connecting" /\ UNCHANGED table
        /\ flight' = [flight EXCEPT ![c].pc = "stale_reading"]
    BY <1>7 DEF StaleConnect, Advance, At
  <2> QED  BY <1>2, <2>1 DEF Leading
<1>8. CASE FactoryReturns(c)
  <2>1. /\ flight[c].pc \in Leading /\ UNCHANGED table
        /\ flight' = [flight EXCEPT ![c].pc = "storing", ![c].value = c]
    BY <1>8 DEF FactoryReturns, At, Leading
  <2> QED  BY <1>3, <2>1
<1>9. CASE StaleFound(c)
  <2> DEFINE v == table[flight[c].key].value
  <2>1. /\ flight[c].pc \in Leading /\ UNCHANGED table
        /\ flight' = [flight EXCEPT ![c].pc = "storing", ![c].value = v]
    BY <1>9 DEF StaleFound, At, Leading
  <2> HIDE DEF v
  <2> QED  BY <1>3, <2>1
<1>10. CASE \/ PoolTimeout(c) \/ FactoryRaises(c) \/ StaleMissing(c) \/ Doomed(c)
  <2>1. flight' = [flight EXCEPT ![c] = Idle] /\ UNCHANGED table
    BY <1>10 DEF PoolTimeout, FactoryRaises, StaleMissing, Doomed, Leave, End
  <2>2. ~Waits(c)
    BY <1>10 DEF PoolTimeout, FactoryRaises, StaleMissing, Doomed, At, Waits
  <2> QED  BY <1>1, <2>1, <2>2, LeaveRefines
<1>11. CASE CheckHit(c)
  BY <1>11, CheckHitRefines
<1>12. CASE CheckMiss(c)
  BY <1>12, CheckMissRefines
<1>13. CASE Store(c)
  BY <1>13, StoreRefines
<1> QED  BY <1>4, <1>5, <1>6, <1>7, <1>8, <1>9, <1>10, <1>11, <1>12, <1>13 DEF Progress

(* Faults and other clients: Disrupt. *)
LEMMA DisruptRefines ==
    ASSUME Inv, Inv', members' = members,
           \A c \in Callers, k \in Keys : Authorised(c, k)' => Authorised(c, k),
           \A c \in Callers : Waits(c)' => Waits(c),
           \A k \in Keys : entry'[k] \in {entry[k], Null, Plain}
    PROVE  Abstract!Next
<1>1. leader' \in [Keys -> Callers \cup {Null}]
  BY LeadersNext, LeadersShape DEF Inv
<1>2. \A k \in Keys : leader'[k] \in {leader[k], Null}
  BY <1>1, Leaders, LeadersNext, StampedeAssumption DEF Inv
<1>3. entry' \in [Keys -> Blobs \cup {Null}]
  <2>1. Payloads(table')
    BY DEF Inv, PayloadInv, Payloads
  <2> QED  BY <2>1 DEF entry, Payloads
<1>4. waiting' \in SUBSET waiting
  BY DEF waiting
<1> QED  BY <1>1, <1>2, <1>3, <1>4 DEF Abstract!Next, Abstract!Disrupt

LEMMA ConnectionLostRefines ==
    ASSUME Inv, Inv', NEW c \in Callers, ConnectionLost(c)
    PROVE  Abstract!Next
<1>1. flight[c] \in Flights
  BY FlightType DEF Inv, ConnectionLost, InTransaction
<1>2. /\ UNCHANGED table
      /\ \A d \in Callers : flight'[d] = IF d = c
                                         THEN [flight[c] EXCEPT !.alive = FALSE]
                                         ELSE flight[d]
  BY DEF ConnectionLost, Inv, TypeOK
<1>3. /\ flight'[c].pc = flight[c].pc /\ flight'[c].key = flight[c].key
      /\ ~flight'[c].alive
  BY <1>1, <1>2 DEF Flights
<1>4. members' = members
  BY <1>2, <1>3, MembersKept DEF Inv
<1>5. \A d \in Callers, k \in Keys : Authorised(d, k)' => Authorised(d, k)
  BY <1>2, <1>3 DEF Authorised
<1>6. \A d \in Callers : Waits(d)' => Waits(d)
  BY <1>2, <1>3 DEF Waits
<1> QED  BY <1>2, <1>4, <1>5, <1>6, EntryKept, DisruptRefines

LEMMA CrashRefines == ASSUME Inv, Inv', ServerCrash PROVE Abstract!Next
<1>1. \A c \in Callers : flight[c].pc \in InTransaction => flight[c] \in Flights
  BY FlightType DEF Inv, InTransaction
<1>2. \A c \in Callers : flight'[c] =
          IF flight[c].pc \in InTransaction
          THEN [flight[c] EXCEPT !.alive = FALSE] ELSE flight[c]
  BY DEF ServerCrash
<1>3. ASSUME NEW c \in Callers
      PROVE  /\ flight'[c].pc = flight[c].pc
             /\ flight[c].pc # "idle" => flight'[c].key = flight[c].key
             /\ flight[c].pc \in InTransaction => ~flight'[c].alive
  BY <1>1, <1>2, FlightType DEF Flights, InTransaction
<1>4. members' = members
  BY <1>3, MembersKept DEF Inv
<1>5. \A c \in Callers, k \in Keys : Authorised(c, k)' => Authorised(c, k)
  BY <1>3 DEF Authorised, Leading, InTransaction
<1>6. \A k \in Keys : entry'[k] \in {entry[k], Null, Plain}
  BY DEF ServerCrash, entry
<1>7. \A c \in Callers : Waits(c)' => Waits(c)
  BY <1>3 DEF Waits, InTransaction
<1> QED  BY <1>4, <1>5, <1>6, <1>7, DisruptRefines

(* Other clients, whose steps leave flights and locks alone. *)
LEMMA TableRefines ==
    ASSUME Inv, Inv', UNCHANGED <<flight, holder>>,
           \A k \in Keys : entry'[k] \in {entry[k], Null, Plain}
    PROVE  Abstract!Next
<1>1. members' = members
  BY DEF members, InFlight
<1>2. \A c \in Callers, k \in Keys : Authorised(c, k)' => Authorised(c, k)
  BY DEF Authorised
<1>3. \A c \in Callers : Waits(c)' => Waits(c)
  BY DEF Waits
<1> QED  BY <1>1, <1>2, <1>3, DisruptRefines

LEMMA OtherGetRefines ==
    ASSUME Inv, Inv', NEW j \in Keys, NEW now, OtherGet(j, now)
    PROVE  Abstract!Next
<1>1. DOMAIN table' = DOMAIN table /\ \A k \in DOMAIN table : table[k] \in Row
  BY DEF OtherGet, get_items, Inv, TypeOK, IsTable
<1>2. \A k \in DOMAIN table : table'[k].value = table[k].value
  BY <1>1, RenewedValue DEF OtherGet, get_items
<1>3. \A k \in Keys : entry'[k] \in {entry[k], Null, Plain}
  BY <1>1, <1>2 DEF entry
<1> QED  BY <1>3, TableRefines DEF OtherGet

LEMMA OtherSetRefines ==
    ASSUME Inv, Inv', NEW j \in Keys, NEW o, OtherSet(j, o)
    PROVE  Abstract!Next
<1> DEFINE row == new_row(Plain, IF o = Null THEN default_options ELSE o, clock)
<1>1. row.value = Plain
  BY DEF new_row
<1>2. table' = set_item(table, [x \in {j} |-> row])
  BY DEF OtherSet
<1> HIDE DEF row
<1>3. \A k \in Keys : entry'[k] \in {entry[k], Null, Plain}
  BY <1>1, <1>2 DEF entry, set_item
<1> QED  BY <1>3, TableRefines DEF OtherSet

LEMMA RemovalRefines ==
    ASSUME Inv, Inv', UNCHANGED <<flight, holder>>, NEW ks,
           table' = remove_item(table, ks)
    PROVE  Abstract!Next
<1>1. \A k \in Keys : entry'[k] \in {entry[k], Null, Plain}
  BY DEF entry, remove_item, Restrict
<1> QED  BY <1>1, TableRefines

LEMMA NextRefines ==
    Inv /\ Inv' /\ [Next]_vars => [Abstract!Next]_(<<members, leader, waiting, entry>>)
<1> SUFFICES ASSUME Inv, Inv', [Next]_vars
             PROVE  Abstract!Next \/ UNCHANGED <<members, leader, waiting, entry>>
  OBVIOUS
<1>1. ASSUME NEW c \in Callers, NEW k \in Keys, NEW o \in OptionChoices,
             NEW m \in Modes, Call(c, k, o, m)
      PROVE  Abstract!Next
  BY <1>1, CallRefines
<1>2. ASSUME NEW c \in Callers, Progress(c) \/ Lock(c)
      PROVE  Abstract!Next \/ UNCHANGED <<members, leader, waiting, entry>>
  BY <1>2, ProgressRefines
<1>3. ASSUME NEW c \in Callers, ConnectionLost(c) PROVE Abstract!Next
  BY <1>3, ConnectionLostRefines
<1>4. ASSUME NEW c \in Callers, StaleReadFails(c) PROVE Abstract!Next
  BY <1>4, LeaveRefines DEF StaleReadFails, At, Waits
<1>5. ASSUME NEW k \in Keys, \/ \E now \in 0 .. clock : OtherGet(k, now)
                             \/ \E o \in OptionChoices : OtherSet(k, o)
                             \/ OtherRemove(k)
      PROVE  Abstract!Next
  BY <1>5, OtherGetRefines, OtherSetRefines, RemovalRefines DEF OtherRemove
<1>6. CASE Scan
  BY <1>6, RemovalRefines DEF Scan, delete_expired
<1>7. CASE ServerCrash
  BY <1>7, CrashRefines
<1>8. CASE Tick \/ UNCHANGED vars
  BY <1>8 DEF Tick, vars, members, InFlight, leader, waiting, Waits, entry
<1> QED  BY <1>1, <1>2, <1>3, <1>4, <1>5, <1>6, <1>7, <1>8 DEF Next

(* get_or_create implements the abstract single flight in every instance:  *)
(* each step on a key is a Join, Wait, Serve, Lead, Publish, GiveUp or     *)
(* Disrupt of SingleFlight, or none of its business.                       *)
THEOREM Implementation == Spec => ImplementsSingleFlight
<1>1. Init => Abstract!Init
  BY DEF Init, Abstract!Init, members, InFlight, Idle, leader, waiting, Waits,
     entry
<1>2. Inv /\ Inv' /\ [Next]_vars => [Abstract!Next]_(Abstract!vars)
  BY NextRefines DEF Abstract!vars
<1> QED  BY <1>1, <1>2, InvInductive, PTL DEF Spec, ImplementsSingleFlight, Abstract!Spec
-----------------------------------------------------------------------------
(* The connections of failover. *)

OpenCalls == {d \in Callers : flight[d].pc \in InTransaction}

StaleReaders == {d \in Callers : At(d, "stale_reading")}

(* A caller that waits for its second connection holds only one, so the    *)
(* calls in a transaction hold fewer than two each.                        *)
LEMMA RoomForOneMore ==
    ASSUME NEW c \in Callers, At(c, "stale_connecting"),
           PoolSize >= 2 * Cardinality(OpenCalls)
    PROVE  ~(FreeConnections <= 0)
<1>1. OpenCalls \subseteq Callers /\ StaleReaders \subseteq OpenCalls \ {c}
  BY DEF OpenCalls, StaleReaders, At, InTransaction
<1>2. IsFiniteSet(OpenCalls) /\ Cardinality(OpenCalls) \in Nat
  BY <1>1, FS_Subset, FS_CardinalityType, StampedeAssumption
<1>3. c \in OpenCalls
  BY DEF OpenCalls, At, InTransaction
<1>4. /\ IsFiniteSet(OpenCalls \ {c})
      /\ Cardinality(OpenCalls \ {c}) = Cardinality(OpenCalls) - 1
  BY <1>2, <1>3, FS_RemoveElement
<1>5. /\ Cardinality(StaleReaders) \in Nat
      /\ Cardinality(StaleReaders) <= Cardinality(OpenCalls) - 1
  BY <1>1, <1>4, FS_Subset, FS_CardinalityType
<1>6. FreeConnections =
          PoolSize - Cardinality(OpenCalls) - Cardinality(StaleReaders)
  BY DEF FreeConnections, OpenCalls, StaleReaders
<1> QED  BY <1>2, <1>5, <1>6, StampedeAssumption

(* The steps that end a call which is looking for a stale value. *)
LEMMA StaleCallEnds ==
    ASSUME TypeOK, [Next]_vars, NEW c \in Callers,
           flight[c].pc \in {"stale_connecting", "stale_reading"},
           flight'[c] = Idle
    PROVE  PoolTimeout(c) \/ StaleMissing(c) \/ StaleReadFails(c)
<1>1. flight[c] \in Flights /\ flight[c].pc # "idle"
  BY FlightType
<1>2. ASSUME NEW r, flight'[c] = [flight[c] EXCEPT !.pc = r], r # "idle"
      PROVE  FALSE
  BY <1>1, <1>2 DEF Flights, Idle
<1>3. ASSUME NEW d \in Callers \ {c},
             \/ \E k \in Keys, o \in OptionChoices, m \in Modes : Call(d, k, o, m)
             \/ Progress(d) \/ Lock(d) \/ ConnectionLost(d) \/ StaleReadFails(d)
      PROVE  FALSE
  BY <1>1, <1>3, OtherFlights DEF Idle
<1>4. CASE UNCHANGED flight
  BY <1>1, <1>4 DEF Idle
<1>5. ~StaleFound(c)
  <2> SUFFICES ASSUME StaleFound(c) PROVE FALSE
    OBVIOUS
  <2> DEFINE q == [flight[c] EXCEPT !.pc = "storing"]
             v == table[flight[c].key].value
  <2>1. q.pc = "storing" /\ DOMAIN q = DOMAIN flight[c] /\ "value" \in DOMAIN q
    BY <1>1 DEF Flights
  <2>2. flight'[c] = [q EXCEPT !.value = v]
    BY DEF StaleFound, TypeOK
  <2> HIDE DEF q, v
  <2>3. flight'[c].pc = "storing"
    BY <2>1, <2>2
  <2> QED  BY <2>3 DEF Idle
<1>6. ~ConnectionLost(c) /\ ~ServerCrash
  <2>1. [flight[c] EXCEPT !.alive = FALSE].pc = flight[c].pc
    BY <1>1 DEF Flights
  <2>2. ConnectionLost(c) \/ ServerCrash
            => flight'[c] \in {flight[c], [flight[c] EXCEPT !.alive = FALSE]}
    BY DEF ConnectionLost, ServerCrash, TypeOK
  <2> QED  BY <1>1, <2>1, <2>2 DEF Idle
<1>7. ASSUME Progress(c)
      PROVE  PoolTimeout(c) \/ StaleMissing(c)
  <2>1. ~StaleConnect(c)
    BY <1>2 DEF StaleConnect, Advance, TypeOK
  <2> QED  BY <1>5, <1>7, <2>1 DEF Progress, Connect, CheckHit, CheckMiss,
           FactoryReturns, FactoryRaises, FailoverCatches, Store, Doomed, At
<1>8. /\ ~Lock(c)
      /\ \A k \in Keys, o \in OptionChoices, m \in Modes : ~Call(c, k, o, m)
  BY DEF Lock, Call, At
<1> QED  BY <1>3, <1>4, <1>6, <1>7, <1>8 DEF Next, vars, OtherGet, OtherSet,
         OtherRemove, Scan, Tick

(* A failover call that finds no room in the pool is one of too many: with *)
(* two connections for each call in a transaction, the stale row is served *)
(* whatever the callers, the keys, the other clients and the scanner do.   *)
(* In particular a pool of twice as many connections as callers is enough. *)
THEOREM RoomServesStale == Spec => StaleServedWithRoom
<1>1. TypeOK /\ [Next]_vars =>
        \A c \in Callers :
          /\ flight[c].pc \in {"stale_connecting", "stale_reading"}
          /\ flight'[c] = Idle
          /\ PoolSize >=
                2 * Cardinality({d \in Callers : flight[d].pc \in InTransaction})
          /\ faults' = faults
          => flight[c].key \notin DOMAIN table
  <2> SUFFICES ASSUME TypeOK, [Next]_vars, NEW c \in Callers,
                      flight[c].pc \in {"stale_connecting", "stale_reading"},
                      flight'[c] = Idle, faults' = faults,
                      PoolSize >= 2 * Cardinality(OpenCalls)
               PROVE  flight[c].key \notin DOMAIN table
    BY DEF OpenCalls
  <2>1. ~StaleReadFails(c)
    BY DEF StaleReadFails, Fault, TypeOK
  <2>2. ~PoolTimeout(c)
    <3>1. CASE At(c, "stale_connecting")
      BY <3>1, RoomForOneMore DEF PoolTimeout
    <3>2. CASE At(c, "stale_reading")
      BY <3>2 DEF PoolTimeout, At
    <3> QED  BY <3>1, <3>2 DEF At
  <2> QED  BY <2>1, <2>2, StaleCallEnds DEF StaleMissing
<1> QED  BY <1>1, TypeCorrect, PTL DEF Spec, StaleServedWithRoom
=============================================================================
