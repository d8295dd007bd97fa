------------------------ MODULE DistributedLockProofs ------------------------
(***************************************************************************)
(* What DistributedLock guarantees of every instance: type correctness,    *)
(* the exclusion of live leases, and the answer False of is_locked.        *)
(***************************************************************************)
EXTENDS DistributedLock, CacheSqlProofs

-----------------------------------------------------------------------------
(* Type correctness. *)

(* What is known of a client in each kind of call. *)
LEMMA ClientFields ==
    ASSUME TypeOK, NEW c \in Clients
    PROVE  /\ client[c].pc \in {"polling", "stamped", "sending"} =>
                client[c] \in Request
           /\ client[c].pc \in {"body", "unlocking"} => client[c] \in Tenure
           /\ client[c].pc \in {"asking", "querying", "free"} =>
                client[c] \in AskCall
           /\ client[c].pc = "idle" => client[c] = Idle
BY DEF TypeOK, Request, Tenure, AskCall, Idle

LEMMA SetLockType ==
    ASSUME NEW tb, IsTable(tb, Keys), NEW k \in Keys, NEW token \in Nat,
           NEW until \in Nat
    PROVE  IsTable(set_lock_item(tb, k, token, until), Keys)
<1>1. CASE k \notin DOMAIN tb
  <2> DEFINE row == [value |-> token, exp |-> until, sliding |-> Null,
                     abs |-> Null, tags |-> Null]
             rows == [x \in {k} |-> row]
  <2>1. row \in Row
    BY DEF Row
  <2>2. IsTable(rows, Keys)
    <3> HIDE DEF row
    <3> QED  BY <2>1 DEF IsTable
  <2>3. set_lock_item(tb, k, token, until) = set_item(tb, rows)
    BY <1>1 DEF set_lock_item
  <2> HIDE DEF rows
  <2> QED  BY <2>2, <2>3, SetItemType
<1>2. CASE k \in DOMAIN tb
  <2>1. tb[k] \in Row
    BY <1>2 DEF IsTable
  <2> DEFINE taken == [tb[k] EXCEPT !.value = token]
  <2>2. taken \in Row
    BY <2>1 DEF Row
  <2>3. [taken EXCEPT !.exp = until] \in Row
    <3> HIDE DEF taken
    <3> QED  BY <2>2 DEF Row
  <2>4. [tb[k] EXCEPT !.value = token, !.exp = until] \in Row
    BY <2>1, <2>3
  <2> QED  BY <1>2, <2>4 DEF set_lock_item, IsTable
<1> QED  BY <1>1, <1>2

LEMMA StepType ==
    ASSUME TypeOK, NEW c \in Clients, NEW r, Step(c, r),
           r \in {Idle} \cup Request \cup Tenure \cup AskCall,
           IsTable(table', Keys), issued' \in Nat
    PROVE  TypeOK'
BY DEF TypeOK, Step

LEMMA AcquiredType ==
    ASSUME TypeOK, NEW c \in Clients, At(c, "sending"),
           table' = set_lock_item(table, client[c].key, client[c].token,
                                  client[c].until)
    PROVE  IsTable(table', Keys)
<1>1. client[c] \in Request
  BY ClientFields DEF At
<1>2. /\ client[c].key \in Keys /\ client[c].token \in Nat
      /\ client[c].until \in Nat
  BY <1>1 DEF Request
<1> QED  BY <1>2, SetLockType DEF TypeOK

LEMMA ClientStepType ==
    ASSUME TypeOK, NEW c \in Clients, ClientStep(c)
    PROVE  TypeOK'
<1> USE ClientFields
<1>1. IsTable(table, Keys) /\ clock \in Nat /\ issued \in Nat
  BY DEF TypeOK
<1>2. ASSUME NEW k \in Keys, NEW e \in Expires, NEW polls \in BOOLEAN,
             Lock(c, k, e, polls)
      PROVE  TypeOK'
  <2>1. [pc |-> "polling", polls |-> polls, key |-> k, token |-> issued + 1,
         expire |-> e, until |-> 0, now |-> 0] \in Request
    BY <1>1 DEF Request
  <2> QED  BY <1>1, <1>2, <2>1, StepType DEF Lock
<1>3. ASSUME NEW k \in Keys, NEW w \in Waits, IsLocked(c, k, w)
      PROVE  TypeOK'
  <2>1. [pc |-> "asking", key |-> k, now |-> 0, deadline |-> clock + w]
          \in AskCall
    BY <1>1, LockAssumption DEF AskCall
  <2> QED  BY <1>1, <1>3, <2>1, StepType DEF IsLocked
<1>4. CASE Stamp(c)
  <2> DEFINE until == clock + parse_duration(client[c].expire)
             r == [client[c] EXCEPT !.pc = "stamped", !.until = until]
  <2>1. client[c] \in Request
    BY <1>4 DEF Stamp, At
  <2>2. parse_duration(client[c].expire) \in Nat
    BY <2>1, LockAssumption DEF Request
  <2>3. until \in Nat
    BY <1>1, <2>2
  <2>4. r \in Request
    <3> HIDE DEF until
    <3> QED  BY <2>1, <2>3 DEF Request
  <2> QED  BY <1>1, <1>4, <2>4, StepType DEF Stamp
<1>5. CASE Send(c)
  <2>1. client[c] \in Request
    BY <1>5 DEF Send, At
  <2>2. [client[c] EXCEPT !.pc = "sending", !.now = clock] \in Request
    BY <1>1, <2>1 DEF Request
  <2> QED  BY <1>1, <1>5, <2>2, StepType DEF Send
<1>6. CASE Acquire(c)
  <2> DEFINE r == [pc |-> "body", key |-> client[c].key,
                   token |-> client[c].token, expire |-> client[c].expire,
                   until |-> client[c].until, since |-> clock]
  <2>1. client[c] \in Request
    BY <1>6 DEF Acquire, At
  <2>2. r \in Tenure
    BY <1>1, <2>1 DEF Request, Tenure
  <2>3. IsTable(table', Keys)
    BY <1>6, AcquiredType DEF Acquire
  <2> QED  BY <1>1, <1>6, <2>2, <2>3, StepType DEF Acquire
<1>7. CASE Held(c)
  <2>1. client[c] \in Request
    BY <1>7 DEF Held, At
  <2>2. [client[c] EXCEPT !.pc = "polling", !.until = 0, !.now = 0] \in Request
    BY <2>1 DEF Request
  <2> QED  BY <1>1, <1>7, <2>2, StepType DEF Held
<1>8. CASE LoseAnswer(c)
  <2>1. IsTable(table', Keys)
    BY <1>8, AcquiredType DEF LoseAnswer
  <2> QED  BY <1>1, <1>8, <2>1, StepType DEF LoseAnswer
<1>9. CASE LeaveBody(c)
  <2>1. client[c] \in Tenure
    BY <1>9 DEF LeaveBody, At
  <2>2. [client[c] EXCEPT !.pc = "unlocking"] \in Tenure
    BY <2>1 DEF Tenure
  <2> QED  BY <1>1, <1>9, <2>2, StepType DEF LeaveBody
<1>10. CASE Unlock(c)
  <2>1. IsTable(table', Keys)
    BY <1>1, <1>10, RemoveItemType DEF Unlock, unlock_item
  <2> QED  BY <1>1, <1>10, <2>1, StepType DEF Unlock
<1>11. CASE Ask(c)
  <2>1. client[c] \in AskCall
    BY <1>11 DEF Ask, At
  <2>2. [client[c] EXCEPT !.pc = "querying", !.now = clock] \in AskCall
    BY <1>1, <2>1 DEF AskCall
  <2> QED  BY <1>1, <1>11, <2>2, StepType DEF Ask
<1>12. CASE Answer(c)
  <2>1. client[c] \in AskCall
    BY <1>12 DEF Answer, At
  <2>2. /\ [client[c] EXCEPT !.pc = "free", !.now = 0, !.deadline = 0] \in AskCall
        /\ [client[c] EXCEPT !.pc = "asking", !.now = 0] \in AskCall
    BY <2>1 DEF AskCall
  <2> QED  BY <1>1, <1>12, <2>2, StepType DEF Answer
<1>13. CASE Fail(c)
  BY <1>1, <1>13, StepType DEF Fail
<1> QED  BY <1>2, <1>3, <1>4, <1>5, <1>6, <1>7, <1>8, <1>9, <1>10, <1>11, <1>12,
            <1>13 DEF ClientStep, Progress

LEMMA TypeStep == TypeOK /\ [Next]_vars => TypeOK'
<1> SUFFICES ASSUME TypeOK, [Next]_vars PROVE TypeOK'
  OBVIOUS
<1>1. ASSUME NEW c \in Clients, ClientStep(c) PROVE TypeOK'
  BY <1>1, ClientStepType
<1>2. CASE ScanWake
  BY <1>2 DEF ScanWake, TypeOK, IsTable, Scanning
<1>3. CASE ScanDelete
  <2>1. IsTable(table', Keys)
    BY <1>3, RemoveItemType DEF ScanDelete, delete_expired, TypeOK
  <2> QED  BY <1>3, <2>1 DEF ScanDelete, TypeOK
<1>4. CASE ScanFail
  BY <1>4 DEF ScanFail, TypeOK, IsTable
<1>5. CASE Tick
  BY <1>5 DEF Tick, TypeOK, IsTable
<1>6. CASE ServerCrash
  <2>1. IsTable(table', Keys)
    BY <1>6 DEF ServerCrash, TypeOK, IsTable
  <2> QED  BY <1>6, <2>1 DEF ServerCrash, TypeOK
<1>7. CASE UNCHANGED vars
  BY <1>7 DEF vars, TypeOK, IsTable
<1> QED  BY <1>1, <1>2, <1>3, <1>4, <1>5, <1>6, <1>7 DEF Next

(* Every reachable state of every instance is well typed: in particular a  *)
(* row taken over by a lock keeps the column types of the table.           *)
THEOREM TypeCorrect == Spec => []TypeOK
<1>1. Init => TypeOK
  BY DEF Init, TypeOK, IsTable
<1> QED  BY <1>1, TypeStep, PTL DEF Spec

-----------------------------------------------------------------------------
(* The exclusion of live leases. *)

LEMMA StepMoves ==
    ASSUME TypeOK, NEW c \in Clients, NEW r, Step(c, r)
    PROVE  /\ client'[c] = r
           /\ \A d \in Clients \ {c} : client'[d] = client[d]
           /\ clock' = clock /\ scan' = scan /\ crashes' = crashes
BY DEF TypeOK, Step

(* The rest of the system: it moves no client, and time only grows.        *)
Elsewhere == ScanWake \/ ScanDelete \/ ScanFail \/ Tick \/ ServerCrash

LEMMA ElsewhereKeeps ==
    ASSUME TypeOK, Elsewhere
    PROVE  client' = client /\ issued' = issued /\ clock <= clock'
BY DEF Elsewhere, ScanWake, ScanDelete, ScanFail, Tick, ServerCrash, TypeOK

LEMMA ClientMoves ==
    ASSUME TypeOK, NEW c \in Clients, ClientStep(c)
    PROVE  /\ \A d \in Clients \ {c} : client'[d] = client[d]
           /\ clock' = clock /\ scan' = scan /\ crashes' = crashes
<1>1. \E r : Step(c, r)
  BY DEF ClientStep, Lock, IsLocked, Progress, Stamp, Send, Acquire, Held,
     LeaveBody, Unlock, Ask, Answer, LoseAnswer, Fail
<1> QED  BY <1>1, StepMoves

(* A client keeps its token to the end of its call, and only Lock draws    *)
(* one; the instants it carries are read from the clock.                   *)
LEMMA ClientKeeps ==
    ASSUME TypeOK, NEW c \in Clients, ClientStep(c)
    PROVE  /\ \/ issued' = issued + 1 /\ client'[c].token = issued + 1
              \/ /\ issued' = issued
                 /\ HasToken(c)' => /\ HasToken(c)
                                    /\ client'[c].token = client[c].token
           /\ client'[c].pc \in {"sending", "querying"} => client'[c].now = clock
<1> DEFINE keeps == /\ issued' = issued
                    /\ HasToken(c)' => /\ HasToken(c)
                                       /\ client'[c].token = client[c].token
           reads == client'[c].pc \in {"sending", "querying"} =>
                        client'[c].now = clock
<1>1. ASSUME NEW k \in Keys, NEW e \in Expires, NEW polls \in BOOLEAN,
             Lock(c, k, e, polls)
      PROVE  issued' = issued + 1 /\ client'[c].token = issued + 1 /\ reads
  BY <1>1, StepMoves DEF Lock
<1>2. ASSUME NEW k \in Keys, NEW w \in Waits, IsLocked(c, k, w)
      PROVE  keeps /\ reads
  BY <1>2, StepMoves DEF IsLocked, HasToken
<1>3. CASE Stamp(c)
  <2>1. client[c] \in Request
    BY <1>3, ClientFields DEF Stamp, At
  <2> DEFINE until == clock + parse_duration(client[c].expire)
  <2>2. client'[c] = [client[c] EXCEPT !.pc = "stamped", !.until = until]
    BY <1>3, StepMoves DEF Stamp
  <2> HIDE DEF until
  <2>3. client'[c].pc = "stamped" /\ client'[c].token = client[c].token
    BY <2>1, <2>2 DEF Request
  <2> QED  BY <1>3, <2>3 DEF Stamp, At, HasToken
<1>4. CASE Send(c)
  <2>1. client[c] \in Request
    BY <1>4, ClientFields DEF Send, At
  <2>2. client'[c] = [client[c] EXCEPT !.pc = "sending", !.now = clock]
    BY <1>4, StepMoves DEF Send
  <2>3. client'[c].now = clock /\ client'[c].token = client[c].token
    BY <2>1, <2>2 DEF Request
  <2> QED  BY <1>4, <2>3 DEF Send, At, HasToken
<1>5. CASE Acquire(c)
  <2>1. client'[c].pc = "body" /\ client'[c].token = client[c].token
    BY <1>5, StepMoves DEF Acquire
  <2> QED  BY <1>5, <2>1 DEF Acquire, At, HasToken
<1>6. CASE Held(c)
  <2>1. client[c] \in Request
    BY <1>6, ClientFields DEF Held, At
  <2> DEFINE again == [client[c] EXCEPT !.pc = "polling", !.until = 0, !.now = 0]
  <2>2. client'[c] = Idle \/ client'[c] = again
    <3>1. Step(c, IF client[c].polls THEN again ELSE Idle)
      BY <1>6 DEF Held
    <3> HIDE DEF again
    <3> QED  BY <3>1, StepMoves
  <2>3. \/ client'[c].pc = "idle"
        \/ client'[c].pc = "polling" /\ client'[c].token = client[c].token
    <3>1. again.pc = "polling" /\ again.token = client[c].token
      BY <2>1 DEF Request
    <3> HIDE DEF again
    <3> QED  BY <2>2, <3>1 DEF Idle
  <2> QED  BY <1>6, <2>3 DEF Held, At, HasToken
<1>7. CASE LeaveBody(c)
  <2>1. client[c] \in Tenure
    BY <1>7, ClientFields DEF LeaveBody, At
  <2>2. client'[c] = [client[c] EXCEPT !.pc = "unlocking"]
    BY <1>7, StepMoves DEF LeaveBody
  <2>3. client'[c].pc = "unlocking" /\ client'[c].token = client[c].token
    BY <2>1, <2>2 DEF Tenure
  <2> QED  BY <1>7, <2>3 DEF LeaveBody, At, HasToken
<1>8. CASE LoseAnswer(c) \/ Unlock(c) \/ Fail(c)
  <2>1. client'[c] = Idle
    BY <1>8, StepMoves DEF LoseAnswer, Unlock, Fail
  <2> QED  BY <1>8, <2>1 DEF LoseAnswer, Unlock, Fail, HasToken, Idle
<1>9. CASE Ask(c)
  <2>1. client[c] \in AskCall
    BY <1>9, ClientFields DEF Ask, At
  <2>2. client'[c] = [client[c] EXCEPT !.pc = "querying", !.now = clock]
    BY <1>9, StepMoves DEF Ask
  <2>3. client'[c].pc = "querying" /\ client'[c].now = clock
    BY <2>1, <2>2 DEF AskCall
  <2> QED  BY <1>9, <2>3 DEF Ask, HasToken
<1>10. CASE Answer(c)
  <2>1. client[c] \in AskCall
    BY <1>10, ClientFields DEF Answer, At
  <2> DEFINE no == [client[c] EXCEPT !.pc = "free", !.now = 0, !.deadline = 0]
             again == [client[c] EXCEPT !.pc = "asking", !.now = 0]
             locked == is_locked_item(table, client[c].key, client[c].now)
  <2>2. client'[c] = Idle \/ client'[c] = no \/ client'[c] = again
    <3>1. Step(c, IF ~locked THEN no
                  ELSE IF clock >= client[c].deadline THEN Idle ELSE again)
      BY <1>10 DEF Answer
    <3> HIDE DEF no, again, locked
    <3> QED  BY <3>1, StepMoves
  <2>3. client'[c].pc \in {"idle", "free", "asking"}
    <3>1. no.pc = "free" /\ again.pc = "asking"
      BY <2>1 DEF AskCall
    <3> HIDE DEF no, again
    <3> QED  BY <2>2, <3>1 DEF Idle
  <2> QED  BY <1>10, <2>3 DEF Answer, HasToken
<1> QED  BY <1>1, <1>2, <1>3, <1>4, <1>5, <1>6, <1>7, <1>8, <1>9, <1>10
         DEF ClientStep, Progress

LEMMA TokenStep == TypeOK /\ TokenInv /\ [Next]_vars => TokenInv'
<1> SUFFICES ASSUME TypeOK, TokenInv, [Next]_vars PROVE TokenInv'
  OBVIOUS
<1>1. ASSUME NEW c \in Clients, ClientStep(c) PROVE TokenInv'
  <2>1. /\ issued \in Nat
        /\ \A d \in Clients : HasToken(d) => client[d].token \in Nat
    BY ClientFields DEF TypeOK, HasToken, Request, Tenure
  <2>2. \A d \in Clients \ {c} : client'[d] = client[d]
    BY <1>1, ClientMoves
  <2>3. \/ issued' = issued + 1 /\ client'[c].token = issued + 1
        \/ /\ issued' = issued
           /\ HasToken(c)' => /\ HasToken(c)
                              /\ client'[c].token = client[c].token
    BY <1>1, ClientKeeps
  <2> QED  BY <2>1, <2>2, <2>3 DEF TokenInv, HasToken
<1>2. CASE Elsewhere \/ UNCHANGED vars
  BY <1>2, ElsewhereKeeps DEF TokenInv, HasToken, vars
<1> QED  BY <1>1, <1>2 DEF Next, Elsewhere

LEMMA PastStep == TypeOK /\ PastInv /\ [Next]_vars => PastInv'
<1> SUFFICES ASSUME TypeOK, PastInv, [Next]_vars PROVE PastInv'
  OBVIOUS
<1>1. clock \in Nat /\ \A c \in Clients :
         client[c].pc \in {"sending", "querying"} => client[c].now \in Nat
  BY ClientFields DEF TypeOK, Request, AskCall
<1>2. ASSUME NEW c \in Clients, ClientStep(c) PROVE PastInv'
  BY <1>1, <1>2, ClientMoves, ClientKeeps DEF PastInv
<1>3. scan # Waiting => scan.now \in Nat
  BY DEF TypeOK, Scanning
<1>4. CASE Elsewhere
  <2>1. client' = client /\ clock' \in Nat /\ clock <= clock'
    BY <1>4, ElsewhereKeeps, TypeStep DEF TypeOK
  <2>2. scan' # Waiting => scan'.now <= clock'
    BY <1>1, <1>3, <1>4, <2>1 DEF Elsewhere, ScanWake, ScanDelete, ScanFail, Tick,
       ServerCrash, PastInv
  <2> QED  BY <1>1, <2>1, <2>2 DEF PastInv
<1>5. CASE UNCHANGED vars
  BY <1>5 DEF PastInv, vars
<1> QED  BY <1>2, <1>4, <1>5 DEF Next, Elsewhere

(* A client in the body of its lock acquired it just now or was in it      *)
(* before, with the same token and the same lease.                         *)
LEMMA TenureSteps ==
    ASSUME TypeOK, NEW d \in Clients, ClientStep(d),
           client'[d].pc \in {"body", "unlocking"}
    PROVE  Acquire(d) \/ LeaveBody(d)
<1>1. ASSUME NEW r, Step(d, r), r.pc \notin {"body", "unlocking"}
      PROVE  FALSE
  BY <1>1, StepMoves
<1>2. ASSUME NEW k \in Keys, NEW e \in Expires, NEW polls \in BOOLEAN,
             Lock(d, k, e, polls)
      PROVE  FALSE
  BY <1>1, <1>2 DEF Lock
<1>3. ASSUME NEW k \in Keys, NEW w \in Waits, IsLocked(d, k, w)
      PROVE  FALSE
  BY <1>1, <1>3 DEF IsLocked
<1>4. CASE Stamp(d) \/ Send(d) \/ Held(d)
  <2>1. client[d] \in Request
    BY <1>4, ClientFields DEF Stamp, Send, Held, At
  <2> DEFINE until == clock + parse_duration(client[d].expire)
             stamped == [client[d] EXCEPT !.pc = "stamped", !.until = until]
             sent == [client[d] EXCEPT !.pc = "sending", !.now = clock]
             again == [client[d] EXCEPT !.pc = "polling", !.until = 0, !.now = 0]
  <2>2. \/ Step(d, stamped) \/ Step(d, sent)
        \/ Step(d, IF client[d].polls THEN again ELSE Idle)
    BY <1>4 DEF Stamp, Send, Held
  <2> HIDE DEF until
  <2>3. stamped.pc = "stamped" /\ sent.pc = "sending" /\ again.pc = "polling"
    BY <2>1 DEF Request
  <2> HIDE DEF stamped, sent, again
  <2> QED  BY <1>1, <2>2, <2>3 DEF Idle
<1>5. CASE Ask(d) \/ Answer(d)
  <2>1. client[d] \in AskCall
    BY <1>5, ClientFields DEF Ask, Answer, At
  <2> DEFINE asked == [client[d] EXCEPT !.pc = "querying", !.now = clock]
             no == [client[d] EXCEPT !.pc = "free", !.now = 0, !.deadline = 0]
             again == [client[d] EXCEPT !.pc = "asking", !.now = 0]
             locked == is_locked_item(table, client[d].key, client[d].now)
  <2>2. \/ Step(d, asked)
        \/ Step(d, IF ~locked THEN no
                   ELSE IF clock >= client[d].deadline THEN Idle ELSE again)
    BY <1>5 DEF Ask, Answer
  <2>3. asked.pc = "querying" /\ no.pc = "free" /\ again.pc = "asking"
    BY <2>1 DEF AskCall
  <2> HIDE DEF asked, no, again, locked
  <2> QED  BY <1>1, <2>2, <2>3 DEF Idle
<1>6. CASE LoseAnswer(d) \/ Unlock(d) \/ Fail(d)
  BY <1>1, <1>6 DEF LoseAnswer, Unlock, Fail, Idle
<1> QED  BY <1>2, <1>3, <1>4, <1>5, <1>6 DEF ClientStep, Progress

LEMMA LeaseEarlier ==
    ASSUME TypeOK, [Next]_vars, NEW d \in Clients, NEW k \in Keys, Leases(d, k)'
    PROVE  \/ Acquire(d) /\ client[d].key = k
           \/ /\ Leases(d, k) /\ Leases(d, k)'
              /\ client'[d].token = client[d].token
              /\ client'[d].until = client[d].until
<1>1. ASSUME NEW c \in Clients, ClientStep(c), c # d
      PROVE  client'[d] = client[d] /\ clock' = clock
  BY <1>1, ClientMoves
<1>2. CASE Elsewhere \/ UNCHANGED vars
  <2>1. client' = client /\ clock <= clock' /\ clock' \in Nat /\ clock \in Nat
    BY <1>2, ElsewhereKeeps, TypeStep DEF vars, TypeOK
  <2>2. client[d] \in Tenure
    BY <2>1, ClientFields DEF Leases
  <2>3. client[d].until \in Nat
    BY <2>2 DEF Tenure
  <2> QED  BY <2>1, <2>3 DEF Leases
<1>3. CASE ClientStep(d)
  <2>1. Acquire(d) \/ LeaveBody(d)
    BY <1>3, TenureSteps DEF Leases
  <2>2. CASE Acquire(d)
    BY <2>2, StepMoves DEF Acquire, Leases
  <2>3. CASE LeaveBody(d)
    <3>1. client[d] \in Tenure
      BY <2>3, ClientFields DEF LeaveBody, At
    <3>2. /\ client'[d] = [client[d] EXCEPT !.pc = "unlocking"]
          /\ clock' = clock
      BY <2>3, StepMoves DEF LeaveBody
    <3>3. /\ client'[d].key = client[d].key
          /\ client'[d].token = client[d].token
          /\ client'[d].until = client[d].until
      BY <3>1, <3>2 DEF Tenure
    <3> QED  BY <2>3, <3>2, <3>3 DEF LeaveBody, At, Leases
  <2> QED  BY <2>1, <2>2, <2>3
<1> QED  BY <1>1, <1>2, <1>3 DEF Next, Elsewhere, Leases

(* The row of a live lease survives every statement but its owner's own:   *)
(* a takeover, an unlock of another token and a scan each need it to be    *)
(* what it is not.                                                         *)
LEMMA DurableBefore == TypeOK /\ [Next]_vars /\ Durable' => Durable
<1> SUFFICES ASSUME TypeOK, [Next]_vars, Durable' PROVE Durable
  OBVIOUS
<1>1. crashes' = crashes \/ ServerCrash
  BY ClientMoves DEF Next, vars, ScanWake, ScanDelete, ScanFail, Tick
<1> QED  BY <1>1 DEF ServerCrash, Durable, TypeOK

LEMMA RowKept ==
    ASSUME TypeOK, LeaseInv, Durable', [Next]_vars, NEW d \in Clients,
           NEW k \in Keys, Leases(d, k), Leases(d, k)'
    PROVE  k \in DOMAIN table' /\ table'[k] = table[k]
<1>1. /\ k \in DOMAIN table /\ table[k].value = client[d].token
      /\ table[k].exp = client[d].until
  BY DurableBefore DEF LeaseInv, BackedInv, Backed
<1>2. client[d].until \in Nat /\ clock \in Nat /\ clock <= client[d].until
  BY ClientFields DEF Leases, Tenure, TypeOK
<1>3. ASSUME NEW now \in Nat, now <= clock PROVE Live(table[k], now)
  BY <1>1, <1>2, <1>3 DEF Live
<1>4. ASSUME NEW c \in Clients, Acquire(c) \/ LoseAnswer(c)
      PROVE  k \in DOMAIN table' /\ table'[k] = table[k]
  <2>1. client[c] \in Request /\ client[c].pc = "sending"
    BY <1>4, ClientFields DEF Acquire, LoseAnswer, At
  <2>2. client[c].now \in Nat /\ client[c].now <= clock
    BY <2>1 DEF Request, LeaseInv, PastInv
  <2>3. client[c].key # k
    BY <1>1, <1>3, <1>4, <2>2 DEF Acquire, LoseAnswer, Takeable
  <2>4. IsTable(table, Keys)
    BY DEF TypeOK
  <2> QED  BY <1>1, <1>4, <2>3, <2>4
           DEF Acquire, LoseAnswer, set_lock_item, set_item, IsTable
<1>5. ASSUME NEW c \in Clients, Unlock(c)
      PROVE  k \in DOMAIN table' /\ table'[k] = table[k]
  <2>1. c # d
    BY <1>5, StepMoves DEF Unlock, Leases, Idle
  <2>2. client[c].token # client[d].token
    BY <1>5, <2>1 DEF Unlock, At, Leases, LeaseInv, TokenInv, HasToken
  <2> QED  BY <1>1, <1>5, <2>2 DEF Unlock, unlock_item, remove_item, Restrict
<1>6. CASE ScanDelete
  <2>1. scan.now \in Nat /\ scan.now <= clock
    BY <1>6 DEF ScanDelete, Waiting, TypeOK, Scanning, LeaseInv, PastInv
  <2> QED  BY <1>1, <1>3, <1>6, <2>1
           DEF ScanDelete, delete_expired, Expired, remove_item, Restrict
<1>7. CASE ServerCrash
  BY <1>1, <1>7 DEF ServerCrash, Durable, TypeOK
<1>8. ASSUME NEW c \in Clients, ClientStep(c)
      PROVE  Acquire(c) \/ LoseAnswer(c) \/ Unlock(c) \/ table' = table
  BY <1>8 DEF ClientStep, Lock, IsLocked, Progress, Stamp, Send, Held,
     LeaveBody, Ask, Answer, Fail
<1> QED  BY <1>1, <1>4, <1>5, <1>6, <1>7, <1>8
         DEF Next, vars, ScanWake, ScanFail, Tick

LEMMA BackedStep ==
    TypeOK /\ LeaseInv /\ [Next]_vars => BackedInv'
<1> SUFFICES ASSUME TypeOK, LeaseInv, [Next]_vars, Durable',
                    NEW d \in Clients, NEW k \in Keys, Leases(d, k)'
             PROVE  Backed(d, k)'
  BY DEF BackedInv
<1>1. CASE Acquire(d) /\ client[d].key = k
  <2>1. /\ client'[d].token = client[d].token
        /\ client'[d].until = client[d].until
    BY <1>1, StepMoves DEF Acquire
  <2>2. IsTable(table, Keys)
    BY DEF TypeOK
  <2>3. /\ k \in DOMAIN table' /\ table'[k].value = client[d].token
        /\ table'[k].exp = client[d].until
    <3>1. table' = set_lock_item(table, k, client[d].token, client[d].until)
      BY <1>1 DEF Acquire
    <3>2. CASE k \notin DOMAIN table
      BY <3>1, <3>2 DEF set_lock_item, set_item
    <3>3. CASE k \in DOMAIN table
      BY <2>2, <3>1, <3>3 DEF set_lock_item, IsTable, Row
    <3> QED  BY <3>2, <3>3
  <2> QED  BY <2>1, <2>3 DEF Backed
<1>2. CASE /\ Leases(d, k) /\ Leases(d, k)'
           /\ client'[d].token = client[d].token
           /\ client'[d].until = client[d].until
  <2>1. Backed(d, k)
    BY <1>2, DurableBefore DEF LeaseInv, BackedInv
  <2>2. k \in DOMAIN table' /\ table'[k] = table[k]
    BY <1>2, RowKept
  <2> QED  BY <1>2, <2>1, <2>2 DEF Backed
<1> QED  BY <1>1, <1>2, LeaseEarlier

(* The inductive invariant: the row of a live lease is its owner's, tokens *)
(* are not shared, and no instant on its way to the table is in the future.*)
THEOREM LeasesBacked == Spec => [](TypeOK /\ LeaseInv)
<1>1. Init => TypeOK /\ LeaseInv
  BY DEF Init, TypeOK, IsTable, LeaseInv, TokenInv, PastInv, BackedInv, HasToken,
     Leases, Idle, Waiting
<1>2. TypeOK /\ LeaseInv /\ [Next]_vars => LeaseInv'
  BY TokenStep, PastStep, BackedStep DEF LeaseInv
<1> QED  BY <1>1, <1>2, TypeStep, PTL DEF Spec

(* For every instance, two clients never hold unexpired leases of one lock.*)
THEOREM LeasesExclude == Spec => []ExclusiveWhileLeased
<1>1. TypeOK /\ LeaseInv => ExclusiveWhileLeased
  BY DEF LeaseInv, BackedInv, Backed, TokenInv, ExclusiveWhileLeased, Leases,
     HasToken
<1> QED  BY <1>1, LeasesBacked, PTL

(* For every instance, is_locked answers False only of a lock nobody holds *)
(* an unexpired lease of.                                                  *)
THEOREM FreeIsFree == Spec => FreeMeansFree
<1>1. ASSUME TypeOK, LeaseInv, [Next]_vars, NEW c \in Clients,
             At(c, "querying"), client'[c].pc = "free", Durable,
             NEW d \in Clients, Leases(d, client[c].key)
      PROVE  FALSE
  <2> DEFINE k == client[c].key
  <2>1. client[c] \in AskCall /\ clock \in Nat
    BY <1>1, ClientFields DEF At, TypeOK
  <2>2. client[c].now \in Nat /\ client[c].now <= clock /\ k \in Keys
    BY <1>1, <2>1 DEF AskCall, At, LeaseInv, PastInv
  <2>3. /\ k \in DOMAIN table /\ table[k].exp = client[d].until
        /\ client[d].until \in Nat /\ clock <= client[d].until
    BY <1>1, <2>2, ClientFields DEF LeaseInv, BackedInv, Backed, Leases, Tenure
  <2>4. is_locked_item(table, k, client[c].now)
    BY <2>1, <2>2, <2>3 DEF is_locked_item, Live
  <2>5. ClientStep(c)
    BY <1>1, ClientMoves, ElsewhereKeeps DEF Next, Elsewhere, vars, At
  <2>6. Answer(c) \/ Fail(c)
    BY <1>1, <2>5 DEF ClientStep, Lock, IsLocked, Free, Progress, Stamp, Send,
       Acquire, Held, LeaveBody, Unlock, Ask, LoseAnswer, At
  <2>7. CASE Answer(c)
    <3> DEFINE no == [client[c] EXCEPT !.pc = "free", !.now = 0, !.deadline = 0]
               again == [client[c] EXCEPT !.pc = "asking", !.now = 0]
               locked == is_locked_item(table, client[c].key, client[c].now)
    <3>1. Step(c, IF ~locked THEN no
                  ELSE IF clock >= client[c].deadline THEN Idle ELSE again)
      BY <2>7 DEF Answer
    <3>2. again.pc = "asking"
      BY <2>1 DEF AskCall
    <3>3. locked
      BY <2>4
    <3> HIDE DEF no, again, locked
    <3> QED  BY <1>1, <3>1, <3>2, <3>3, StepMoves DEF Idle
  <2>8. CASE Fail(c)
    BY <1>1, <2>8, StepMoves DEF Fail, Idle
  <2> QED  BY <2>6, <2>7, <2>8
<1>2. TypeOK /\ LeaseInv /\ [Next]_vars =>
        [\A c \in Clients :
            At(c, "querying") /\ client'[c].pc = "free" /\ Durable
            => \A d \in Clients : ~Leases(d, client[c].key)]_vars
  BY <1>1
<1> QED  BY <1>2, LeasesBacked, PTL DEF Spec, FreeMeansFree

-----------------------------------------------------------------------------
(* The refinement. *)

Asking(c) == client[c].pc \in {"polling", "stamped", "sending"}

(* The steps by what they do to the table. *)
LEMMA TableMoves ==
    ASSUME TypeOK, [Next]_vars
    PROVE  \/ \E c \in Clients : Acquire(c) \/ LoseAnswer(c)
           \/ /\ DOMAIN table' \subseteq DOMAIN table
              /\ \A k \in DOMAIN table' : table'[k] = table[k]
<1> DEFINE shrinks == /\ DOMAIN table' \subseteq DOMAIN table
                      /\ \A k \in DOMAIN table' : table'[k] = table[k]
<1>1. ASSUME NEW c \in Clients, ClientStep(c)
      PROVE  Acquire(c) \/ LoseAnswer(c) \/ Unlock(c) \/ table' = table
  BY <1>1 DEF ClientStep, Lock, IsLocked, Progress, Stamp, Send, Held,
     LeaveBody, Ask, Answer, Fail
<1>2. ASSUME NEW c \in Clients, Unlock(c) PROVE shrinks
  BY <1>2 DEF Unlock, unlock_item, remove_item, Restrict
<1>3. CASE ScanDelete
  BY <1>3 DEF ScanDelete, delete_expired, remove_item, Restrict
<1>4. CASE ServerCrash
  BY <1>4 DEF ServerCrash
<1>5. table' = table => shrinks
  OBVIOUS
<1> QED  BY <1>1, <1>2, <1>3, <1>4, <1>5
         DEF Next, vars, ScanWake, ScanFail, Tick

(* A granted row carries the token and the end of its lease. *)
LEMMA GrantedRow ==
    ASSUME TypeOK, NEW c \in Clients, Acquire(c) \/ LoseAnswer(c)
    PROVE  /\ client[c] \in Request /\ client[c].pc = "sending"
           /\ client[c].key \in Keys /\ client[c].token \in Nat
           /\ client[c].until \in Nat /\ client[c].now \in Nat
           /\ DOMAIN table' = DOMAIN table \cup {client[c].key}
           /\ table'[client[c].key].value = client[c].token
           /\ table'[client[c].key].exp = client[c].until
           /\ \A k \in DOMAIN table \ {client[c].key} : table'[k] = table[k]
<1>1. /\ client[c] \in Request /\ client[c].pc = "sending"
      /\ client[c].key \in Keys /\ client[c].token \in Nat
      /\ client[c].until \in Nat /\ client[c].now \in Nat
  <2>1. client[c] \in Request /\ client[c].pc = "sending"
    BY ClientFields DEF Acquire, LoseAnswer, At
  <2> QED  BY <2>1 DEF Request
<1>2. table' = set_lock_item(table, client[c].key, client[c].token,
                             client[c].until)
  BY DEF Acquire, LoseAnswer
<1>3. IsTable(table, Keys)
  BY DEF TypeOK
<1>4. CASE client[c].key \notin DOMAIN table
  BY <1>1, <1>2, <1>4 DEF set_lock_item, set_item
<1>5. CASE client[c].key \in DOMAIN table
  BY <1>1, <1>2, <1>3, <1>5 DEF set_lock_item, IsTable, Row
<1> QED  BY <1>1, <1>4, <1>5

(* No row gets the token of a call that is still asking. *)
LEMMA RowStep == TypeOK /\ TokenInv /\ RowInv /\ [Next]_vars => RowInv'
<1> SUFFICES ASSUME TypeOK, TokenInv, RowInv, [Next]_vars PROVE RowInv'
  OBVIOUS
<1>1. issued \in Nat /\ issued' \in Nat /\ issued <= issued'
  <2>1. issued \in Nat /\ issued' \in Nat
    BY TypeStep DEF TypeOK
  <2>2. ASSUME NEW c \in Clients, ClientStep(c)
        PROVE  issued' = issued \/ issued' = issued + 1
    BY <2>2, ClientKeeps
  <2>3. CASE Elsewhere
    BY <2>1, <2>3, ElsewhereKeeps
  <2> QED  BY <2>1, <2>2, <2>3 DEF Next, vars, Elsewhere
<1>2. ASSUME NEW c \in Clients, Asking(c)'
      PROVE  \/ client'[c].token = issued + 1
             \/ Asking(c) /\ client'[c].token = client[c].token
  <2>1. CASE client'[c] = client[c]
    BY <1>2, <2>1 DEF Asking
  <2>2. CASE ClientStep(c)
    <3>1. CASE client'[c].token = issued + 1
      BY <3>1
    <3>2. CASE HasToken(c) /\ client'[c].token = client[c].token
      <4>1. client[c].pc \notin {"body", "unlocking"}
        <5>1. ASSUME client[c].pc \in {"body", "unlocking"}
              PROVE  LeaveBody(c) \/ Unlock(c) \/ Fail(c)
          BY <2>2, <5>1 DEF ClientStep, Lock, IsLocked, Free, Progress, Stamp,
             Send, Acquire, Held, Ask, Answer, LoseAnswer, At
        <5>2. ASSUME LeaveBody(c) \/ Unlock(c) \/ Fail(c) PROVE ~Asking(c)'
          <6>1. CASE LeaveBody(c)
            <7>1. client[c] \in Tenure
              BY <6>1, ClientFields DEF LeaveBody, At
            <7>2. client'[c] = [client[c] EXCEPT !.pc = "unlocking"]
              BY <6>1, StepMoves DEF LeaveBody
            <7> QED  BY <7>1, <7>2 DEF Tenure, Asking
          <6>2. CASE Unlock(c) \/ Fail(c)
            BY <6>2, StepMoves DEF Unlock, Fail, Idle, Asking
          <6> QED  BY <5>2, <6>1, <6>2
        <5> QED  BY <1>2, <5>1, <5>2
      <4> QED  BY <3>2, <4>1 DEF HasToken, Asking
    <3> QED  BY <1>2, <2>2, <3>1, <3>2, ClientKeeps DEF HasToken, Asking
  <2>3. ASSUME NEW d \in Clients, ClientStep(d), d # c
        PROVE  client'[c] = client[c]
    BY <2>3, ClientMoves
  <2>4. CASE Elsewhere \/ UNCHANGED vars
    BY <2>1, <2>4, ElsewhereKeeps DEF vars
  <2> QED  BY <2>1, <2>2, <2>3, <2>4 DEF Next, Elsewhere
<1>3. CASE /\ DOMAIN table' \subseteq DOMAIN table
           /\ \A k \in DOMAIN table' : table'[k] = table[k]
  BY <1>1, <1>2, <1>3 DEF RowInv, Asking
<1>4. ASSUME NEW d \in Clients, Acquire(d) \/ LoseAnswer(d) PROVE RowInv'
  <2> DEFINE k == client[d].key
  <2>1. /\ DOMAIN table' = DOMAIN table \cup {k}
        /\ table'[k].value = client[d].token /\ table'[k].exp = client[d].until
        /\ \A j \in DOMAIN table \ {k} : table'[j] = table[j]
        /\ client[d].token \in Nat /\ client[d].until \in Nat
        /\ HasToken(d)
    BY <1>4, GrantedRow DEF HasToken
  <2>2. client[d].token <= issued
    BY <2>1 DEF TokenInv
  <2>3. ~Asking(d)'
    BY <1>4, StepMoves DEF Acquire, LoseAnswer, Asking, Idle
  <2>4. ASSUME NEW c \in Clients, Asking(c)'
        PROVE  client'[c].token # client[d].token
    BY <1>1, <1>2, <2>1, <2>2, <2>3, <2>4 DEF TokenInv, HasToken, Asking
  <2>5. ASSUME NEW j \in DOMAIN table', j # k
        PROVE  /\ table'[j].exp \in Nat /\ table'[j].value \in Nat
               /\ table'[j].value <= issued'
               /\ \A c \in Clients : Asking(c)' =>
                     client'[c].token # table'[j].value
    <3>1. j \in DOMAIN table /\ table'[j] = table[j]
      BY <2>1, <2>5
    <3> QED  BY <1>1, <1>2, <3>1 DEF RowInv, Asking
  <2> QED  BY <1>1, <2>1, <2>2, <2>4, <2>5 DEF RowInv, Asking
<1> QED  BY <1>3, <1>4, TableMoves

-----------------------------------------------------------------------------
LEMMA TenantKept ==
    ASSUME TypeOK, NEW d \in Clients,
           \A c \in Clients \ {d} : client'[c] = client[c],
           \/ ~Holding(d) /\ ~Holding(d)'
           \/ LeaveBody(d)
    PROVE  tenant' = tenant
<1>1. CASE ~Holding(d) /\ ~Holding(d)'
  BY <1>1 DEF tenant, Holding
<1>2. CASE LeaveBody(d)
  <2>1. client[d] \in Tenure
    BY <1>2, ClientFields DEF LeaveBody, At
  <2>2. client'[d] = [client[d] EXCEPT !.pc = "unlocking"]
    BY <1>2, StepMoves DEF LeaveBody
  <2>3. /\ Holding(d) /\ Holding(d)'
        /\ client'[d].key = client[d].key
        /\ client'[d].token = client[d].token
    BY <1>2, <2>1, <2>2 DEF Holding, LeaveBody, At, Tenure
  <2> QED  BY <2>3 DEF tenant, Holding
<1> QED  BY <1>1, <1>2

LEMMA TenantLeaves ==
    ASSUME NEW d \in Clients, Holding(d), ~Holding(d)',
           \A c \in Clients \ {d} : client'[c] = client[c]
    PROVE  d \in DOMAIN tenant /\ tenant' = Service!Without(tenant, {d})
BY DEF tenant, Holding, Service!Without

LEMMA Gives ==
    ASSUME TypeOK, TokenInv, PastInv, RowInv, NEW c \in Clients,
           Acquire(c) \/ LoseAnswer(c)
    PROVE  /\ Service!Give(client[c].key)
           /\ lease'[client[c].key].token = client[c].token
<1> DEFINE k == client[c].key
<1>1. /\ k \in Keys /\ client[c].pc = "sending"
      /\ client[c].now \in Nat
      /\ DOMAIN table' = DOMAIN table \cup {k}
      /\ table'[k].value = client[c].token
      /\ \A j \in DOMAIN table \ {k} : table'[j] = table[j]
  BY GrantedRow
<1>2. client[c].now <= clock /\ clock \in Nat /\ clock' = clock
  BY <1>1, StepMoves DEF PastInv, TypeOK, Acquire, LoseAnswer
<1>3. ~Service!Current(k)
  <2> SUFFICES ASSUME k \in DOMAIN table, clock <= table[k].exp PROVE FALSE
    BY DEF Service!Current, lease
  <2>1. ~Live(table[k], client[c].now)
    BY DEF Acquire, LoseAnswer, Takeable
  <2>2. table[k].exp \in Nat
    BY DEF RowInv
  <2> QED  BY <1>1, <1>2, <2>1, <2>2 DEF Live
<1>4. Service!Extends(lease', lease, k) /\ lease'[k].token = client[c].token
  BY <1>1 DEF Service!Extends, lease
<1>5. \A j \in DOMAIN lease : lease[j].token # client[c].token
  BY <1>1 DEF lease, RowInv
<1>6. \A d \in DOMAIN tenant : tenant[d].token # client[c].token
  BY <1>1 DEF tenant, Holding, TokenInv, HasToken
<1> QED  BY <1>2, <1>3, <1>4, <1>5, <1>6 DEF Service!Give, Service!New

LEMMA NextRefines ==
    ASSUME TypeOK, TokenInv, PastInv, RowInv, [Next]_vars
    PROVE  [Service!Next]_(Service!vars)
<1> USE DEF Service!vars
<1>1. ASSUME NEW c \in Clients, Acquire(c) PROVE Service!Next
  <2>1. client[c].pc = "sending" /\ client[c].key \in Keys
    BY <1>1, GrantedRow
  <2>2. /\ client'[c].pc = "body" /\ client'[c].key = client[c].key
        /\ client'[c].token = client[c].token
        /\ \A d \in Clients \ {c} : client'[d] = client[d]
    BY <1>1, StepMoves DEF Acquire
  <2>3. /\ c \notin DOMAIN tenant
        /\ Service!Extends(tenant', tenant, c)
        /\ tenant'[c] = [key |-> client[c].key, token |-> client[c].token]
    BY <2>1, <2>2 DEF tenant, Holding, Service!Extends
  <2>4. Service!Grant(c, client[c].key)
    BY <1>1, <2>3, Gives DEF Service!Grant
  <2> QED  BY <2>1, <2>4 DEF Service!Next
<1>2. ASSUME NEW c \in Clients, LoseAnswer(c) PROVE Service!Next
  <2>1. client[c].pc = "sending" /\ client[c].key \in Keys
    BY <1>2, GrantedRow
  <2>2. tenant' = tenant
    BY <1>2, <2>1, StepMoves, TenantKept DEF LoseAnswer, Holding, Idle
  <2> QED  BY <1>2, <2>1, <2>2, Gives DEF Service!GrantUnanswered, Service!Next
<1>3. ASSUME NEW c \in Clients, Unlock(c) PROVE Service!Next
  <2>1. /\ Holding(c) /\ ~Holding(c)' /\ clock' = clock
        /\ \A d \in Clients \ {c} : client'[d] = client[d]
    BY <1>3, StepMoves DEF Unlock, At, Holding, Idle
  <2>2. Service!Leave(c)
    BY <2>1, TenantLeaves DEF Service!Leave
  <2>3. tenant[c] = [key |-> client[c].key, token |-> client[c].token]
    BY <2>1 DEF tenant
  <2>4. lease' = Service!Without(lease, {k \in DOMAIN lease :
                                            /\ k = tenant[c].key
                                            /\ lease[k].token = tenant[c].token})
    BY <1>3, <2>3 DEF Unlock, unlock_item, remove_item, Restrict, lease,
       Service!Without
  <2> QED  BY <2>2, <2>4 DEF Service!Release, Service!Next
<1>4. ASSUME NEW c \in Clients, Fail(c) PROVE [Service!Next]_(Service!vars)
  <2>1. /\ ~Holding(c)' /\ clock' = clock /\ lease' = lease
        /\ \A d \in Clients \ {c} : client'[d] = client[d]
    BY <1>4, StepMoves DEF Fail, Holding, Idle, lease
  <2>2. CASE Holding(c)
    BY <2>1, <2>2, TenantLeaves
       DEF Service!Leave, Service!Abandon, Service!Next
  <2>3. CASE ~Holding(c)
    BY <2>1, <2>3, TenantKept
  <2> QED  BY <2>2, <2>3
<1>5. ASSUME NEW c \in Clients, ClientStep(c),
             ~Acquire(c), ~LoseAnswer(c), ~Unlock(c), ~Fail(c)
      PROVE  lease' = lease /\ tenant' = tenant /\ clock' = clock
  <2>1. table' = table
    BY <1>5 DEF ClientStep, Lock, IsLocked, Progress, Stamp, Send, Held,
       LeaveBody, Ask, Answer
  <2>2. clock' = clock /\ \A d \in Clients \ {c} : client'[d] = client[d]
    BY <1>5, ClientMoves
  <2>3. LeaveBody(c) \/ ~Holding(c)
    BY <1>5 DEF ClientStep, Lock, IsLocked, Free, Progress, Stamp, Send, Held,
       Ask, Answer, At, Holding
  <2>4. LeaveBody(c) \/ ~Holding(c)'
    BY <1>5, TenureSteps DEF Holding
  <2>5. tenant' = tenant
    BY <2>2, <2>3, <2>4, TenantKept
  <2> QED  BY <2>1, <2>2, <2>5 DEF lease
<1>6. CASE ScanDelete
  <2>1. client' = client /\ clock' = clock /\ clock \in Nat
    BY <1>6 DEF ScanDelete, TypeOK
  <2>2. scan.now \in Nat /\ scan.now <= clock
    BY <1>6 DEF ScanDelete, Waiting, TypeOK, Scanning, PastInv
  <2> DEFINE S == {k \in DOMAIN table : Expired(table[k], scan.now)}
  <2>3. S \in SUBSET {k \in DOMAIN lease : ~Service!Current(k)}
    BY <2>1, <2>2 DEF lease, Service!Current, Expired, Live, RowInv
  <2>4. lease' = Service!Without(lease, S)
    BY <1>6 DEF ScanDelete, delete_expired, remove_item, Restrict, lease,
       Service!Without
  <2>5. tenant' = tenant
    BY <2>1 DEF tenant, Holding
  <2> QED  BY <2>1, <2>3, <2>4, <2>5 DEF Service!Collect, Service!Next
<1>7. CASE ServerCrash
  <2>1. tenant' = tenant /\ clock' = clock
    BY <1>7 DEF ServerCrash, tenant, Holding
  <2>2. CASE UseWal
    BY <1>7, <2>1, <2>2 DEF ServerCrash, lease
  <2>3. CASE ~UseWal
    <3>1. lease' = Service!Without(lease, DOMAIN lease)
      BY <1>7, <2>3 DEF ServerCrash, lease, Service!Without
    <3> QED  BY <2>1, <2>3, <3>1 DEF Service!Lose, Service!Next
  <2> QED  BY <2>2, <2>3
<1>8. CASE Tick
  BY <1>8 DEF Tick, lease, tenant, Holding, Service!Tick, Service!Next
<1>9. CASE ScanWake \/ ScanFail \/ UNCHANGED vars
  BY <1>9 DEF ScanWake, ScanFail, vars, lease, tenant, Holding
<1> QED  BY <1>1, <1>2, <1>3, <1>4, <1>5, <1>6, <1>7, <1>8, <1>9 DEF Next

(* The lock protocol implements the abstract lease service, whatever the   *)
(* clients, the locks and the durations: each step is a Grant, a Release,  *)
(* an Abandon, a GrantUnanswered, a Collect, a Lose or a Tick, or touches  *)
(* no lease.                                                               *)
THEOREM Implementation == Spec => ImplementsLeases
<1> DEFINE Inv == TypeOK /\ TokenInv /\ PastInv /\ RowInv
<1>1. Init => Inv
  BY DEF Init, TypeOK, IsTable, TokenInv, PastInv, RowInv, HasToken, Idle, Waiting
<1>2. Inv /\ [Next]_vars => Inv'
  BY TypeStep, TokenStep, PastStep, RowStep
<1>3. Init => Service!Init
  BY DEF Init, Service!Init, lease, tenant, Holding, Idle
<1>4. Inv /\ [Next]_vars => [Service!Next]_(Service!vars)
  BY NextRefines
<1> QED  BY <1>1, <1>2, <1>3, <1>4, PTL DEF Spec, ImplementsLeases, Service!Spec

-----------------------------------------------------------------------------
(* The end of every lease. *)

(* What a client has stamped lies within its expire from now. *)
LEMMA StampStep == TypeOK /\ StampInv /\ [Next]_vars => StampInv'
<1> SUFFICES ASSUME TypeOK, StampInv, [Next]_vars, NEW c \in Clients,
                    client'[c].pc \in {"stamped", "sending"}
             PROVE  client'[c].until <= clock' + parse_duration(client'[c].expire)
  BY DEF StampInv
<1>1. clock \in Nat /\ clock' \in Nat /\ clock <= clock'
  <2>1. clock \in Nat /\ clock' \in Nat
    BY TypeStep DEF TypeOK
  <2> QED  BY <2>1, ClientMoves, ElsewhereKeeps DEF Next, Elsewhere, vars
<1>2. CASE client'[c] = client[c]
  <2>1. client[c] \in Request
    BY <1>2, ClientFields
  <2>2. client[c].until \in Nat /\ parse_duration(client[c].expire) \in Nat
    BY <2>1, LockAssumption DEF Request
  <2>3. client[c].until <= clock + parse_duration(client[c].expire)
    BY <1>2 DEF StampInv
  <2> HIDE DEF StampInv
  <2> QED  BY <1>1, <1>2, <2>2, <2>3
<1>3. CASE Stamp(c)
  <2>1. client[c] \in Request
    BY <1>3, ClientFields DEF Stamp, At
  <2> DEFINE until == clock + parse_duration(client[c].expire)
  <2>2. client'[c] = [client[c] EXCEPT !.pc = "stamped", !.until = until]
    BY <1>3, StepMoves DEF Stamp
  <2>3. until \in Nat
    BY <1>1, <2>1, LockAssumption DEF Request
  <2> HIDE DEF until
  <2>4. client'[c].until = until /\ client'[c].expire = client[c].expire
    BY <2>1, <2>2 DEF Request
  <2>5. clock' = clock
    BY <1>3 DEF Stamp, Step
  <2> QED  BY <2>3, <2>4, <2>5 DEF until
<1>4. CASE Send(c)
  <2>1. client[c] \in Request /\ client[c].pc = "stamped"
    BY <1>4, ClientFields DEF Send, At
  <2>2. client'[c] = [client[c] EXCEPT !.pc = "sending", !.now = clock]
    BY <1>4, StepMoves DEF Send
  <2>3. client'[c].until = client[c].until /\ client'[c].expire = client[c].expire
    BY <2>1, <2>2 DEF Request
  <2>4. clock' = clock
    BY <1>4 DEF Send, Step
  <2> QED  BY <2>1, <2>3, <2>4 DEF StampInv
<1>5. ASSUME ClientStep(c)
      PROVE  Stamp(c) \/ Send(c)
  <2>1. ASSUME NEW k \in Keys, NEW e \in Expires, NEW polls \in BOOLEAN,
               Lock(c, k, e, polls)
        PROVE  client'[c].pc = "polling"
    BY <2>1, StepMoves DEF Lock
  <2>2. ASSUME NEW k \in Keys, NEW w \in Waits, IsLocked(c, k, w)
        PROVE  client'[c].pc = "asking"
    BY <2>2, StepMoves DEF IsLocked
  <2>3. ~(Acquire(c) \/ Unlock(c) \/ LoseAnswer(c) \/ Fail(c))
    BY StepMoves DEF Acquire, Unlock, LoseAnswer, Fail, Idle
  <2>4. ~Held(c)
    <3> SUFFICES ASSUME Held(c) PROVE FALSE
      OBVIOUS
    <3> DEFINE again == [client[c] EXCEPT !.pc = "polling", !.until = 0, !.now = 0]
    <3>1. client[c] \in Request
      BY ClientFields DEF Held, At
    <3>2. again.pc = "polling"
      BY <3>1 DEF Request
    <3>3. Step(c, IF client[c].polls THEN again ELSE Idle)
      BY DEF Held
    <3> HIDE DEF again
    <3> QED  BY <3>2, <3>3, StepMoves DEF Idle
  <2>5. ~LeaveBody(c)
    BY StepMoves, ClientFields DEF LeaveBody, At, Tenure
  <2>6. ASSUME Ask(c) PROVE client'[c].pc = "querying"
    <3>1. client[c] \in AskCall
      BY <2>6, ClientFields DEF Ask, At
    <3>2. client'[c] = [client[c] EXCEPT !.pc = "querying", !.now = clock]
      BY <2>6, StepMoves DEF Ask
    <3> QED  BY <3>1, <3>2 DEF AskCall
  <2>7. ~Answer(c)
    <3> SUFFICES ASSUME Answer(c) PROVE FALSE
      OBVIOUS
    <3> DEFINE no == [client[c] EXCEPT !.pc = "free", !.now = 0, !.deadline = 0]
               again == [client[c] EXCEPT !.pc = "asking", !.now = 0]
               locked == is_locked_item(table, client[c].key, client[c].now)
    <3>1. no.pc = "free" /\ again.pc = "asking"
      BY ClientFields DEF Answer, At, AskCall
    <3>2. Step(c, IF ~locked THEN no
                  ELSE IF clock >= client[c].deadline THEN Idle ELSE again)
      BY DEF Answer
    <3> HIDE DEF no, again, locked
    <3> QED  BY <3>1, <3>2, StepMoves DEF Idle
  <2> QED  BY <1>5, <2>1, <2>2, <2>3, <2>4, <2>5, <2>6, <2>7
           DEF ClientStep, Progress
<1>6. client'[c] = client[c] \/ ClientStep(c)
  <2>1. ASSUME NEW d \in Clients \ {c}, ClientStep(d) PROVE client'[c] = client[c]
    BY <2>1, ClientMoves
  <2> QED  BY <2>1, ElsewhereKeeps DEF Next, Elsewhere, vars
<1> QED  BY <1>2, <1>3, <1>4, <1>5, <1>6

(* A row is bounded by its call when it is written, and by the clock ever  *)
(* after.                                                                  *)
LEMMA RunOutStep ==
    /\ TypeOK /\ TokenInv /\ RowInv /\ StampInv /\ LeasesRunOut /\ [Next]_vars
    => LeasesRunOut'
<1> SUFFICES ASSUME TypeOK, TokenInv, RowInv, StampInv, LeasesRunOut, [Next]_vars,
                    NEW k \in DOMAIN table'
             PROVE  \E e \in Expires :
                        /\ table'[k].exp # Infinity
                        /\ table'[k].exp <= clock' + parse_duration(e)
  BY DEF LeasesRunOut
<1>1. clock \in Nat /\ clock' \in Nat /\ clock <= clock'
  <2>1. clock \in Nat /\ clock' \in Nat
    BY TypeStep DEF TypeOK
  <2> QED  BY <2>1, ClientMoves, ElsewhereKeeps DEF Next, Elsewhere, vars
<1>2. CASE k \in DOMAIN table /\ table'[k] = table[k]
  <2>1. PICK e \in Expires : table[k].exp <= clock + parse_duration(e)
    BY <1>2 DEF LeasesRunOut
  <2>2. parse_duration(e) \in Nat
    BY LockAssumption
  <2>3. table[k].exp \in Nat /\ table[k].exp # Infinity
    BY <1>2, SqlAssumption DEF RowInv
  <2>4. table'[k].exp # Infinity /\ table'[k].exp <= clock' + parse_duration(e)
    BY <1>1, <1>2, <2>1, <2>2, <2>3
  <2> QED  BY <2>4
<1>3. ASSUME NEW c \in Clients, Acquire(c) \/ LoseAnswer(c), k = client[c].key
      PROVE  \E e \in Expires : /\ table'[k].exp # Infinity
                                /\ table'[k].exp <= clock' + parse_duration(e)
  <2>1. /\ table'[k].exp = client[c].until /\ client[c].until \in Nat
        /\ client[c] \in Request /\ client[c].pc = "sending"
    BY <1>3, GrantedRow
  <2>2. client[c].expire \in Expires
    BY <2>1 DEF Request
  <2>3. client[c].until <= clock + parse_duration(client[c].expire)
    BY <2>1 DEF StampInv
  <2>4. clock' = clock
    BY <1>3 DEF Acquire, LoseAnswer, Step
  <2>5. table'[k].exp # Infinity
    BY <2>1, SqlAssumption
  <2> QED  BY <2>1, <2>2, <2>3, <2>4, <2>5
<1>4. ASSUME NEW c \in Clients, Acquire(c) \/ LoseAnswer(c), k # client[c].key
      PROVE  k \in DOMAIN table /\ table'[k] = table[k]
  BY <1>4, GrantedRow
<1> QED  BY <1>2, <1>3, <1>4, TableMoves

(* Whoever dies, overruns its lease or loses its answer, no lock is stuck: *)
(* from any moment on, a row can be taken over after the longest expire,   *)
(* without the scanner and whatever the clients and the durations.         *)
THEOREM NoLockIsStuck == Spec => []LeasesRunOut
<1> DEFINE Inv == /\ TypeOK /\ TokenInv /\ RowInv /\ StampInv /\ LeasesRunOut
<1>1. Init => Inv
  BY DEF Init, TypeOK, IsTable, TokenInv, RowInv, HasToken, Idle, Waiting,
     StampInv, LeasesRunOut
<1>2. Inv /\ [Next]_vars => Inv'
  BY TypeStep, TokenStep, RowStep, StampStep, RunOutStep
<1> QED  BY <1>1, <1>2, PTL DEF Spec
=============================================================================
