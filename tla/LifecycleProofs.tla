--------------------------- MODULE LifecycleProofs ---------------------------
(***************************************************************************)
(* Proofs about Lifecycle, for any workers, scanners, tables and options.  *)
(***************************************************************************)
EXTENDS Lifecycle, TLAPS

(* The inductive invariant. *)
Inv == /\ TypeOK /\ DdlInv /\ TableReady
       /\ ScannerInv /\ OneScanner /\ HasScanner /\ ToldInv

LEMMA InitInv == ASSUME Init PROVE Inv
<1> USE LifecycleAssumption DEF Init, Threads
<1>1. options \in Options
  OBVIOUS
<1>2. TypeOK
  BY <1>1 DEF TypeOK, Options, Busy, new_pool
<1>3. DdlInv /\ TableReady
  BY DEF DdlInv, TableReady, InDdl, At
<1>4. ScannerInv /\ OneScanner /\ HasScanner /\ ToldInv
  BY DEF ScannerInv, OneScanner, HasScanner, ToldInv, Alive
<1> QED
  BY <1>2, <1>3, <1>4 DEF Inv

(* Type correctness. *)
LEMMA TypeKept == ASSUME TypeOK, [Next]_vars PROVE TypeOK'
<1> USE LifecycleAssumption DEF Threads, object, schema, TypeOK, Busy,
        Options, Goto, At, Alive
<1>1. ASSUME NEW w \in Workers, Call(w) PROVE TypeOK'
  BY <1>1 DEF Call, Begin
<1>2. ASSUME NEW w \in Workers, CallCancelled(w) PROVE TypeOK'
  BY <1>2 DEF CallCancelled
<1>3. ASSUME NEW t \in Threads, DdlLock(t) PROVE TypeOK'
  BY <1>3 DEF DdlLock
<1>4. ASSUME NEW t \in Threads, DdlAlreadyDone(t) PROVE TypeOK'
  BY <1>4 DEF DdlAlreadyDone
<1>5. ASSUME NEW t \in Threads, DdlConnect(t) PROVE TypeOK'
  BY <1>5 DEF DdlConnect, Connected
<1>6. ASSUME NEW t \in Threads, DdlCommit(t) PROVE TypeOK'
  BY <1>6 DEF DdlCommit, Create
<1>7. ASSUME NEW t \in Threads, DdlFails(t) PROVE TypeOK'
  BY <1>7 DEF DdlFails, Create, Rest
<1>8. ASSUME NEW t \in Threads, Execute(t) PROVE TypeOK'
  BY <1>8 DEF Execute, Connected, Rest
<1>9. ASSUME NEW t \in Threads, ExecuteFails(t) PROVE TypeOK'
  BY <1>9 DEF ExecuteFails, Rest
<1>10. ASSUME NEW s \in Scanners, ScanWake(s) PROVE TypeOK'
  BY <1>10 DEF ScanWake, Begin
<1>11. ASSUME NEW s \in Scanners, ScanStops(s) PROVE TypeOK'
  BY <1>11 DEF ScanStops
<1>12. ASSUME NEW s \in Scanners, Enter(s) PROVE TypeOK'
  BY <1>12 DEF Enter, Running
<1>13. CASE EnterIdly
  BY <1>13 DEF EnterIdly, Running
<1>14. CASE Close
  BY <1>14 DEF Close, Running
<1>15. CASE Joined
  BY <1>15 DEF Joined
<1>16. CASE GiveUp
  BY <1>16 DEF GiveUp
<1>17. CASE Cancel
  BY <1>17 DEF Cancel, Create
<1>18. CASE ClosePool
  BY <1>18 DEF ClosePool
<1>19. ASSUME NEW tb \in Tables, OtherCreates(tb) PROVE TypeOK'
  BY <1>19 DEF OtherCreates, Create
<1>20. CASE UNCHANGED vars
  BY <1>20 DEF vars
<1> QED
  BY <1>1, <1>2, <1>3, <1>4, <1>5, <1>6, <1>7, <1>8, <1>9, <1>10, <1>11,
      <1>12, <1>13, <1>14, <1>15, <1>16, <1>17, <1>18, <1>19, <1>20 DEF Next,
      TakeDdlLock, Progress, ScannerStep, OwnerStep

(* _ddl_lock is held by the thread in the DDL, before the flag is set. *)
LEMMA DdlKept == ASSUME TypeOK, DdlInv, [Next]_vars PROVE DdlInv'
<1> USE LifecycleAssumption DEF Threads, object, schema, TypeOK, DdlInv,
        InDdl, Goto, At, Alive
<1>1. ASSUME NEW w \in Workers, Call(w) PROVE DdlInv'
  BY <1>1 DEF Call, Begin
<1>2. ASSUME NEW w \in Workers, CallCancelled(w) PROVE DdlInv'
  BY <1>2 DEF CallCancelled
<1>3. ASSUME NEW t \in Threads, DdlLock(t) PROVE DdlInv'
  BY <1>3 DEF DdlLock
<1>4. ASSUME NEW t \in Threads, DdlAlreadyDone(t) PROVE DdlInv'
  BY <1>4 DEF DdlAlreadyDone
<1>5. ASSUME NEW t \in Threads, DdlConnect(t) PROVE DdlInv'
  BY <1>5 DEF DdlConnect, Connected
<1>6. ASSUME NEW t \in Threads, DdlCommit(t) PROVE DdlInv'
  BY <1>6 DEF DdlCommit, Create
<1>7. ASSUME NEW t \in Threads, DdlFails(t) PROVE DdlInv'
  BY <1>7 DEF DdlFails, Create, Rest
<1>8. ASSUME NEW t \in Threads, Execute(t) PROVE DdlInv'
  BY <1>8 DEF Execute, Connected, Rest
<1>9. ASSUME NEW t \in Threads, ExecuteFails(t) PROVE DdlInv'
  BY <1>9 DEF ExecuteFails, Rest
<1>10. ASSUME NEW s \in Scanners, ScanWake(s) PROVE DdlInv'
  BY <1>10 DEF ScanWake, Begin
<1>11. ASSUME NEW s \in Scanners, ScanStops(s) PROVE DdlInv'
  BY <1>11 DEF ScanStops
<1>12. ASSUME NEW s \in Scanners, Enter(s) PROVE DdlInv'
  BY <1>12 DEF Enter, Running
<1>13. CASE EnterIdly
  BY <1>13 DEF EnterIdly, Running
<1>14. CASE Close
  BY <1>14 DEF Close, Running
<1>15. CASE Joined
  BY <1>15 DEF Joined
<1>16. CASE GiveUp
  BY <1>16 DEF GiveUp
<1>17. CASE Cancel
  BY <1>17 DEF Cancel, Create
<1>18. CASE ClosePool
  BY <1>18 DEF ClosePool
<1>19. ASSUME NEW tb \in Tables, OtherCreates(tb) PROVE DdlInv'
  BY <1>19 DEF OtherCreates, Create
<1>20. CASE UNCHANGED vars
  BY <1>20 DEF vars
<1> QED
  BY <1>1, <1>2, <1>3, <1>4, <1>5, <1>6, <1>7, <1>8, <1>9, <1>10, <1>11,
      <1>12, <1>13, <1>14, <1>15, <1>16, <1>17, <1>18, <1>19, <1>20 DEF Next,
      TakeDdlLock, Progress, ScannerStep, OwnerStep

(* The flag is set after the commit, and tables stay. *)
LEMMA ReadyKept == ASSUME TypeOK, DdlInv, TableReady, [Next]_vars PROVE
      TableReady'
<1> USE LifecycleAssumption DEF Threads, object, schema, TypeOK, DdlInv,
        TableReady, InDdl, Goto, At, Alive
<1>1. ASSUME NEW w \in Workers, Call(w) PROVE TableReady'
  BY <1>1 DEF Call, Begin
<1>2. ASSUME NEW w \in Workers, CallCancelled(w) PROVE TableReady'
  BY <1>2 DEF CallCancelled
<1>3. ASSUME NEW t \in Threads, DdlLock(t) PROVE TableReady'
  BY <1>3 DEF DdlLock
<1>4. ASSUME NEW t \in Threads, DdlAlreadyDone(t) PROVE TableReady'
  BY <1>4 DEF DdlAlreadyDone
<1>5. ASSUME NEW t \in Threads, DdlConnect(t) PROVE TableReady'
  BY <1>5 DEF DdlConnect, Connected
<1>6. ASSUME NEW t \in Threads, DdlCommit(t) PROVE TableReady'
  BY <1>6 DEF DdlCommit, Create
<1>7. ASSUME NEW t \in Threads, DdlFails(t) PROVE TableReady'
  BY <1>7 DEF DdlFails, Create, Rest
<1>8. ASSUME NEW t \in Threads, Execute(t) PROVE TableReady'
  BY <1>8 DEF Execute, Connected, Rest
<1>9. ASSUME NEW t \in Threads, ExecuteFails(t) PROVE TableReady'
  BY <1>9 DEF ExecuteFails, Rest
<1>10. ASSUME NEW s \in Scanners, ScanWake(s) PROVE TableReady'
  BY <1>10 DEF ScanWake, Begin
<1>11. ASSUME NEW s \in Scanners, ScanStops(s) PROVE TableReady'
  BY <1>11 DEF ScanStops
<1>12. ASSUME NEW s \in Scanners, Enter(s) PROVE TableReady'
  BY <1>12 DEF Enter, Running
<1>13. CASE EnterIdly
  BY <1>13 DEF EnterIdly, Running
<1>14. CASE Close
  BY <1>14 DEF Close, Running
<1>15. CASE Joined
  BY <1>15 DEF Joined
<1>16. CASE GiveUp
  BY <1>16 DEF GiveUp
<1>17. CASE Cancel
  BY <1>17 DEF Cancel, Create
<1>18. CASE ClosePool
  BY <1>18 DEF ClosePool
<1>19. ASSUME NEW tb \in Tables, OtherCreates(tb) PROVE TableReady'
  BY <1>19 DEF OtherCreates, Create
<1>20. CASE UNCHANGED vars
  BY <1>20 DEF vars
<1> QED
  BY <1>1, <1>2, <1>3, <1>4, <1>5, <1>6, <1>7, <1>8, <1>9, <1>10, <1>11,
      <1>12, <1>13, <1>14, <1>15, <1>16, <1>17, <1>18, <1>19, <1>20 DEF Next,
      TakeDdlLock, Progress, ScannerStep, OwnerStep

(* What the owner knows of its scanner. *)
LEMMA HandleKept == ASSUME TypeOK, ScannerInv, HasScanner, [Next]_vars PROVE
      ScannerInv' /\ HasScanner'
<1> USE LifecycleAssumption DEF Threads, object, schema, TypeOK, ScannerInv,
        HasScanner, Running, Alive, Goto, At
<1>1. ASSUME NEW w \in Workers, Call(w) PROVE ScannerInv' /\ HasScanner'
  BY <1>1 DEF Call, Begin
<1>2. ASSUME NEW w \in Workers, CallCancelled(w) PROVE ScannerInv' /\ HasScanner'
  BY <1>2 DEF CallCancelled
<1>3. ASSUME NEW t \in Threads, DdlLock(t) PROVE ScannerInv' /\ HasScanner'
  BY <1>3 DEF DdlLock
<1>4. ASSUME NEW t \in Threads, DdlAlreadyDone(t) PROVE ScannerInv' /\ HasScanner'
  BY <1>4 DEF DdlAlreadyDone
<1>5. ASSUME NEW t \in Threads, DdlConnect(t) PROVE ScannerInv' /\ HasScanner'
  BY <1>5 DEF DdlConnect, Connected
<1>6. ASSUME NEW t \in Threads, DdlCommit(t) PROVE ScannerInv' /\ HasScanner'
  BY <1>6 DEF DdlCommit, Create
<1>7. ASSUME NEW t \in Threads, DdlFails(t) PROVE ScannerInv' /\ HasScanner'
  BY <1>7 DEF DdlFails, Create, Rest
<1>8. ASSUME NEW t \in Threads, Execute(t) PROVE ScannerInv' /\ HasScanner'
  BY <1>8 DEF Execute, Connected, Rest
<1>9. ASSUME NEW t \in Threads, ExecuteFails(t) PROVE ScannerInv' /\ HasScanner'
  BY <1>9 DEF ExecuteFails, Rest
<1>10. ASSUME NEW s \in Scanners, ScanWake(s) PROVE ScannerInv' /\ HasScanner'
  BY <1>10 DEF ScanWake, Begin
<1>11. ASSUME NEW s \in Scanners, ScanStops(s) PROVE ScannerInv' /\ HasScanner'
  BY <1>11 DEF ScanStops
<1>12. ASSUME NEW s \in Scanners, Enter(s) PROVE ScannerInv' /\ HasScanner'
  BY <1>12 DEF Enter, Running
<1>13. CASE EnterIdly
  BY <1>13 DEF EnterIdly, Running
<1>14. CASE Close
  BY <1>14 DEF Close, Running
<1>15. CASE Joined
  BY <1>15 DEF Joined
<1>16. CASE GiveUp
  BY <1>16 DEF GiveUp
<1>17. CASE Cancel
  BY <1>17 DEF Cancel, Create
<1>18. CASE ClosePool
  BY <1>18 DEF ClosePool
<1>19. ASSUME NEW tb \in Tables, OtherCreates(tb) PROVE ScannerInv' /\ HasScanner'
  BY <1>19 DEF OtherCreates, Create
<1>20. CASE UNCHANGED vars
  BY <1>20 DEF vars
<1> QED
  BY <1>1, <1>2, <1>3, <1>4, <1>5, <1>6, <1>7, <1>8, <1>9, <1>10, <1>11,
      <1>12, <1>13, <1>14, <1>15, <1>16, <1>17, <1>18, <1>19, <1>20 DEF Next,
      TakeDdlLock, Progress, ScannerStep, OwnerStep

(* No second scanner is started beside a live one. *)
LEMMA OneKept == ASSUME TypeOK, ScannerInv, OneScanner, [Next]_vars PROVE
      OneScanner'
<1> USE LifecycleAssumption DEF Threads, object, schema, TypeOK, ScannerInv,
        OneScanner, Alive, Goto, At
<1>1. ASSUME NEW w \in Workers, Call(w) PROVE OneScanner'
  BY <1>1 DEF Call, Begin
<1>2. ASSUME NEW w \in Workers, CallCancelled(w) PROVE OneScanner'
  BY <1>2 DEF CallCancelled
<1>3. ASSUME NEW t \in Threads, DdlLock(t) PROVE OneScanner'
  BY <1>3 DEF DdlLock
<1>4. ASSUME NEW t \in Threads, DdlAlreadyDone(t) PROVE OneScanner'
  BY <1>4 DEF DdlAlreadyDone
<1>5. ASSUME NEW t \in Threads, DdlConnect(t) PROVE OneScanner'
  BY <1>5 DEF DdlConnect, Connected
<1>6. ASSUME NEW t \in Threads, DdlCommit(t) PROVE OneScanner'
  BY <1>6 DEF DdlCommit, Create
<1>7. ASSUME NEW t \in Threads, DdlFails(t) PROVE OneScanner'
  BY <1>7 DEF DdlFails, Create, Rest
<1>8. ASSUME NEW t \in Threads, Execute(t) PROVE OneScanner'
  BY <1>8 DEF Execute, Connected, Rest
<1>9. ASSUME NEW t \in Threads, ExecuteFails(t) PROVE OneScanner'
  BY <1>9 DEF ExecuteFails, Rest
<1>10. ASSUME NEW s \in Scanners, ScanWake(s) PROVE OneScanner'
  BY <1>10 DEF ScanWake, Begin
<1>11. ASSUME NEW s \in Scanners, ScanStops(s) PROVE OneScanner'
  BY <1>11 DEF ScanStops
<1>12. ASSUME NEW s \in Scanners, Enter(s) PROVE OneScanner'
  BY <1>12 DEF Enter, Running
<1>13. CASE EnterIdly
  BY <1>13 DEF EnterIdly, Running
<1>14. CASE Close
  BY <1>14 DEF Close, Running
<1>15. CASE Joined
  BY <1>15 DEF Joined
<1>16. CASE GiveUp
  BY <1>16 DEF GiveUp
<1>17. CASE Cancel
  BY <1>17 DEF Cancel, Create
<1>18. CASE ClosePool
  BY <1>18 DEF ClosePool
<1>19. ASSUME NEW tb \in Tables, OtherCreates(tb) PROVE OneScanner'
  BY <1>19 DEF OtherCreates, Create
<1>20. CASE UNCHANGED vars
  BY <1>20 DEF vars
<1> QED
  BY <1>1, <1>2, <1>3, <1>4, <1>5, <1>6, <1>7, <1>8, <1>9, <1>10, <1>11,
      <1>12, <1>13, <1>14, <1>15, <1>16, <1>17, <1>18, <1>19, <1>20 DEF Next,
      TakeDdlLock, Progress, ScannerStep, OwnerStep

(* A scanner comes to life by being started, and by nothing else. *)
LEMMA OnlyEnterStarts ==
    ASSUME TypeOK, [Next]_vars, ~\E s \in Scanners : Enter(s)
    PROVE  \A s \in Scanners : Alive(s)' => Alive(s)
<1> USE LifecycleAssumption DEF Threads, TypeOK, Alive, Goto, At
<1>1. ASSUME NEW w \in Workers, Call(w) \/ CallCancelled(w)
      PROVE  \A s \in Scanners : pc'[s] = pc[s]
  BY <1>1 DEF Call, Begin, CallCancelled
<1>2. ASSUME NEW t \in Threads, TakeDdlLock(t) \/ Progress(t)
      PROVE  \A s \in Scanners : Alive(s)' => Alive(s)
  BY <1>2 DEF TakeDdlLock, DdlLock, DdlAlreadyDone, Progress, DdlConnect,
     DdlCommit, DdlFails, Execute, ExecuteFails
<1>3. ASSUME NEW u \in Scanners, ScanWake(u) \/ ScanStops(u)
      PROVE  \A s \in Scanners : Alive(s)' => Alive(s)
  BY <1>3 DEF ScanWake, ScanStops, Begin
<1>4. CASE OwnerStep
  BY <1>4 DEF OwnerStep, EnterIdly, Close, Joined, GiveUp, Cancel, ClosePool
<1>5. CASE UNCHANGED vars \/ \E tb \in Tables : OtherCreates(tb)
  BY <1>5 DEF OtherCreates, vars
<1> QED
  BY <1>1, <1>2, <1>3, <1>4, <1>5 DEF Next, ScannerStep

(* The event, once set, is cleared by a new scanner only. *)
LEMMA ToldKept ==
    ASSUME TypeOK, ScannerInv, OneScanner, ToldInv, [Next]_vars
    PROVE  ToldInv'
<1> USE DEF ToldInv
<1>1. ASSUME NEW s \in Scanners, Enter(s) PROVE ToldInv'
  BY <1>1 DEF Enter
<1>2. ASSUME ~\E s \in Scanners : Enter(s), UNCHANGED <<options, object>>
      PROVE  ToldInv'
  BY <1>2, OnlyEnterStarts DEF object
<1>3. CASE OwnerStep
  BY <1>3, OnlyEnterStarts DEF OwnerStep, EnterIdly, Close, Joined, GiveUp, Cancel,
     ClosePool, Enter, ScannerInv
<1>4. ASSUME NEW w \in Workers, Call(w) \/ CallCancelled(w)
      PROVE  UNCHANGED <<options, object>>
  BY <1>4 DEF Call, Begin, CallCancelled
<1>5. ASSUME NEW t \in Threads, TakeDdlLock(t) \/ Progress(t)
      PROVE  UNCHANGED <<options, object>>
  BY <1>5 DEF TakeDdlLock, DdlLock, DdlAlreadyDone, Progress, DdlConnect,
     DdlCommit, DdlFails, Execute, ExecuteFails
<1>6. ASSUME NEW s \in Scanners, ScanWake(s) \/ ScanStops(s)
      PROVE  UNCHANGED <<options, object>>
  BY <1>6 DEF ScanWake, ScanStops, Begin
<1>7. ASSUME NEW tb \in Tables, OtherCreates(tb) PROVE UNCHANGED <<options, object>>
  BY <1>7 DEF OtherCreates
<1>8. CASE UNCHANGED vars
  BY <1>8, <1>2 DEF vars, object, Enter
<1> QED
  BY <1>1, <1>2, <1>3, <1>4, <1>5, <1>6, <1>7, <1>8 DEF Next, ScannerStep

LEMMA InvStep == Inv /\ [Next]_vars => Inv'
BY TypeKept, DdlKept, ReadyKept, HandleKept, OneKept, ToldKept DEF Inv

(* The inductive invariant behind the theorems below. *)
THEOREM Invariant == Spec => []Inv
<1>1. Init => Inv
  BY InitInv
<1> QED
  BY <1>1, InvStep, PTL DEF Spec

(* Every reachable state of every instance is well typed: a pool of the    *)
(* threads is never waiting to be opened.                                  *)
THEOREM TypeCorrect == Spec => []TypeOK
<1>1. Inv => TypeOK
  BY DEF Inv
<1> QED
  BY <1>1, Invariant, PTL

(* For any number of threads and processes, and any failures of the DDL,   *)
(* no statement is sent before the table exists.                           *)
THEOREM TableIsReady == Spec => []TableReady
<1>1. Inv => TableReady
  BY DEF Inv
<1> QED
  BY <1>1, Invariant, PTL

(* For any number of threads, one at a time runs the DDL of a cache, and   *)
(* none after it has succeeded: _ddl_lock is what keeps them apart.        *)
THEOREM DdlRunsOnce == Spec => []DdlOnce
<1>1. Inv => DdlOnce
  <2> SUFFICES ASSUME Inv, NEW t \in Threads, InDdl(t)
               PROVE  ~table_created /\ \A u \in Threads : InDdl(u) => u = t
    BY DEF DdlOnce
  <2>1. ddl_lock = t /\ ddl_lock # Null
    BY LifecycleAssumption DEF Inv, DdlInv
  <2> QED
    BY <2>1 DEF Inv, DdlInv
<1> QED
  BY <1>1, Invariant, PTL

(* However often the cache is entered and closed, nested or not, there is  *)
(* one scanner, known to close(), until a close() gives up on a thread.    *)
THEOREM SingleScanner == Spec => []OneScanner
<1>1. Inv => OneScanner
  BY DEF Inv
<1> QED
  BY <1>1, Invariant, PTL

(* Inside the with block the scanner is running and not told to stop,      *)
(* whatever its scans and its DDL ran into.                                *)
THEOREM ScannerRuns == Spec => []HasScanner
<1>1. Inv => HasScanner
  BY DEF Inv
<1> QED
  BY <1>1, Invariant, PTL

(* After close(), and until the cache is entered again, the only scanners  *)
(* alive are threads it had to give up on, and they have been told to      *)
(* stop: for any nesting and repetition of with blocks, any failures of    *)
(* the scans and of the DDL, and whatever the scanner was doing.           *)
THEOREM NoneOutlivesClose == Spec => []NoScannerAfterClose
<1>1. Inv => NoScannerAfterClose
  <2> SUFFICES ASSUME Inv, owner \in {"closing", "outside"},
                      NEW s \in Scanners, Alive(s)
               PROVE  gaveup /\ stop /\ options.kind = "threads"
    BY DEF NoScannerAfterClose
  <2>1. handle = Null /\ s # Null
    BY LifecycleAssumption DEF Inv, ScannerInv, Threads
  <2>2. gaveup
    BY <2>1 DEF Inv, OneScanner
  <2> QED
    BY <2>2 DEF Inv, ToldInv
<1> QED
  BY <1>1, Invariant, PTL
=============================================================================
