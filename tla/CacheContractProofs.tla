------------------------- MODULE CacheContractProofs -------------------------
(***************************************************************************)
(* The contract means what its users take it to mean: whatever implements  *)
(* it, with whatever delays, lets no entry outlast its ceiling or its      *)
(* window.                                                                 *)
(***************************************************************************)
EXTENDS CacheContract, TLAPS

(* Every entry lies within its window of its latest use, which is past.    *)
Inv ==
    /\ clock \in Nat
    /\ used \in [Entries -> Nat]
    /\ \A k \in Entries : used[k] <= clock
    /\ DOMAIN entry \subseteq Entries
    /\ \A k \in DOMAIN entry : entry[k] \in Entry /\ Within(entry[k], used[k])

(* A later use only leaves more room. *)
LEMMA WithinGrows ==
    ASSUME NEW e \in Entry, NEW u \in Nat, NEW v \in Nat, u <= v, Within(e, u)
    PROVE  Within(e, v)
<1>1. e.window # None => e.window \in Int /\ e.deadline \in Int
  BY DEF Entry
<1> QED  BY <1>1 DEF Within

(* A renewal from a use that is past is within the window of the latest.   *)
LEMMA RenewedWithin ==
    ASSUME NEW e \in Entry, NEW u \in Nat, NEW t \in 0 .. u, e.window # None
    PROVE  LET r == [e EXCEPT !.deadline = Deadline(e, t)]
           IN  r \in Entry /\ Within(r, u)
<1> DEFINE d == Deadline(e, t)
           r == [e EXCEPT !.deadline = d]
<1>1. /\ e.window \in Int
      /\ e.ceiling # None => e.ceiling \in Int
  BY DEF Entry
<1>2. /\ d \in Int /\ d <= u + e.window
      /\ e.ceiling # None => d <= e.ceiling
  BY <1>1 DEF Deadline
<1> HIDE DEF d
<1>3. r \in Entry /\ r.deadline = d /\ r.window = e.window /\ r.ceiling = e.ceiling
  BY <1>2 DEF Entry
<1>4. Within(r, u)
  <2> HIDE DEF r
  <2> QED  BY <1>2, <1>3 DEF Within
<1> QED  BY <1>3, <1>4 DEF d

LEMMA UseStep == ASSUME Inv, NEW ks \in SUBSET Entries, Use(ks) PROVE Inv'
<1>1. used' \in [Entries -> Nat] /\ \A k \in Entries : used[k] <= used'[k]
  BY DEF Use, Inv
<1>2. \A k \in DOMAIN entry : Within(entry[k], used'[k])
  BY <1>1, WithinGrows DEF Inv
<1> QED  BY <1>1, <1>2 DEF Use, Inv

LEMMA WriteStep == ASSUME Inv, NEW ks \in SUBSET Entries, Write(ks) PROVE Inv'
BY DEF Write, Inv

LEMMA RenewStep == ASSUME Inv, NEW ks \in SUBSET Entries, Renew(ks) PROVE Inv'
<1>1. ASSUME NEW k \in ks \cap DOMAIN entry
      PROVE  entry'[k] \in Entry /\ Within(entry'[k], used[k])
  <2>1. PICK t \in 0 .. used[k] :
            entry'[k] = [entry[k] EXCEPT !.deadline = Deadline(entry[k], t)]
    BY <1>1 DEF Renew
  <2>2. entry[k] \in Entry /\ used[k] \in Nat /\ entry[k].window # None
    BY <1>1 DEF Renew, Inv
  <2> QED  BY <2>1, <2>2, RenewedWithin
<1> QED  BY <1>1 DEF Renew, Inv

(* Steps after which fewer entries are left, and those as they were. *)
LEMMA FewerStep ==
    ASSUME Inv, NEW S, entry' = Without(entry, S), UNCHANGED <<clock, used>>
    PROVE  Inv'
BY DEF Without, Inv

LEMMA InvStep == Inv /\ [Next]_vars => Inv'
<1> SUFFICES ASSUME Inv, [Next]_vars PROVE Inv'
  OBVIOUS
<1>1. ASSUME NEW c \in Clients, NEW ks, Delete(c, ks) PROVE Inv'
  BY <1>1, FewerStep DEF Delete, EndDeletion
<1>2. CASE Collect \/ Lose
  BY <1>2, FewerStep DEF Collect, Lose
<1>3. CASE UNCHANGED <<clock, used, entry>>
  BY <1>3 DEF Inv
<1>4. CASE Tick
  BY <1>4 DEF Tick, Inv
<1> QED  BY <1>1, <1>2, <1>3, <1>4, UseStep, WriteStep, RenewStep
         DEF Next, AskDeletion, FailDeletion, EndDeletion, Add, vars

(* No entry outlasts its ceiling, nor its window unused, under any order   *)
(* and any delay of reads, writes and renewals.                            *)
THEOREM ContractRunsOut == Spec => []EntriesRunOut
<1>1. Init => Inv
  BY DEF Init, Inv
<1>2. Inv => EntriesRunOut
  <2> SUFFICES ASSUME Inv, NEW k \in DOMAIN entry,
                      \/ entry[k].ceiling # None /\ entry[k].ceiling < clock
                      \/ entry[k].window # None /\ used[k] + entry[k].window < clock
               PROVE  entry[k].deadline < clock
    BY DEF EntriesRunOut, Over
  <2>1. /\ entry[k].deadline \in Int /\ clock \in Nat /\ used[k] \in Nat
        /\ entry[k].ceiling # None => entry[k].ceiling \in Int
        /\ entry[k].window # None => entry[k].window \in Int
    BY DEF Inv, Entry
  <2>2. Within(entry[k], used[k])
    BY DEF Inv
  <2> QED  BY <2>1, <2>2 DEF Within
<1> QED  BY <1>1, <1>2, InvStep, PTL DEF Spec
=============================================================================
