-------------------------- MODULE LeaseServiceProofs --------------------------
(***************************************************************************)
(* The lease service means what its users take it to mean: whatever        *)
(* implements it excludes, and keeps unexpired leases for their holders.   *)
(***************************************************************************)
EXTENDS LeaseService, TLAPS

(* Tenants do not share tokens, not even one whose lease is long over.     *)
TokenInv == \A c, d \in DOMAIN tenant : tenant[c].token = tenant[d].token => c = d

LEMMA TokenStep == TokenInv /\ [Next]_vars => TokenInv'
<1> SUFFICES ASSUME TokenInv, [Next]_vars PROVE TokenInv'
  OBVIOUS
<1>1. ASSUME NEW c \in Clients, NEW k \in Locks, Grant(c, k) PROVE TokenInv'
  <2>1. /\ DOMAIN tenant' = DOMAIN tenant \cup {c}
        /\ \A d \in DOMAIN tenant \ {c} : tenant'[d] = tenant[d]
        /\ \A d \in DOMAIN tenant : tenant[d].token # lease'[k].token
        /\ tenant'[c].token = lease'[k].token
        /\ c \notin DOMAIN tenant
    BY <1>1 DEF Grant, Give, New, Extends
  <2> QED  BY <2>1 DEF TokenInv
<1>2. ASSUME NEW c \in Clients, Release(c) \/ Abandon(c) PROVE TokenInv'
  <2>1. tenant' = Without(tenant, {c})
    BY <1>2 DEF Release, Abandon, Leave
  <2> QED  BY <2>1 DEF TokenInv, Without
<1>3. CASE UNCHANGED tenant
  BY <1>3 DEF TokenInv
<1> QED  BY <1>1, <1>2, <1>3 DEF Next, GrantUnanswered, Collect, Lose, Tick, vars

LEMMA TokensDiffer == Spec => []TokenInv
<1>1. Init => TokenInv
  BY DEF Init, TokenInv
<1> QED  BY <1>1, TokenStep, PTL DEF Spec

(* A lease excludes: for any clients and locks, whatever the durations.    *)
THEOREM ServiceExcludes == Spec => []Exclusive
<1>1. TokenInv => Exclusive
  BY DEF TokenInv, Exclusive, Holds
<1> QED  BY <1>1, TokensDiffer, PTL

(* What one client holds, no other releases, takes over or collects.       *)
THEOREM LeasesAreKept == Spec => HoldersKeepLeases
<1>1. TokenInv /\ [Next]_vars =>
        \A c \in Clients, k \in Locks :
          /\ Holds(c, k) /\ c \in DOMAIN tenant'
          => \/ k \in DOMAIN lease' /\ lease'[k] = lease[k] /\ tenant'[c] = tenant[c]
             \/ ~Durable /\ DOMAIN lease' = {}
  <2> SUFFICES ASSUME TokenInv, [Next]_vars, NEW c \in Clients, NEW k \in Locks,
                      Holds(c, k), c \in DOMAIN tenant'
               PROVE  \/ /\ k \in DOMAIN lease' /\ lease'[k] = lease[k]
                         /\ tenant'[c] = tenant[c]
                      \/ ~Durable /\ DOMAIN lease' = {}
    OBVIOUS
  <2>1. /\ c \in DOMAIN tenant /\ k \in DOMAIN lease /\ Current(k)
        /\ tenant[c].token = lease[k].token
    BY DEF Holds, Current
  <2>2. ASSUME NEW j \in Locks, Give(j)
        PROVE  k \in DOMAIN lease' /\ lease'[k] = lease[k]
    BY <2>1, <2>2 DEF Give, Extends
  <2>3. ASSUME NEW d \in Clients, NEW j \in Locks, Grant(d, j)
        PROVE  tenant'[c] = tenant[c]
    BY <2>1, <2>3 DEF Grant, Extends
  <2>4. ASSUME NEW d \in Clients, Leave(d)
        PROVE  d # c /\ tenant'[c] = tenant[c]
    BY <2>1, <2>4 DEF Leave, Without
  <2>5. ASSUME NEW d \in Clients, Release(d)
        PROVE  k \in DOMAIN lease' /\ lease'[k] = lease[k]
    <3>1. d # c /\ d \in DOMAIN tenant
      BY <2>4, <2>5 DEF Release, Leave
    <3>2. tenant[d].token # lease[k].token
      BY <2>1, <3>1 DEF TokenInv
    <3> QED  BY <2>1, <2>5, <3>2 DEF Release, Without
  <2>6. CASE Collect
    BY <2>1, <2>6 DEF Collect, Without
  <2>7. CASE Lose
    BY <2>7 DEF Lose, Without
  <2> QED  BY <2>1, <2>2, <2>3, <2>4, <2>5, <2>6, <2>7
           DEF Next, GrantUnanswered, Grant, Release, Abandon, Tick, vars
<1> QED  BY <1>1, TokensDiffer, PTL DEF Spec, HoldersKeepLeases
=============================================================================
