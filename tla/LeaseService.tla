---------------------------- MODULE LeaseService ----------------------------
(***************************************************************************)
(* What the distributed locks promise, without tables, polls or delayed    *)
(* statements.  A lock is granted when no unexpired lease of it is left,   *)
(* under a token that is new; an unexpired lease is ended by the client it *)
(* was granted to and by nobody else, or lost with a table that is not     *)
(* durable.  The lock has no say in when its tenants leave: a lease may be *)
(* over, and granted again, with its tenant still there.                   *)
(***************************************************************************)
EXTENDS Integers

CONSTANTS Clients, Locks, Durable

VARIABLES
    clock,
    lease,      \* the token and the end of each lease, expired or not
    tenant      \* the key and the token of each client that has a lock

vars == <<clock, lease, tenant>>

Without(f, S) == [x \in DOMAIN f \ S |-> f[x]]

Extends(g, f, x) ==
    /\ DOMAIN g = DOMAIN f \cup {x}
    /\ \A y \in DOMAIN f \ {x} : g[y] = f[y]

Init ==
    /\ clock = 0
    /\ lease = [k \in {} |-> 0]
    /\ tenant = [c \in {} |-> 0]

Current(k) == k \in DOMAIN lease /\ clock <= lease[k].until

New(token) ==
    /\ \A k \in DOMAIN lease : lease[k].token # token
    /\ \A c \in DOMAIN tenant : tenant[c].token # token

(* How long a lease is, or whether it is over when given, is left open.    *)
Give(k) ==
    /\ ~Current(k)
    /\ Extends(lease', lease, k)
    /\ New(lease'[k].token)
    /\ UNCHANGED clock

Grant(c, k) ==
    /\ Give(k)
    /\ c \notin DOMAIN tenant
    /\ Extends(tenant', tenant, c)
    /\ tenant'[c] = [key |-> k, token |-> lease'[k].token]

GrantUnanswered(k) == Give(k) /\ UNCHANGED tenant

Leave(c) ==
    /\ c \in DOMAIN tenant
    /\ tenant' = Without(tenant, {c})
    /\ UNCHANGED clock

Release(c) ==
    /\ Leave(c)
    /\ lease' = Without(lease, {k \in DOMAIN lease :
                                   /\ k = tenant[c].key
                                   /\ lease[k].token = tenant[c].token})

Abandon(c) == Leave(c) /\ UNCHANGED lease

Collect ==
    /\ \E S \in SUBSET {k \in DOMAIN lease : ~Current(k)} :
          lease' = Without(lease, S)
    /\ UNCHANGED <<clock, tenant>>

Lose ==
    /\ ~Durable
    /\ lease' = Without(lease, DOMAIN lease)
    /\ UNCHANGED <<clock, tenant>>

Tick ==
    /\ clock' = clock + 1
    /\ UNCHANGED <<lease, tenant>>

Next ==
    \/ \E c \in Clients :
         \/ \E k \in Locks : Grant(c, k)
         \/ Release(c) \/ Abandon(c)
    \/ \E k \in Locks : GrantUnanswered(k)
    \/ Collect \/ Lose \/ Tick

Spec == Init /\ [][Next]_vars

-----------------------------------------------------------------------------
(* What a user of the service may rely on. *)

Holds(c, k) ==
    /\ c \in DOMAIN tenant
    /\ Current(k)
    /\ tenant[c] = [key |-> k, token |-> lease[k].token]

(* Two clients never hold the unexpired lease of one lock.                 *)
Exclusive ==
    \A c, d \in Clients, k \in Locks : Holds(c, k) /\ Holds(d, k) => c = d

(* What a client holds is the client's to end: before the end of the lease *)
(* no step of another client, nor a collection, takes it away.             *)
HoldersKeepLeases ==
    [][\A c \in Clients, k \in Locks :
          /\ Holds(c, k) /\ c \in DOMAIN tenant'
          => \/ k \in DOMAIN lease' /\ lease'[k] = lease[k] /\ tenant'[c] = tenant[c]
             \/ ~Durable /\ DOMAIN lease' = {}]_vars
=============================================================================
