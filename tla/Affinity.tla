------------------------------ MODULE Affinity ------------------------------
(***************************************************************************)
(* The table that ties a stored response to the backend that holds it and  *)
(* to the key and the model it was created under (internal/proxy/          *)
(* affinity.go), and the requests that use it: a new response, one that    *)
(* continues another, and a retrieval or cancellation (resolveTarget).     *)
(* Put and Get read the clock before they take the lock.                   *)
(***************************************************************************)
EXTENDS Integers, FiniteSetsExt

CONSTANTS
    Users, Models, Owners, Resps,  \* keys, public models, backends, response ids
    Calls,        \* concurrent requests
    MaxEntries, Probe, TTL,        \* max, evictProbeBudget, ttl
    MaxNow,       \* bound on the clock
    Nothing

ASSUME AffinityAssumption ==
    MaxEntries \in Nat \ {0} /\ Probe \in Nat \ {0} /\ TTL \in Nat

VARIABLES
    table,    \* from pairs of a key and a response id; by is history: the key
              \* whose request created the response
    clock,
    acl,      \* the models each key may use, as the key store has it
    call      \* what each request is doing

affinityVars == <<table, clock, acl, call>>

Idle == [at |-> "idle"]

AffinityInit ==
    /\ table = <<>> /\ clock = 0
    /\ acl \in [Users -> SUBSET Models]
    /\ call = [c \in Calls |-> Idle]

Expired(v, now) == now > v.expiry
Without(S) == Restrict(table, DOMAIN table \ S)

-----------------------------------------------------------------------------
(* Put *)

\* Mutant: the table is taken to be full one entry early.
EvictedEarly(now) ==
    IF Cardinality(DOMAIN table) < MaxEntries - 1 THEN {{}}
    ELSE {{k} : k \in DOMAIN table}

\* The sets evictLocked may delete.  The map is visited in no particular
\* order.  Once an expired entry is deleted there is room, and the visit goes
\* on to the end; if Probe live entries come first, it stops and the oldest of
\* those goes.
Evicted(now) ==
    LET gone == {k \in DOMAIN table : Expired(table[k], now)}
        live == DOMAIN table \ gone
        probes == IF Cardinality(live) >= Probe THEN kSubset(Probe, live)
                  ELSE IF gone = {} THEN {live} ELSE {}
        oldest(P) == {k \in P : \A j \in P : table[k].expiry <= table[j].expiry}
    IN IF Cardinality(DOMAIN table) < MaxEntries THEN {{}}
       ELSE {{k} : k \in UNION {oldest(P) : P \in probes}} \union ({gone} \ {{}})

Put(c) ==
    /\ call[c].at = "put"
    /\ LET p == call[c]
           k == <<p.user, p.resp>>
           v == [owner |-> p.owner, model |-> p.model, expiry |-> p.now + TTL, by |-> p.user]
       IN \E S \in Evicted(p.now) :
            table' = [j \in DOMAIN Without(S) \union {k} |-> IF j = k THEN v ELSE table[j]]
    /\ call' = [call EXCEPT ![c] = Idle]
    /\ UNCHANGED <<clock, acl>>

-----------------------------------------------------------------------------
(* Get, and what resolveTarget makes of it *)

\* Mutant: whoever knows the id has the response.
FoundByAnyone(u, r, now) ==
    {k \in DOMAIN table : k[2] = r /\ ~Expired(table[k], now)}

Found(u, r, now) ==
    {k \in DOMAIN table : k = <<u, r>> /\ ~Expired(table[k], now)}

\* An expired entry is deleted on the way.
GetDrops(u, r, now) ==
    {k \in DOMAIN table : k = <<u, r>> /\ Expired(table[k], now)}

\* A request arrives with the key record it was authenticated by; one that names
\* a response reads the clock.
Arrive(c) ==
    /\ call[c] = Idle
    /\ \E u \in Users, m \in Models :
          \/ /\ m \in acl[u]
             /\ \E b \in Owners :
                  call' = [call EXCEPT ![c] = [at |-> "relay", user |-> u, model |-> m,
                                               owner |-> b, by |-> u]]
          \/ \E r \in Resps, w \in {m, Nothing} :
                /\ w = m => m \in acl[u]
                /\ call' = [call EXCEPT ![c] = [at |-> "get", user |-> u, model |-> w,
                                                resp |-> r, now |-> clock,
                                                may |-> IF w = m THEN {m} ELSE acl[u]]]
    /\ UNCHANGED <<table, clock, acl>>

\* The lookup.  A continuation has to name the model the response was made
\* under, a retrieval is of a model the key record allows.
Pinned(c, v) ==
    v.model \in call[c].may

Get(c) ==
    /\ call[c].at = "get"
    /\ LET p == call[c]
           hits == {k \in Found(p.user, p.resp, p.now) : Pinned(c, table[k])}
       IN /\ \/ hits = {} /\ call' = [call EXCEPT ![c] = Idle]
             \/ \E k \in hits :
                   call' = [call EXCEPT ![c] =
                       [at |-> IF p.model = Nothing THEN "fetch" ELSE "relay", user |-> p.user,
                        model |-> table[k].model, owner |-> table[k].owner, by |-> table[k].by]]
          /\ table' = Without(GetDrops(p.user, p.resp, p.now))
    /\ UNCHANGED <<clock, acl>>

\* The relay sees the id of the new response; Put reads the clock.
Capture(c) ==
    /\ call[c].at = "relay"
    /\ \E r \in Resps :
          call' = [call EXCEPT ![c] = [at |-> "put", user |-> call[c].user,
                                       model |-> call[c].model, owner |-> call[c].owner,
                                       resp |-> r, now |-> clock]]
    /\ UNCHANGED <<table, clock, acl>>

\* The request ends: a retrieval was served, or no id was seen.
Leave(c) ==
    /\ call[c].at \in {"fetch", "relay"}
    /\ call' = [call EXCEPT ![c] = Idle]
    /\ UNCHANGED <<table, clock, acl>>

\* ReloadStore.
ReloadStore ==
    /\ \E u \in Users, S \in SUBSET Models : acl[u] # S /\ acl' = [acl EXCEPT ![u] = S]
    /\ UNCHANGED <<table, clock, call>>

AffinityTick ==
    /\ clock < MaxNow
    /\ clock' = clock + 1
    /\ UNCHANGED <<table, acl, call>>

AffinityNext ==
    \/ \E c \in Calls : Arrive(c) \/ Get(c) \/ Capture(c) \/ Put(c) \/ Leave(c)
    \/ ReloadStore \/ AffinityTick

AffinitySpec == AffinityInit /\ [][AffinityNext]_affinityVars

-----------------------------------------------------------------------------
(***************************************************************************)
(* A request that is sent to the owner of a response belongs to the key    *)
(* that created it (resolveTarget): another key's response is never        *)
(* reached, whoever knows its id, whatever was evicted, expired or stored  *)
(* again meanwhile.                                                        *)
(***************************************************************************)
PinnedToOwner ==
    \A c \in Calls : call[c].at \in {"fetch", "relay"} => call[c].by = call[c].user

(***************************************************************************)
(* Eviction makes room and no more (evictLocked, Get): however many entries*)
(* expire and whatever order the bounded probe meets them in, the table    *)
(* stays within its bound, and a live entry is only ever dropped when the  *)
(* table is full, so with room left a response stays retrievable.          *)
(***************************************************************************)
EvictionIsExact ==
    [][/\ Cardinality(DOMAIN table') <= MaxEntries
       /\ \A k \in DOMAIN table :
             k \notin DOMAIN table' /\ ~Expired(table[k], clock)
                 => Cardinality(DOMAIN table) = MaxEntries]_affinityVars
=============================================================================
