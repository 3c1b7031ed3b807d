------------------------------ MODULE Ingress ------------------------------
(***************************************************************************)
(* The admission chain of the ingress and the reload of the key store:     *)
(* routeBody and ReloadStore of internal/httpapi/server.go, Registry and   *)
(* Concurrency of internal/limiter/limiter.go, for the requests of one     *)
(* key.                                                                    *)
(*                                                                         *)
(* A reload publishes a new generation: a key store and an empty registry  *)
(* that carries the previous generation's concurrency bound and token      *)
(* bucket.  A registry makes its own for the key when a request first asks *)
(* for them.  Requests hold on to the generation they loaded, so old ones  *)
(* are still in use after a reload.  Reloads run one after the other on    *)
(* the signal loop.                                                        *)
(*                                                                         *)
(* A limit is [conc, rps, burst]: concurrent_requests, requests_per_second *)
(* and burst, 0 where the users file sets none.  The buckets shared with   *)
(* other keys and the credential only decide whether a request is refused: *)
(* each is a choice.  A bound without limit, which limiter.go also knows,  *)
(* is never made: the store gives every key one (NewStore).                *)
(***************************************************************************)
EXTENDS Integers, FiniteSets, Sequences

CONSTANTS
    Requests,     \* concurrent handlers of requests with this key
    MaxInflight,  \* max_inflight_requests: capacity of the channel inflight
    Limits,       \* the limits the key may have in the users file
    DefaultConcurrentRequests,  \* for a key that sets none
    Absent,       \* the key is not in the users file
    MaxReloads,   \* bound on the number of reloads
    MaxNow        \* bound on the clock, in seconds

ASSUME IngressAssumption ==
    /\ IsFiniteSet(Requests)
    /\ MaxInflight \in Nat \ {0}
    /\ Limits \subseteq [conc : Nat, rps : Nat, burst : Nat]
    /\ DefaultConcurrentRequests \in Nat \ {0}
    /\ Absent \notin [conc : Nat, rps : Nat, burst : Nat]
    /\ MaxReloads \in Nat /\ MaxNow \in Nat

VARIABLES
    pc,        \* idle, entered, loaded, keyed, rated, serving
    inflight,  \* len(s.inflight)
    gens,      \* the generations built so far: the limit in their store, the
               \* KeyState [conc, bucket] once made, and the one carried
    snap,      \* the published one
    gen,       \* the generation each request has loaded
    conc,      \* the Concurrency objects made so far: [limit, held]
    buckets,   \* the Bucket objects made so far: [rate, cap, avail, last]
    own,       \* the KeyState each request got from its registry
    now,       \* the clock
    changed,   \* history: the fields some reload changed
    missed,    \* history: an object was made in a generation already carried
    passed     \* history: how many requests AllowRate let through

objects == <<gens, conc, buckets>>
history == <<changed, missed, passed>>
vars == <<pc, inflight, objects, snap, gen, own, now, history>>

None == 0
NoState == [conc |-> None, bucket |-> None]

\* The limit a store enforces for a key with this one in the users file.
NewStore(limit) ==
    IF limit # Absent /\ limit.conc = 0
    THEN [limit EXCEPT !.conc = DefaultConcurrentRequests] ELSE limit

TypeOK ==
    /\ pc \in [Requests -> {"idle", "entered", "loaded", "keyed", "rated", "serving"}]
    /\ inflight \in 0..MaxInflight
    /\ \A g \in DOMAIN gens : gens[g].limit \in {NewStore(l) : l \in Limits \cup {Absent}}
    /\ snap \in 1..Len(gens) /\ Len(gens) <= MaxReloads + 1
    /\ gen \in [Requests -> 1..snap]
    /\ own \in [Requests -> [conc : 0..Len(conc), bucket : 0..Len(buckets)]]
    /\ now \in 0..MaxNow /\ passed \in Nat

Init ==
    /\ pc = [r \in Requests |-> "idle"]
    /\ inflight = 0
    /\ \E l \in Limits : gens = <<[limit |-> NewStore(l), state |-> NoState, carry |-> NoState]>>
    /\ snap = 1
    /\ gen = [r \in Requests |-> 1]
    /\ conc = <<>> /\ buckets = <<>>
    /\ own = [r \in Requests |-> NoState]
    /\ now = 0
    /\ changed = {} /\ missed = FALSE /\ passed = 0

-----------------------------------------------------------------------------
(* routeBody.                                                              *)

Goto(r, label) == pc' = [pc EXCEPT ![r] = label]

\* The handler returns; its deferred receive frees the place in inflight.
Leave(r) == Goto(r, "idle") /\ inflight' = inflight - 1

\* Global admission; a full channel is answered 503 and changes nothing.
Enter(r) ==
    /\ pc[r] = "idle"
    /\ inflight < MaxInflight
    /\ inflight' = inflight + 1
    /\ Goto(r, "entered")
    /\ UNCHANGED <<objects, snap, gen, own, now, history>>

\* The per-source or the global bucket is empty.
RateLimited(r) ==
    /\ pc[r] = "entered"
    /\ Leave(r)
    /\ UNCHANGED <<objects, snap, gen, own, now, history>>

\* The one load of the snapshot.
LoadSnapshot(r) ==
    /\ pc[r] = "entered"
    /\ gen' = [gen EXCEPT ![r] = snap]
    /\ Goto(r, "loaded")
    /\ UNCHANGED <<inflight, objects, snap, own, now, history>>

\* Store.Lookup: whether a credential of this key is accepted.  A key that is
\* not in the store never is; a known one may be disabled or expired, and the
\* secret may be wrong.
Lookup(limit) == IF limit = Absent THEN {FALSE} ELSE BOOLEAN

\* authorize: the headers hold no single credential, or the loaded store does
\* not accept it.
Unauthorized(r) ==
    /\ pc[r] = "loaded"
    /\ FALSE \in Lookup(gens[gen[r]].limit)
    /\ Leave(r)
    /\ UNCHANGED <<objects, snap, gen, own, now, history>>

-----------------------------------------------------------------------------
(* Registry.For and the two limits of the key *)

DerivedBurst(limit) == IF limit.burst > 0 THEN limit.burst ELSE IF limit.rps > 0 THEN limit.rps ELSE 1

\* Mutant: the burst is compared as configured.
MatchRaw(b, limit) == b.rate = limit.rps /\ b.cap = limit.burst

Match(b, limit) == b.rate = limit.rps /\ b.cap = DerivedBurst(limit)

\* build: the KeyState of a generation, with what may be carried.
Build(g) ==
    LET limit == gens[g].limit
        carry == gens[g].carry
        keepC == carry.conc # None /\ conc[carry.conc].limit = limit.conc
        keepB == carry.bucket # None /\ Match(buckets[carry.bucket], limit)
        fresh == [rate |-> limit.rps, cap |-> DerivedBurst(limit), avail |-> 0, last |-> -1]
        makeB == ~keepB /\ limit.rps > 0
    IN  /\ conc' = IF keepC THEN conc ELSE Append(conc, [limit |-> limit.conc, held |-> 0])
        /\ buckets' = IF makeB THEN Append(buckets, fresh) ELSE buckets
        /\ gens' = [gens EXCEPT ![g].state =
               [conc |-> IF keepC THEN carry.conc ELSE Len(conc'),
                bucket |-> IF keepB THEN carry.bucket ELSE IF makeB THEN Len(buckets') ELSE None]]
        /\ missed' = (missed \/ (g < Len(gens) /\ (~keepC \/ makeB)))

\* For: made on first use.
For(r) ==
    LET g == gen[r]
    IN  /\ pc[r] = "loaded"
        /\ TRUE \in Lookup(gens[g].limit)
        /\ IF gens[g].state = NoState THEN Build(g) ELSE UNCHANGED <<objects, missed>>
        /\ own' = [own EXCEPT ![r] = gens'[g].state]
        /\ Goto(r, "keyed")
        /\ UNCHANGED <<inflight, snap, gen, now, changed, passed>>

\* Bucket.Allow at time t: the bucket after its refill.  last is the zero time
\* at first, so the bucket starts full.
Refilled(b, t) ==
    LET sum == b.avail + (t - b.last) * b.rate
    IN IF b.last = -1 THEN [b EXCEPT !.avail = b.cap, !.last = t]
       ELSE IF t > b.last THEN [b EXCEPT !.avail = IF sum > b.cap THEN b.cap ELSE sum, !.last = t]
       ELSE b

\* AllowRate.  The clock is read before the bucket is locked.
AllowRate(r) ==
    LET i == own[r].bucket
    IN  /\ pc[r] = "keyed"
        /\ \/ /\ i = None
              /\ Goto(r, "rated")
              /\ UNCHANGED <<buckets, inflight, own, passed>>
           \/ /\ i # None
              /\ \E t \in {now - 1, now} \cap Nat :
                    LET b == Refilled(buckets[i], t)
                        ok == b.avail >= 1
                    IN /\ buckets' = [buckets EXCEPT ![i] = IF ok THEN [b EXCEPT !.avail = @ - 1] ELSE b]
                       /\ IF ok THEN /\ Goto(r, "rated") /\ passed' = passed + 1
                                     /\ UNCHANGED <<inflight, own>>
                          ELSE /\ Leave(r) /\ own' = [own EXCEPT ![r] = NoState]
                               /\ UNCHANGED passed
        /\ UNCHANGED <<gens, conc, snap, gen, now, changed, missed>>

\* Concurrency.Acquire refuses: every slot is held.
Busy(r) ==
    LET c == conc[own[r].conc]
    IN  /\ pc[r] = "rated"
        /\ c.held = c.limit
        /\ Leave(r)
        /\ own' = [own EXCEPT ![r] = NoState]
        /\ UNCHANGED <<objects, snap, gen, now, history>>

\* Concurrency.Acquire takes a slot.
Acquire(r) ==
    LET c == own[r].conc
    IN  /\ pc[r] = "rated"
        /\ conc[c].held < conc[c].limit
        /\ conc' = [conc EXCEPT ![c].held = @ + 1]
        /\ Goto(r, "serving")
        /\ UNCHANGED <<inflight, gens, buckets, snap, gen, own, now, history>>

\* Mutant: the release looks the bound up again.
FinishCurrent(r) ==
    LET c == gens[snap].state.conc
    IN  /\ pc[r] = "serving"
        /\ c # None
        /\ conc[c].held > 0
        /\ conc' = [conc EXCEPT ![c].held = @ - 1]
        /\ own' = [own EXCEPT ![r] = NoState]
        /\ Leave(r)
        /\ UNCHANGED <<gens, buckets, snap, gen, now, history>>

\* The handler is done: the release closure receives from the channel it was
\* made for, then the place in inflight is given back.
Finish(r) ==
    LET c == own[r].conc
    IN  /\ pc[r] = "serving"
        /\ conc' = [conc EXCEPT ![c].held = @ - 1]
        /\ own' = [own EXCEPT ![r] = NoState]
        /\ Leave(r)
        /\ UNCHANGED <<gens, buckets, snap, gen, now, history>>

-----------------------------------------------------------------------------
(* ReloadStore.                                                            *)

\* Mutant: only what the previous generation used itself is carried.
CarriedOnlyUsed(prev, limit) ==
    IF limit = Absent THEN NoState ELSE prev.state

\* NewRegistryCarrying: materialised state supersedes older carried state,
\* a bucket that was taken away included; nothing is carried for a key that is
\* gone.
Carried(prev, limit) ==
    IF limit = Absent THEN NoState
    ELSE IF prev.state # NoState THEN prev.state ELSE prev.carry

Differs(l, m) ==
    IF l = Absent \/ m = Absent THEN {f \in {"conc", "rate"} : l # m}
    ELSE {f \in {"conc"} : l.conc # m.conc}
         \cup {f \in {"rate"} : l.rps # m.rps \/ DerivedBurst(l) # DerivedBurst(m)}

\* The new store, and the registry built from the published one under its
\* lock.
BuildGeneration(l) ==
    /\ snap = Len(gens)
    /\ Len(gens) <= MaxReloads
    /\ LET limit == NewStore(l)
       IN /\ gens' = Append(gens, [limit |-> limit, state |-> NoState,
                                   carry |-> Carried(gens[snap], limit)])
          /\ changed' = changed \cup Differs(limit, gens[snap].limit)
    /\ UNCHANGED <<pc, inflight, conc, buckets, snap, gen, own, now, missed, passed>>

\* snap.Store: store and registry are published as one pointer.
PublishGeneration ==
    /\ snap < Len(gens)
    /\ snap' = Len(gens)
    /\ UNCHANGED <<pc, inflight, objects, gen, own, now, history>>

SecondPasses ==
    /\ now < MaxNow
    /\ now' = now + 1
    /\ UNCHANGED <<pc, inflight, objects, snap, gen, own, history>>

-----------------------------------------------------------------------------
Next ==
    \/ \E r \in Requests :
          \/ Enter(r)
          \/ RateLimited(r)
          \/ LoadSnapshot(r)
          \/ Unauthorized(r)
          \/ For(r)
          \/ AllowRate(r)
          \/ Busy(r)
          \/ Acquire(r)
          \/ Finish(r)
    \/ \E limit \in Limits \cup {Absent} : BuildGeneration(limit)
    \/ PublishGeneration
    \/ SecondPasses

Spec == Init /\ [][Next]_vars

-----------------------------------------------------------------------------
(* Properties.                                                             *)

Serving == {r \in Requests : pc[r] = "serving"}

\* Slots come back to the channel they were taken from, whatever reloads
\* happen in between: each channel holds one token for every request
\* it serves, and never more than its capacity (limiter.go:90-103).
SlotsConserved ==
    /\ inflight = Cardinality({r \in Requests : pc[r] # "idle"})
    /\ \A c \in DOMAIN conc :
          /\ conc[c].held = Cardinality({r \in Serving : own[r].conc = c})
          /\ conc[c].held <= conc[c].limit

\* As long as concurrent_requests is unchanged, the requests of all
\* generations share one set of slots, however many reloads there are and
\* whether or not the generations between were used, unless a request made
\* its object in a generation whose state had been carried already
\* (limiter.go:155-162, build).
ReloadKeepsBound ==
    "conc" \notin changed /\ ~missed =>
        /\ Len(conc) <= 1
        /\ Cardinality(Serving) <= gens[1].limit.conc

\* A reload does not gift a fresh burst (limiter.go:150-153, For): as long as
\* rate and effective burst are unchanged, what the key's requests get
\* through is one burst and the sustained rate, over all generations and with
\* clock readings that arrive out of order.
ReloadGiftsNoBurst ==
    "rate" \notin changed /\ ~missed /\ gens[1].limit.rps > 0 =>
        passed <= DerivedBurst(gens[1].limit) + gens[1].limit.rps * now

\* "One is reused only when the key's limit is unchanged, so in-flight slots
\* stay accounted across a reload" (limiter.go:139-141): an unchanged
\* concurrent_requests is never exceeded.
InFlightStaysAccounted ==
    "conc" \notin changed => Cardinality(Serving) <= gens[1].limit.conc
=============================================================================
