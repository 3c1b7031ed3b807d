--------------------------- MODULE IngressProofs ---------------------------
(***************************************************************************)
(* Proofs about Ingress, for every number of requests, every set of limits *)
(* a key may have, and any number of reloads.                              *)
(***************************************************************************)
EXTENDS Ingress, FiniteSetTheorems, SequenceTheorems, TLAPS

-----------------------------------------------------------------------------
(* The inductive invariant.                                                *)

LimitT == [conc : Nat, rps : Nat, burst : Nat]
StateT == [conc : Nat, bucket : Nat]
GenT == [limit : LimitT \cup {Absent}, state : StateT, carry : StateT]
ConcT == [limit : Nat, held : Nat]
BucketT == [rate : Nat, cap : Nat, avail : Nat, last : Nat \cup {-1}]

Types ==
    /\ pc \in [Requests -> {"idle", "entered", "loaded", "keyed", "rated", "serving"}]
    /\ inflight \in 0..MaxInflight
    /\ gens \in Seq(GenT) /\ conc \in Seq(ConcT) /\ buckets \in Seq(BucketT)
    /\ snap \in 1..Len(gens)
    /\ gen \in [Requests -> Nat] /\ \A r \in Requests : gen[r] \in 1..Len(gens)
    /\ own \in [Requests -> StateT]
    /\ now \in Nat /\ passed \in Nat

\* A KeyState that was made, or carried, is of objects that exist; it always
\* has a concurrency bound.
Refers(s) == s = NoState \/ (s.conc \in 1..Len(conc) /\ s.bucket \in 0..Len(buckets))

References ==
    /\ \A g \in 1..Len(gens) : Refers(gens[g].state) /\ Refers(gens[g].carry)
    /\ \A r \in Requests :
          pc[r] \in {"keyed", "rated", "serving"} =>
              own[r].conc \in 1..Len(conc) /\ own[r].bucket \in 0..Len(buckets)

Inside == {r \in Requests : pc[r] # "idle"}
Holders(c) == {r \in Requests : pc[r] = "serving" /\ own[r].conc = c}

Slots ==
    /\ inflight = Cardinality(Inside)
    /\ \A c \in 1..Len(conc) :
          conc[c].held = Cardinality(Holders(c)) /\ conc[c].held <= conc[c].limit

\* What the next reload carries.
Heir == Carried(gens[Len(gens)], gens[Len(gens)].limit)

\* As long as the limit did not change there is one bound, and the newest
\* generation has it or will find it among what it carries.
OneBound ==
    "conc" \notin changed /\ ~missed =>
        /\ Len(conc) <= 1
        /\ \A g \in 1..Len(gens) : gens[g].limit # Absent /\ gens[g].limit.conc = gens[1].limit.conc
        /\ Len(conc) = 1 => conc[1].limit = gens[1].limit.conc /\ Heir.conc = 1

\* As long as the rate did not change there is one bucket, in the same way, and
\* what went through it is paid for: by the burst, and by the time up to the
\* last refill.
OneBucket ==
    "rate" \notin changed /\ ~missed /\ gens[1].limit.rps > 0 =>
        /\ Len(buckets) <= 1
        /\ \A g \in 1..Len(gens) :
              /\ gens[g].limit # Absent
              /\ gens[g].limit.rps = gens[1].limit.rps
              /\ DerivedBurst(gens[g].limit) = DerivedBurst(gens[1].limit)
              /\ gens[g].state # NoState => gens[g].state.bucket = 1
              /\ gens[g].carry # NoState => gens[g].carry.bucket = 1
        /\ Len(buckets) = 0 => passed = 0
        /\ Len(buckets) = 1 =>
              /\ Match(buckets[1], gens[1].limit) /\ Heir.bucket = 1
              /\ buckets[1].last <= now
              /\ IF buckets[1].last = -1 THEN passed = 0
                 ELSE passed + buckets[1].avail
                        <= DerivedBurst(gens[1].limit) + gens[1].limit.rps * buckets[1].last

IngressInv ==
    /\ Types /\ References /\ Slots /\ OneBound /\ OneBucket
    /\ gens[1].limit # Absent

-----------------------------------------------------------------------------
(* Sequences, sets and limits.                                             *)

\* One more element.
LEMMA AppendFacts ==
    ASSUME NEW T, NEW s \in Seq(T), NEW x \in T
    PROVE  /\ Append(s, x) \in Seq(T)
           /\ Len(Append(s, x)) = Len(s) + 1
           /\ \A i \in 1..Len(s) : Append(s, x)[i] = s[i]
           /\ Append(s, x)[Len(s) + 1] = x
  BY AppendProperties

\* Another value for one element.
LEMMA UpdateFacts ==
    ASSUME NEW T, NEW s \in Seq(T), NEW k \in 1..Len(s), NEW x \in T
    PROVE  /\ [s EXCEPT ![k] = x] \in Seq(T)
           /\ Len([s EXCEPT ![k] = x]) = Len(s)
           /\ \A i \in 1..Len(s) : [s EXCEPT ![k] = x][i] = IF i = k THEN x ELSE s[i]
  BY ExceptSeq, LenProperties

\* The lengths of interest.
LEMMA AtMostOne ==
    ASSUME NEW n \in Nat, n <= 1
    PROVE  /\ n = 0 \/ n = 1
           /\ 1 \in 0..n => n = 1
  OBVIOUS

\* What the objects are.
LEMMA Elements ==
    ASSUME Types
    PROVE  /\ Len(gens) \in Nat \ {0} /\ Len(conc) \in Nat /\ Len(buckets) \in Nat
           /\ \A g \in 1..Len(gens) : gens[g] \in GenT
           /\ \A c \in 1..Len(conc) : conc[c] \in ConcT
           /\ \A i \in 1..Len(buckets) : buckets[i] \in BucketT
  <1>1. Len(gens) \in Nat /\ Len(conc) \in Nat /\ Len(buckets) \in Nat
    BY LenProperties DEF Types
  <1>2. Len(gens) # 0
    BY <1>1 DEF Types
  <1> QED
    BY <1>1, <1>2, ElementOfSeq DEF Types

\* Counting requests.
LEMMA Counting ==
    ASSUME NEW S, S \subseteq Requests, NEW r \in Requests
    PROVE  /\ Cardinality(S) \in Nat
           /\ r \notin S => Cardinality(S \cup {r}) = Cardinality(S) + 1
           /\ r \in S => Cardinality(S \ {r}) = Cardinality(S) - 1 /\ Cardinality(S) > 0
  <1>1. IsFiniteSet(S)
    BY IngressAssumption, FS_Subset
  <1>2. Cardinality(S) \in Nat
    BY <1>1, FS_CardinalityType
  <1>3. ASSUME r \in S PROVE Cardinality(S \ {r}) = Cardinality(S) - 1 /\ Cardinality(S) > 0
    <2>1. Cardinality(S \ {r}) = Cardinality(S) - 1 /\ IsFiniteSet(S \ {r})
      BY <1>1, <1>3, FS_RemoveElement
    <2>2. Cardinality(S \ {r}) \in Nat
      BY <2>1, FS_CardinalityType
    <2> QED
      BY <1>2, <2>1, <2>2
  <1>4. ASSUME r \notin S PROVE Cardinality(S \cup {r}) = Cardinality(S) + 1
    BY <1>1, <1>4, FS_AddElement
  <1> QED
    BY <1>2, <1>3, <1>4

\* What the store makes of a limit.
LEMMA NewStoreFacts ==
    ASSUME NEW l \in Limits \cup {Absent}
    PROVE  /\ NewStore(l) \in LimitT \cup {Absent}
           /\ l \in Limits => NewStore(l) # Absent
  BY IngressAssumption DEF NewStore, LimitT

\* The derived burst is a number.
LEMMA BurstFacts ==
    ASSUME NEW l \in LimitT
    PROVE  DerivedBurst(l) \in Nat
  BY DEF DerivedBurst, LimitT

\* A request that is not serving takes a step, and does not serve after it.
LEMMA MoveFacts ==
    ASSUME Types, Slots, NEW r \in Requests, NEW l, l # "serving",
           pc[r] # "serving", pc' = [pc EXCEPT ![r] = l],
           \A q \in Requests \ {r} : own'[q] = own[q]
    PROVE  /\ Inside' = IF l = "idle" THEN Inside \ {r} ELSE Inside \cup {r}
           /\ \A c : Holders(c)' = Holders(c)
  BY DEF Types, Inside, Holders

-----------------------------------------------------------------------------
(* Steps that leave the objects alone.                                     *)

\* Enter, and every way out before a slot was taken.
LEMMA MovesKeep ==
    ASSUME IngressInv, NEW r \in Requests,
           Enter(r) \/ RateLimited(r) \/ LoadSnapshot(r) \/ Unauthorized(r) \/ Busy(r)
    PROVE  IngressInv'
  <1>1. PICK l \in {"idle", "entered", "loaded"} :
          /\ pc' = [pc EXCEPT ![r] = l]
          /\ l = "idle" => pc[r] # "idle" /\ inflight' = inflight - 1
          /\ l = "entered" => pc[r] = "idle" /\ inflight' = inflight + 1 /\ inflight < MaxInflight
          /\ l = "loaded" => pc[r] = "entered" /\ inflight' = inflight
    BY DEF Enter, RateLimited, LoadSnapshot, Unauthorized, Busy, Leave, Goto
  <1>2. /\ UNCHANGED <<gens, conc, buckets, snap, now, changed, missed, passed>>
        /\ pc[r] \in {"idle", "entered", "loaded", "rated"}
        /\ gen' \in {gen, [gen EXCEPT ![r] = snap]}
        /\ own' \in {own, [own EXCEPT ![r] = NoState]}
    BY DEF Enter, RateLimited, LoadSnapshot, Unauthorized, Busy, objects, history
  <1>3. NoState \in StateT
    BY DEF NoState, None, StateT
  <1>4. /\ Inside' = IF l = "idle" THEN Inside \ {r} ELSE Inside \cup {r}
        /\ \A c : Holders(c)' = Holders(c)
    BY <1>1, <1>2, MoveFacts DEF IngressInv, Types
  <1>5. /\ inflight' = Cardinality(Inside') /\ inflight' \in 0..MaxInflight
    <2>1. Inside \subseteq Requests /\ (pc[r] = "idle" <=> r \notin Inside)
      BY DEF Inside
    <2>0. inflight = Cardinality(Inside) /\ inflight \in 0..MaxInflight /\ MaxInflight \in Nat
      BY IngressAssumption DEF IngressInv, Types, Slots
    <2>2. CASE l = "idle"
      <3>1. Cardinality(Inside \ {r}) = Cardinality(Inside) - 1 /\ Cardinality(Inside) > 0
        BY <1>1, <2>1, <2>2, Counting
      <3> QED
        BY <1>1, <1>4, <2>0, <2>2, <3>1
    <2>3. CASE l = "entered"
      <3>1. Cardinality(Inside \cup {r}) = Cardinality(Inside) + 1
        BY <1>1, <2>1, <2>3, Counting
      <3> QED
        BY <1>1, <1>4, <2>0, <2>3, <3>1
    <2>4. CASE l = "loaded"
      <3>1. Inside' = Inside
        BY <1>1, <1>4, <2>1, <2>4
      <3> QED
        BY <1>1, <2>4, <3>1 DEF IngressInv, Types, Slots
    <2> QED
      BY <1>1, <2>2, <2>3, <2>4
  <1>6. Types'
    <2>1. gen' \in [Requests -> Nat] /\ \A q \in Requests : gen'[q] \in 1..Len(gens')
      <3>1. /\ gen \in [Requests -> Nat] /\ \A q \in Requests : gen[q] \in 1..Len(gens)
            /\ snap \in Nat /\ snap \in 1..Len(gens) /\ gens' = gens
        BY <1>2, Elements DEF IngressInv, Types
      <3>2. CASE gen' = gen
        BY <3>1, <3>2
      <3>3. CASE gen' = [gen EXCEPT ![r] = snap]
        BY <3>1, <3>3
      <3> QED
        BY <1>2, <3>2, <3>3
    <2>2. own' \in [Requests -> StateT]
      BY <1>2, <1>3 DEF IngressInv, Types
    <2>3. pc' \in [Requests -> {"idle", "entered", "loaded", "keyed", "rated", "serving"}]
      BY <1>1 DEF IngressInv, Types
    <2> QED
      BY SMTT(60), <1>2, <1>5, <2>1, <2>2, <2>3 DEF IngressInv, Types
  <1>7. References'
    BY ZenonT(60), <1>1, <1>2 DEF IngressInv, Types, References, Refers
  <1>8. Slots'
    BY <1>2, <1>4, <1>5 DEF IngressInv, Slots
  <1>9. OneBound' /\ OneBucket' /\ gens'[1].limit # Absent
    BY <1>2 DEF IngressInv, OneBound, OneBucket, Heir
  <1> QED
    BY <1>6, <1>7, <1>8, <1>9 DEF IngressInv

\* The clock, the publication of a generation, and stuttering.
LEMMA QuietKeeps ==
    ASSUME IngressInv, PublishGeneration \/ SecondPasses \/ UNCHANGED vars
    PROVE  IngressInv'
  <1>1. /\ UNCHANGED <<pc, inflight, gens, conc, buckets, gen, own, changed, missed, passed>>
        /\ snap' \in 1..Len(gens) /\ now' \in Nat /\ now' >= now
    BY SMTT(60) DEF IngressInv, Types, PublishGeneration, SecondPasses, vars, objects, history
  <1>2. Types'
    BY <1>1 DEF IngressInv, Types
  <1>3. References' /\ Slots' /\ OneBound' /\ gens'[1].limit # Absent
    BY <1>1 DEF IngressInv, References, Refers, Slots, Inside, Holders, OneBound, Heir
  <1>4. OneBucket'
    <2>1. Len(buckets) = 1 => buckets[1].last \in Int
      BY Elements DEF IngressInv, BucketT
    <2> QED
      BY SMTT(60), <1>1, <2>1 DEF IngressInv, Types, OneBucket, Heir
  <1> QED
    BY <1>2, <1>3, <1>4 DEF IngressInv

-----------------------------------------------------------------------------
(* Slots.                                                                  *)

\* The count of one bound changes with its holders.
LEMMA HeldFacts ==
    ASSUME IngressInv, NEW c \in 1..Len(conc), NEW n \in Nat,
           conc' = [conc EXCEPT ![c].held = n],
           UNCHANGED <<gens, buckets, changed, missed, now, passed>>
    PROVE  /\ conc' \in Seq(ConcT) /\ Len(conc') = Len(conc)
           /\ conc'[c].held = n
           /\ \A d \in 1..Len(conc) : conc'[d].limit = conc[d].limit
           /\ \A d \in 1..Len(conc) : d # c => conc'[d] = conc[d]
           /\ OneBound' /\ OneBucket'
  <1>1. conc[c] \in ConcT /\ Len(conc) \in Nat
    BY Elements DEF IngressInv
  <1> DEFINE x == [limit |-> conc[c].limit, held |-> n]
  <1>2. x \in ConcT /\ x = [conc[c] EXCEPT !.held = n]
    BY <1>1 DEF ConcT
  <1>3. conc' = [conc EXCEPT ![c] = x]
    BY <1>2
  <1>4. x.limit = conc[c].limit /\ x.held = n
    OBVIOUS
  <1> HIDE DEF x
  <1>5. /\ conc' \in Seq(ConcT) /\ Len(conc') = Len(conc)
        /\ \A i \in 1..Len(conc) : conc'[i] = IF i = c THEN x ELSE conc[i]
    <2>1. conc \in Seq(ConcT)
      BY DEF IngressInv, Types
    <2> QED
      BY <1>2, <1>3, <2>1, UpdateFacts
  <1>6. \A d \in 1..Len(conc) : conc'[d].limit = conc[d].limit
    BY <1>4, <1>5
  <1>7. OneBound'
    BY <1>1, <1>5, <1>6 DEF IngressInv, OneBound, Heir
  <1>8. OneBucket'
    BY DEF IngressInv, OneBucket, Heir
  <1> QED
    BY <1>4, <1>5, <1>6, <1>7, <1>8

\* A slot is taken.
LEMMA AcquireKeeps ==
    ASSUME IngressInv, NEW r \in Requests, Acquire(r)
    PROVE  IngressInv'
  <1>0. PICK c : c = own[r].conc
    OBVIOUS
  <1>1. /\ pc[r] = "rated" /\ pc' = [pc EXCEPT ![r] = "serving"]
        /\ conc[c].held < conc[c].limit /\ conc' = [conc EXCEPT ![c].held = @ + 1]
        /\ UNCHANGED <<inflight, gens, buckets, snap, gen, own, now, changed, missed, passed>>
    BY <1>0 DEF Acquire, Goto, history
  <1>2. c \in 1..Len(conc)
    BY <1>0, <1>1 DEF IngressInv, References
  <1>3. conc[c].held \in Nat /\ conc[c].limit \in Nat /\ conc[c].held + 1 \in Nat
    BY <1>2, Elements DEF IngressInv, ConcT
  <1>4. /\ conc' \in Seq(ConcT) /\ Len(conc') = Len(conc)
        /\ conc'[c].held = conc[c].held + 1
        /\ \A d \in 1..Len(conc) : conc'[d].limit = conc[d].limit
        /\ \A d \in 1..Len(conc) : d # c => conc'[d] = conc[d]
        /\ OneBound' /\ OneBucket'
    BY <1>1, <1>2, <1>3, HeldFacts
  <1>5. Types'
    BY SMTT(60), <1>1, <1>4 DEF IngressInv, Types
  <1>6. References'
    BY SMTT(60), <1>1, <1>4 DEF IngressInv, Types, References, Refers
  <1>7. Slots'
    <2>1. Inside' = Inside
      BY <1>1 DEF Inside, IngressInv, Types
    <2>2. Holders(c)' = Holders(c) \cup {r} /\ r \notin Holders(c) /\ Holders(c) \subseteq Requests
      BY <1>0, <1>1 DEF Holders, IngressInv, Types
    <2>3. ASSUME NEW d, d # c PROVE Holders(d)' = Holders(d)
      BY <1>0, <1>1, <2>3 DEF Holders, IngressInv, Types
    <2>4. Cardinality(Holders(c)') = Cardinality(Holders(c)) + 1
      BY <2>2, Counting
    <2>5. ASSUME NEW d \in 1..Len(conc)
          PROVE  conc'[d].held = Cardinality(Holders(d)') /\ conc'[d].held <= conc'[d].limit
      <3>1. CASE d = c
        BY <1>1, <1>2, <1>3, <1>4, <2>4, <3>1 DEF IngressInv, Slots
      <3>2. CASE d # c
        BY <1>4, <2>3, <3>2 DEF IngressInv, Slots
      <3> QED
        BY <3>1, <3>2
    <2> QED
      BY <1>1, <1>4, <2>1, <2>5 DEF IngressInv, Slots
  <1> QED
    BY <1>1, <1>4, <1>5, <1>6, <1>7 DEF IngressInv

\* A slot comes back to the channel it was taken from.
LEMMA FinishKeeps ==
    ASSUME IngressInv, NEW r \in Requests, Finish(r)
    PROVE  IngressInv'
  <1>0. PICK c : c = own[r].conc
    OBVIOUS
  <1>1. /\ pc[r] = "serving" /\ pc' = [pc EXCEPT ![r] = "idle"] /\ inflight' = inflight - 1
        /\ own' = [own EXCEPT ![r] = NoState]
        /\ conc' = [conc EXCEPT ![c].held = @ - 1]
        /\ UNCHANGED <<gens, buckets, snap, gen, now, changed, missed, passed>>
    BY <1>0 DEF Finish, Leave, Goto, history
  <1>2. c \in 1..Len(conc)
    BY <1>0, <1>1 DEF IngressInv, References
  <1>3. r \in Holders(c) /\ Holders(c) \subseteq Requests /\ r \in Inside /\ Inside \subseteq Requests
    BY <1>0, <1>1 DEF Holders, Inside
  <1>4. /\ Cardinality(Holders(c) \ {r}) = Cardinality(Holders(c)) - 1 /\ Cardinality(Holders(c)) > 0
        /\ Cardinality(Inside \ {r}) = Cardinality(Inside) - 1 /\ Cardinality(Inside) > 0
    BY <1>3, Counting
  <1>5. /\ conc[c].held = Cardinality(Holders(c)) /\ conc[c].held <= conc[c].limit
        /\ inflight = Cardinality(Inside)
    BY <1>2 DEF IngressInv, Slots
  <1>6. conc[c].held \in Nat /\ conc[c].limit \in Nat /\ conc[c].held - 1 \in Nat
    BY <1>2, <1>4, <1>5, Elements DEF IngressInv, ConcT
  <1>7. /\ conc' \in Seq(ConcT) /\ Len(conc') = Len(conc)
        /\ conc'[c].held = conc[c].held - 1
        /\ \A d \in 1..Len(conc) : conc'[d].limit = conc[d].limit
        /\ \A d \in 1..Len(conc) : d # c => conc'[d] = conc[d]
        /\ OneBound' /\ OneBucket'
    BY <1>1, <1>2, <1>6, HeldFacts
  <1>8. Types'
    <2>1. NoState \in StateT
      BY DEF NoState, None, StateT
    <2>2. inflight' \in 0..MaxInflight
      BY SMTT(60), <1>1, <1>4, <1>5, IngressAssumption DEF IngressInv, Types
    <2> QED
      BY <1>1, <1>7, <2>1, <2>2 DEF IngressInv, Types
  <1>9. References'
    BY <1>1, <1>7 DEF IngressInv, Types, References, Refers
  <1>10. Slots'
    <2>1. Inside' = Inside \ {r}
      BY SMTT(60), <1>1 DEF Inside, IngressInv, Types
    <2>2. Holders(c)' = Holders(c) \ {r}
      BY SMTT(60), <1>0, <1>1 DEF Holders, IngressInv, Types
    <2>3. ASSUME NEW d, d # c PROVE Holders(d)' = Holders(d)
      BY SMTT(60), <1>0, <1>1, <2>3 DEF Holders, IngressInv, Types
    <2>4. ASSUME NEW d \in 1..Len(conc)
          PROVE  conc'[d].held = Cardinality(Holders(d)') /\ conc'[d].held <= conc'[d].limit
      <3>1. CASE d = c
        <4>1. conc'[c].held = Cardinality(Holders(c)')
          BY <1>4, <1>5, <1>7, <2>2
        <4>2. conc'[c].held <= conc'[c].limit
          BY <1>2, <1>5, <1>6, <1>7
        <4> QED
          BY <3>1, <4>1, <4>2
      <3>2. CASE d # c
        BY <1>7, <2>3, <3>2 DEF IngressInv, Slots
      <3> QED
        BY <3>1, <3>2
    <2> QED
      BY <1>1, <1>4, <1>5, <1>7, <2>1, <2>4 DEF Slots
  <1> QED
    BY <1>1, <1>7, <1>8, <1>9, <1>10 DEF IngressInv

-----------------------------------------------------------------------------
(* Registry.For.                                                           *)

KeepsBound(g) ==
    gens[g].carry.conc # None /\ conc[gens[g].carry.conc].limit = gens[g].limit.conc
KeepsBucket(g) ==
    gens[g].carry.bucket # None /\ Match(buckets[gens[g].carry.bucket], gens[g].limit)
Fresh(l) == [rate |-> l.rps, cap |-> DerivedBurst(l), avail |-> 0, last |-> -1]

\* What build does to the bounds.
LEMMA BuildBound ==
    ASSUME IngressInv, NEW g \in 1..Len(gens), gens[g].limit # Absent, Build(g)
    PROVE  /\ conc' \in Seq(ConcT)
           /\ Len(conc') = IF KeepsBound(g) THEN Len(conc) ELSE Len(conc) + 1
           /\ \A c \in 1..Len(conc) : conc'[c] = conc[c]
           /\ ~KeepsBound(g) =>
                 conc'[Len(conc) + 1] = [limit |-> gens[g].limit.conc, held |-> 0]
  <1>1. /\ gens[g] \in GenT /\ Len(conc) \in Nat /\ conc \in Seq(ConcT)
    BY Elements DEF IngressInv, Types
  <1> DEFINE x == [limit |-> gens[g].limit.conc, held |-> 0]
  <1>2. x \in ConcT
    BY SMTT(60), <1>1 DEF GenT, LimitT, ConcT
  <1>3. conc' = IF KeepsBound(g) THEN conc ELSE Append(conc, x)
    BY DEF Build, KeepsBound
  <1> HIDE DEF x
  <1>4. CASE KeepsBound(g)
    BY <1>1, <1>3, <1>4
  <1>5. CASE ~KeepsBound(g)
    <2>1. /\ Append(conc, x) \in Seq(ConcT) /\ Len(Append(conc, x)) = Len(conc) + 1
          /\ \A i \in 1..Len(conc) : Append(conc, x)[i] = conc[i]
          /\ Append(conc, x)[Len(conc) + 1] = x
      BY <1>1, <1>2, AppendFacts
    <2> QED
      BY <1>3, <1>5, <2>1 DEF x
  <1> QED
    BY <1>4, <1>5

\* What build does to the buckets.
LEMMA BuildBucket ==
    ASSUME IngressInv, NEW g \in 1..Len(gens), gens[g].limit # Absent, Build(g)
    PROVE  /\ buckets' \in Seq(BucketT)
           /\ Len(buckets') = IF KeepsBucket(g) \/ gens[g].limit.rps = 0
                              THEN Len(buckets) ELSE Len(buckets) + 1
           /\ \A i \in 1..Len(buckets) : buckets'[i] = buckets[i]
           /\ ~KeepsBucket(g) /\ gens[g].limit.rps # 0 =>
                 buckets'[Len(buckets) + 1] = Fresh(gens[g].limit)
  <1>1. /\ gens[g].limit \in LimitT /\ Len(buckets) \in Nat /\ buckets \in Seq(BucketT)
    BY Elements DEF IngressInv, Types, GenT
  <1>2. Fresh(gens[g].limit) \in BucketT
    BY SMTT(60), <1>1, BurstFacts DEF Fresh, LimitT, BucketT
  <1>3. buckets' = IF ~KeepsBucket(g) /\ gens[g].limit.rps > 0
                   THEN Append(buckets, Fresh(gens[g].limit)) ELSE buckets
    BY DEF Build, KeepsBucket, Fresh
  <1>4. gens[g].limit.rps > 0 <=> gens[g].limit.rps # 0
    BY <1>1 DEF LimitT
  <1>5. CASE KeepsBucket(g) \/ gens[g].limit.rps = 0
    BY <1>1, <1>3, <1>4, <1>5
  <1>6. CASE ~KeepsBucket(g) /\ gens[g].limit.rps # 0
    <2> DEFINE x == Fresh(gens[g].limit)
    <2>1. /\ Append(buckets, x) \in Seq(BucketT) /\ Len(Append(buckets, x)) = Len(buckets) + 1
          /\ \A i \in 1..Len(buckets) : Append(buckets, x)[i] = buckets[i]
          /\ Append(buckets, x)[Len(buckets) + 1] = x
      BY <1>1, <1>2, AppendFacts
    <2> QED
      BY <1>3, <1>4, <1>6, <2>1
  <1> QED
    BY <1>5, <1>6

\* What build does to the generation it is called on.
LEMMA BuildState ==
    ASSUME IngressInv, NEW g \in 1..Len(gens), gens[g].limit # Absent, Build(g)
    PROVE  /\ gens' \in Seq(GenT) /\ Len(gens') = Len(gens)
           /\ \A h \in 1..Len(gens) : h # g => gens'[h] = gens[h]
           /\ gens'[g].limit = gens[g].limit /\ gens'[g].carry = gens[g].carry
           /\ gens'[g].state.conc = IF KeepsBound(g) THEN gens[g].carry.conc ELSE Len(conc')
           /\ gens'[g].state.bucket = IF KeepsBucket(g) THEN gens[g].carry.bucket
                                      ELSE IF gens[g].limit.rps = 0 THEN None ELSE Len(buckets')
           /\ gens'[g].state.conc \in 1..Len(conc')
           /\ gens'[g].state.bucket \in 0..Len(buckets')
           /\ gens'[g].state # NoState
           /\ ~missed' => /\ ~missed
                          /\ g < Len(gens) => KeepsBound(g) /\ (KeepsBucket(g) \/ gens[g].limit.rps = 0)
  <1>1. /\ gens[g] \in GenT /\ gens[g].limit \in LimitT /\ gens \in Seq(GenT)
        /\ gens[g].carry \in StateT /\ gens[g].state \in StateT
        /\ Len(gens) \in Nat /\ Len(conc) \in Nat /\ Len(buckets) \in Nat
    BY Elements DEF IngressInv, Types, GenT
  <1>2. /\ Len(conc') = IF KeepsBound(g) THEN Len(conc) ELSE Len(conc) + 1
        /\ Len(buckets') = IF KeepsBucket(g) \/ gens[g].limit.rps = 0
                           THEN Len(buckets) ELSE Len(buckets) + 1
    BY BuildBound, BuildBucket
  <1>3. gens[g].limit.rps > 0 <=> gens[g].limit.rps # 0
    BY <1>1 DEF LimitT
  <1>4. PICK st : st = [conc |-> IF KeepsBound(g) THEN gens[g].carry.conc ELSE Len(conc'),
                        bucket |-> IF KeepsBucket(g) THEN gens[g].carry.bucket
                                   ELSE IF gens[g].limit.rps = 0 THEN None ELSE Len(buckets')]
    OBVIOUS
  <1>5. /\ st.conc = IF KeepsBound(g) THEN gens[g].carry.conc ELSE Len(conc')
        /\ st.bucket = IF KeepsBucket(g) THEN gens[g].carry.bucket
                       ELSE IF gens[g].limit.rps = 0 THEN None ELSE Len(buckets')
    BY <1>4
  <1>6. gens' = [gens EXCEPT ![g].state = st]
    BY <1>3, <1>4 DEF Build, KeepsBound, KeepsBucket
  <1>7. Refers(gens[g].carry)
    BY DEF IngressInv, References
  <1>8. st.conc \in 1..Len(conc') /\ st.bucket \in 0..Len(buckets')
    BY SMTT(60), <1>1, <1>2, <1>5, <1>7 DEF Refers, NoState, None, KeepsBound, KeepsBucket
  <1>9. st \in StateT /\ st # NoState
    <2>1. st \in StateT
      BY <1>1, <1>2, <1>4, <1>5, <1>8 DEF StateT, None
    <2>2. st.conc # NoState.conc
      BY <1>1, <1>2, <1>8 DEF NoState, None
    <2> QED
      BY <2>1, <2>2
  <1>10. PICK x : x = [limit |-> gens[g].limit, state |-> st, carry |-> gens[g].carry]
    OBVIOUS
  <1>11. x \in GenT /\ x = [gens[g] EXCEPT !.state = st]
    BY <1>1, <1>9, <1>10 DEF GenT
  <1>12. gens' = [gens EXCEPT ![g] = x]
    BY <1>6, <1>11
  <1>13. /\ gens' \in Seq(GenT) /\ Len(gens') = Len(gens)
         /\ \A h \in 1..Len(gens) : gens'[h] = IF h = g THEN x ELSE gens[h]
    BY <1>1, <1>11, <1>12, UpdateFacts
  <1>14. x.limit = gens[g].limit /\ x.state = st /\ x.carry = gens[g].carry
    BY <1>10
  <1>15. ~missed' => /\ ~missed
                     /\ g < Len(gens) => KeepsBound(g) /\ (KeepsBucket(g) \/ gens[g].limit.rps = 0)
    BY <1>3 DEF Build, KeepsBound, KeepsBucket
  <1> QED
    BY <1>5, <1>8, <1>9, <1>13, <1>14, <1>15

\* One bound is kept: the newest generation finds it, an older one that does
\* not is counted as missed.
LEMMA BuildOneBound ==
    ASSUME IngressInv, NEW g \in 1..Len(gens), gens[g].limit # Absent, gens[g].state = NoState,
           Build(g), changed' = changed
    PROVE  OneBound'
  <1> SUFFICES ASSUME "conc" \notin changed, ~missed'
               PROVE  /\ Len(conc') <= 1
                      /\ \A h \in 1..Len(gens') : /\ gens'[h].limit # Absent
                                                  /\ gens'[h].limit.conc = gens'[1].limit.conc
                      /\ Len(conc') = 1 => conc'[1].limit = gens'[1].limit.conc /\ Heir'.conc = 1
    BY DEF OneBound
  <1>1. /\ Len(gens') = Len(gens) /\ Len(gens) \in Nat \ {0} /\ Len(conc) \in Nat
        /\ \A h \in 1..Len(gens) : h # g => gens'[h] = gens[h]
        /\ gens'[g].limit = gens[g].limit /\ gens'[g].state # NoState
        /\ gens'[g].state.conc = IF KeepsBound(g) THEN gens[g].carry.conc ELSE Len(conc')
        /\ ~missed /\ (g < Len(gens) => KeepsBound(g))
    BY BuildState, Elements DEF IngressInv
  <1>2. /\ Len(conc') = IF KeepsBound(g) THEN Len(conc) ELSE Len(conc) + 1
        /\ \A c \in 1..Len(conc) : conc'[c] = conc[c]
        /\ ~KeepsBound(g) => conc'[Len(conc) + 1].limit = gens[g].limit.conc
    <2>1. ~KeepsBound(g) => conc'[Len(conc) + 1] = [limit |-> gens[g].limit.conc, held |-> 0]
      BY BuildBound
    <2>2. ~KeepsBound(g) => conc'[Len(conc) + 1].limit = gens[g].limit.conc
      BY <2>1
    <2> QED
      BY <2>2, BuildBound
  <1>3. /\ Len(conc) <= 1
        /\ \A h \in 1..Len(gens) : gens[h].limit # Absent /\ gens[h].limit.conc = gens[1].limit.conc
        /\ Len(conc) = 1 => conc[1].limit = gens[1].limit.conc /\ Heir.conc = 1
    BY <1>1 DEF IngressInv, OneBound
  <1>4. \A h \in 1..Len(gens) : gens'[h].limit = gens[h].limit
    BY <1>1
  <1>5. gens'[1].limit = gens[1].limit
    BY <1>1, <1>4
  <1>6. CASE g = Len(gens)
    <2>1. Heir' = gens'[g].state /\ Heir = gens[g].carry
      BY <1>1, <1>6 DEF Heir, Carried
    <2>2. CASE Len(conc) = 1
      <3>1. KeepsBound(g)
        BY <1>3, <2>1, <2>2 DEF KeepsBound, None
      <3> QED
        BY <1>1, <1>2, <1>3, <1>4, <1>5, <2>1, <2>2, <3>1
    <2>3. CASE Len(conc) = 0
      <3>1. ~KeepsBound(g)
        BY <2>3 DEF IngressInv, References, Refers, KeepsBound, NoState, None
      <3> QED
        BY <1>1, <1>2, <1>3, <1>4, <1>5, <2>1, <2>3, <3>1
    <2>4. Len(conc) = 0 \/ Len(conc) = 1
      <3>1. Len(conc) \in Nat
        BY Elements DEF IngressInv
      <3>2. Len(conc) <= 1
        BY <1>3
      <3> QED
        BY <3>1, <3>2, AtMostOne
    <2> QED
      BY <2>2, <2>3, <2>4
  <1>7. CASE g # Len(gens)
    <2>1. Heir' = Heir /\ KeepsBound(g)
      BY <1>1, <1>7 DEF Heir
    <2> QED
      BY <1>1, <1>2, <1>3, <1>4, <1>5, <2>1
  <1> QED
    BY <1>6, <1>7

\* One bucket is kept, in the same way.
LEMMA BuildOneBucket ==
    ASSUME IngressInv, NEW g \in 1..Len(gens), gens[g].limit # Absent, gens[g].state = NoState,
           Build(g), changed' = changed, passed' = passed, now' = now
    PROVE  OneBucket'
  <1>1. /\ Len(gens') = Len(gens) /\ Len(gens) \in Nat \ {0} /\ Len(buckets) \in Nat
        /\ \A h \in 1..Len(gens) : h # g => gens'[h] = gens[h]
        /\ gens'[g].limit = gens[g].limit /\ gens'[g].carry = gens[g].carry
        /\ gens'[g].state # NoState
        /\ gens'[g].state.bucket = IF KeepsBucket(g) THEN gens[g].carry.bucket
                                   ELSE IF gens[g].limit.rps = 0 THEN None ELSE Len(buckets')
        /\ ~missed' => ~missed /\ (g < Len(gens) => KeepsBucket(g) \/ gens[g].limit.rps = 0)
    BY BuildState, Elements DEF IngressInv
  <1>2. /\ \A h \in 1..Len(gens) : gens'[h].limit = gens[h].limit /\ gens'[h].carry = gens[h].carry
        /\ gens'[1].limit = gens[1].limit
    BY <1>1
  <1> SUFFICES ASSUME "rate" \notin changed, ~missed', gens[1].limit.rps > 0
               PROVE  OneBucket'
    BY <1>2 DEF OneBucket
  <1>3. /\ Len(buckets') = IF KeepsBucket(g) \/ gens[g].limit.rps = 0
                           THEN Len(buckets) ELSE Len(buckets) + 1
        /\ \A i \in 1..Len(buckets) : buckets'[i] = buckets[i]
        /\ ~KeepsBucket(g) /\ gens[g].limit.rps # 0 =>
              buckets'[Len(buckets) + 1] = Fresh(gens[g].limit)
    BY BuildBucket
  <1>4. /\ Len(buckets) <= 1
        /\ \A h \in 1..Len(gens) :
              /\ gens[h].limit # Absent
              /\ gens[h].limit.rps = gens[1].limit.rps
              /\ DerivedBurst(gens[h].limit) = DerivedBurst(gens[1].limit)
              /\ gens[h].state # NoState => gens[h].state.bucket = 1
              /\ gens[h].carry # NoState => gens[h].carry.bucket = 1
        /\ Len(buckets) = 0 => passed = 0
        /\ Len(buckets) = 1 => Match(buckets[1], gens[1].limit) /\ Heir.bucket = 1
    BY <1>1 DEF IngressInv, OneBucket
  <1>5. gens[1].limit \in LimitT /\ gens[g].limit.rps # 0 /\ now \in Nat
    <2>1. gens[1] \in GenT
      BY <1>1, Elements DEF IngressInv
    <2> QED
      BY SMTT(60), <1>1, <1>4, <2>1 DEF GenT, LimitT, IngressInv, Types
  <1>6. KeepsBucket(g) => Len(buckets) = 1 /\ gens[g].carry.bucket = 1
    <2> SUFFICES ASSUME KeepsBucket(g) PROVE Len(buckets) = 1 /\ gens[g].carry.bucket = 1
      OBVIOUS
    <2>1. Refers(gens[g].carry)
      BY DEF IngressInv, References
    <2>2. gens[g].carry # NoState
      BY DEF KeepsBucket, NoState, None
    <2>3. gens[g].carry.bucket = 1 /\ 1 \in 0..Len(buckets)
      BY <1>4, <2>1, <2>2 DEF Refers
    <2>4. Len(buckets) \in Nat /\ Len(buckets) <= 1
      BY <1>4, Elements DEF IngressInv
    <2> QED
      BY <2>3, <2>4, AtMostOne
  <1>7. g = Len(gens) /\ Len(buckets) = 1 => KeepsBucket(g)
    <2> SUFFICES ASSUME g = Len(gens), Len(buckets) = 1 PROVE KeepsBucket(g)
      OBVIOUS
    <2>1. Heir = gens[g].carry
      BY <1>4 DEF Heir, Carried
    <2> QED
      BY <1>4, <2>1 DEF KeepsBucket, Match, None
  <1>8. gens'[g].state.bucket = 1 /\ Len(buckets') = 1
    <2>1. CASE KeepsBucket(g)
      BY <1>1, <1>3, <1>6, <2>1
    <2>2. CASE ~KeepsBucket(g)
      <3>1. g = Len(gens)
        BY <1>1, <1>5, <2>2
      <3>2. Len(buckets) = 0
        <4>1. Len(buckets) # 1
          BY <1>7, <2>2, <3>1
        <4>2. Len(buckets) \in Nat /\ Len(buckets) <= 1
          BY <1>4, Elements DEF IngressInv
        <4> QED
          BY <4>1, <4>2, AtMostOne
      <3> QED
        BY <1>1, <1>3, <1>5, <2>2, <3>2
    <2> QED
      BY <2>1, <2>2
  <1>9. Heir'.bucket = 1
    <2>1. CASE g = Len(gens)
      BY <1>1, <1>8, <2>1 DEF Heir, Carried
    <2>2. CASE g # Len(gens)
      <3>1. Heir' = Heir
        BY <1>1, <2>2 DEF Heir
      <3> QED
        BY <1>1, <1>4, <1>5, <1>6, <2>2, <3>1
    <2> QED
      BY <2>1, <2>2
  <1>10. CASE KeepsBucket(g)
    <2>1. buckets'[1] = buckets[1]
      BY <1>3, <1>6, <1>10
    <2>2. /\ Match(buckets'[1], gens'[1].limit) /\ buckets'[1].last <= now'
          /\ IF buckets'[1].last = -1 THEN passed' = 0
             ELSE passed' + buckets'[1].avail
                    <= DerivedBurst(gens'[1].limit) + gens'[1].limit.rps * buckets'[1].last
      BY <1>1, <1>2, <1>6, <1>10, <2>1 DEF IngressInv, OneBucket
    <2> QED
      BY <1>1, <1>2, <1>4, <1>8, <1>9, <2>2 DEF OneBucket
  <1>11. CASE ~KeepsBucket(g)
    <2>1. Len(buckets) = 0 /\ passed = 0 /\ buckets'[1] = Fresh(gens[g].limit)
      BY <1>1, <1>3, <1>4, <1>5, <1>8, <1>11
    <2>2. Match(buckets'[1], gens'[1].limit) /\ buckets'[1].last = -1
      BY <1>2, <1>4, <2>1 DEF Match, Fresh
    <2> QED
      BY <1>1, <1>2, <1>4, <1>5, <1>8, <1>9, <2>1, <2>2 DEF OneBucket
  <1> QED
    BY <1>10, <1>11

\* The registry hands out the KeyState of the request's generation.
LEMMA ForKeeps ==
    ASSUME IngressInv, NEW r \in Requests, For(r)
    PROVE  IngressInv'
  <1>0. PICK g : g = gen[r]
    OBVIOUS
  <1>1. /\ pc[r] = "loaded" /\ pc' = [pc EXCEPT ![r] = "keyed"]
        /\ own' = [own EXCEPT ![r] = gens'[g].state]
        /\ IF gens[g].state = NoState THEN Build(g) ELSE UNCHANGED <<objects, missed>>
        /\ UNCHANGED <<inflight, snap, gen, now, changed, passed>>
    BY <1>0 DEF For, Goto
  <1>2. g \in 1..Len(gens) /\ gens[g].limit # Absent
    BY <1>0 DEF For, Lookup, IngressInv, Types
  <1>3. /\ gens' \in Seq(GenT) /\ conc' \in Seq(ConcT) /\ buckets' \in Seq(BucketT)
        /\ Len(gens') = Len(gens) /\ Len(conc') >= Len(conc) /\ Len(buckets') >= Len(buckets)
        /\ Len(conc') \in Nat /\ Len(buckets') \in Nat
        /\ \A c \in 1..Len(conc) : conc'[c] = conc[c]
        /\ \A c \in 1..Len(conc') : c \notin 1..Len(conc) =>
              conc'[c].held = 0 /\ conc'[c].limit \in Nat
        /\ \A h \in 1..Len(gens) : gens'[h].limit = gens[h].limit /\ gens'[h].carry = gens[h].carry
        /\ \A h \in 1..Len(gens) : h # g => gens'[h].state = gens[h].state
        /\ gens'[g].state.conc \in 1..Len(conc') /\ gens'[g].state.bucket \in 0..Len(buckets')
        /\ gens'[g].state \in StateT
        /\ OneBound' /\ OneBucket'
    <2>0. Len(conc) \in Nat /\ Len(buckets) \in Nat /\ gens[g] \in GenT
      BY <1>2, Elements DEF IngressInv
    <2>1. CASE gens[g].state # NoState
      <3>1. UNCHANGED <<gens, conc, buckets, missed>>
        BY <1>1, <2>1 DEF objects
      <3>2. Refers(gens[g].state) /\ gens[g].state \in StateT
        BY <1>2, <2>0 DEF IngressInv, References, GenT
      <3>3. OneBound' /\ OneBucket'
        BY <1>1, <3>1 DEF IngressInv, OneBound, OneBucket, Heir
      <3> QED
        BY SMTT(60), <2>0, <2>1, <3>1, <3>2, <3>3 DEF IngressInv, Types, Refers
    <2>2. CASE gens[g].state = NoState
      <3>1. Build(g)
        BY <1>1, <2>2
      <3>2. OneBound' /\ OneBucket'
        BY <1>1, <1>2, <2>2, <3>1, BuildOneBound, BuildOneBucket
      <3>3. /\ gens' \in Seq(GenT) /\ Len(gens') = Len(gens)
            /\ \A h \in 1..Len(gens) : h # g => gens'[h] = gens[h]
            /\ gens'[g].limit = gens[g].limit /\ gens'[g].carry = gens[g].carry
            /\ gens'[g].state.conc \in 1..Len(conc') /\ gens'[g].state.bucket \in 0..Len(buckets')
        BY <1>2, <3>1, BuildState
      <3>4. gens'[g].state \in StateT
        <4>1. gens'[g] \in GenT
          BY <1>2, <3>3, ElementOfSeq
        <4> QED
          BY <4>1 DEF GenT
      <3>5. /\ conc' \in Seq(ConcT)
            /\ Len(conc') = IF KeepsBound(g) THEN Len(conc) ELSE Len(conc) + 1
            /\ \A c \in 1..Len(conc) : conc'[c] = conc[c]
        BY <1>2, <3>1, BuildBound
      <3>6. /\ buckets' \in Seq(BucketT)
            /\ Len(buckets') = IF KeepsBucket(g) \/ gens[g].limit.rps = 0
                               THEN Len(buckets) ELSE Len(buckets) + 1
        BY <1>2, <3>1, BuildBucket
      <3>7. ASSUME NEW c \in 1..Len(conc'), c \notin 1..Len(conc)
            PROVE  conc'[c].held = 0 /\ conc'[c].limit \in Nat
        <4>1. ~KeepsBound(g) /\ c = Len(conc) + 1
          BY <2>0, <3>5, <3>7
        <4>2. conc'[c] = [limit |-> gens[g].limit.conc, held |-> 0]
          BY <1>2, <3>1, <4>1, BuildBound
        <4>3. gens[g].limit.conc \in Nat
          BY <1>2, <2>0 DEF GenT, LimitT
        <4> QED
          BY <4>2, <4>3
      <3>8. /\ Len(conc') >= Len(conc) /\ Len(buckets') >= Len(buckets)
            /\ Len(conc') \in Nat /\ Len(buckets') \in Nat
        BY <2>0, <3>5, <3>6
      <3>9. /\ \A h \in 1..Len(gens) : gens'[h].limit = gens[h].limit /\ gens'[h].carry = gens[h].carry
            /\ \A h \in 1..Len(gens) : h # g => gens'[h].state = gens[h].state
        BY <3>3
      <3> QED
        BY <3>2, <3>3, <3>4, <3>5, <3>6, <3>7, <3>8, <3>9
    <2> QED
      BY <2>1, <2>2
  <1>4. Types'
    BY <1>1, <1>3 DEF IngressInv, Types
  <1>5. References'
    <2>1. 1..Len(conc) \subseteq 1..Len(conc') /\ 0..Len(buckets) \subseteq 0..Len(buckets')
      BY <1>3, Elements DEF IngressInv
    <2>2. ASSUME NEW h \in 1..Len(gens)
          PROVE  /\ \/ gens'[h].state = NoState
                    \/ gens'[h].state.conc \in 1..Len(conc') /\ gens'[h].state.bucket \in 0..Len(buckets')
                 /\ \/ gens'[h].carry = NoState
                    \/ gens'[h].carry.conc \in 1..Len(conc') /\ gens'[h].carry.bucket \in 0..Len(buckets')
      <3>1. /\ \/ gens[h].state = NoState
               \/ gens[h].state.conc \in 1..Len(conc) /\ gens[h].state.bucket \in 0..Len(buckets)
            /\ \/ gens[h].carry = NoState
               \/ gens[h].carry.conc \in 1..Len(conc) /\ gens[h].carry.bucket \in 0..Len(buckets)
        BY DEF IngressInv, References, Refers
      <3>2. gens'[h].carry = gens[h].carry /\ (h # g => gens'[h].state = gens[h].state)
        BY <1>3
      <3>3. CASE h = g
        BY <1>3, <2>1, <3>1, <3>2, <3>3
      <3>4. CASE h # g
        BY <2>1, <3>1, <3>2, <3>4
      <3> QED
        BY <3>3, <3>4
    <2>3. ASSUME NEW q \in Requests, pc'[q] \in {"keyed", "rated", "serving"}
          PROVE  own'[q].conc \in 1..Len(conc') /\ own'[q].bucket \in 0..Len(buckets')
      <3>1. CASE q = r
        BY <1>1, <1>3, <3>1 DEF IngressInv, Types
      <3>2. CASE q # r
        <4>1. own'[q] = own[q] /\ pc'[q] = pc[q]
          BY <1>1, <3>2 DEF IngressInv, Types
        <4>2. own[q].conc \in 1..Len(conc) /\ own[q].bucket \in 0..Len(buckets)
          BY <2>3, <4>1 DEF IngressInv, References
        <4> QED
          BY SMTT(60), <1>3, <4>1, <4>2, Elements DEF IngressInv
      <3> QED
        BY <3>1, <3>2
    <2>4. Len(gens') = Len(gens) /\ NoState' = NoState
      BY <1>3 DEF NoState, None
    <2> QED
      BY SMTT(60), <2>2, <2>3, <2>4 DEF References, Refers
  <1>6. Slots'
    <2>0. \A q \in Requests \ {r} : own'[q] = own[q]
      BY <1>1 DEF IngressInv, Types
    <2>1. /\ Inside' = Inside \cup {r} /\ \A c : Holders(c)' = Holders(c)
      <3>1. PICK l : l = "keyed"
        OBVIOUS
      <3>2. l # "serving" /\ l # "idle" /\ pc[r] # "serving" /\ pc' = [pc EXCEPT ![r] = l]
        BY <1>1, <3>1
      <3> QED
        BY <2>0, <3>2, MoveFacts DEF IngressInv
    <2>2. Inside' = Inside
      BY <1>1, <2>1 DEF Inside
    <2>3. ASSUME NEW c \in 1..Len(conc')
          PROVE  conc'[c].held = Cardinality(Holders(c)') /\ conc'[c].held <= conc'[c].limit
      <3>1. CASE c \in 1..Len(conc)
        BY <1>3, <2>1, <3>1 DEF IngressInv, Slots
      <3>2. CASE c \notin 1..Len(conc)
        <4>1. Holders(c) = {}
          BY <3>2 DEF Holders, IngressInv, References
        <4>2. Cardinality(Holders(c)') = 0
          BY <2>1, <4>1, FS_EmptySet
        <4> QED
          BY SMTT(60), <1>3, <3>2, <4>2
      <3> QED
        BY <3>1, <3>2
    <2> QED
      BY <1>1, <2>2, <2>3 DEF IngressInv, Slots
  <1>7. gens'[1].limit # Absent
    BY SMTT(60), <1>3, Elements DEF IngressInv
  <1> QED
    BY <1>3, <1>4, <1>5, <1>6, <1>7 DEF IngressInv
-----------------------------------------------------------------------------
(* The token bucket.                                                       *)

\* The burst and the time up to the last refill pay for p requests and for the
\* tokens that are left.
Pays(b, p) ==
    IF b.last = -1 THEN p = 0 ELSE p + b.avail <= b.cap + b.rate * b.last

\* A refill pays for what it adds, and moves last only forward.
LEMMA RefillFacts ==
    ASSUME NEW b \in BucketT, NEW t \in Nat, NEW p \in Nat, Pays(b, p)
    PROVE  /\ Refilled(b, t) \in BucketT
           /\ Refilled(b, t).rate = b.rate /\ Refilled(b, t).cap = b.cap
           /\ Refilled(b, t).last \in Nat /\ Refilled(b, t).last \in {b.last, t}
           /\ p + Refilled(b, t).avail <= b.cap + b.rate * Refilled(b, t).last
  <1>1. b.rate \in Nat /\ b.cap \in Nat /\ b.avail \in Nat /\ b.last \in Nat \cup {-1}
    BY DEF BucketT
  <1>2. CASE b.last = -1
    <2>1. Refilled(b, t) = [rate |-> b.rate, cap |-> b.cap, avail |-> b.cap, last |-> t]
      BY <1>2 DEF Refilled, BucketT
    <2>2. b.rate * t \in Nat
      BY <1>1
    <2> QED
      BY <1>1, <1>2, <2>1, <2>2 DEF Pays, BucketT
  <1>3. CASE b.last # -1 /\ t > b.last
    <2> DEFINE sum == b.avail + (t - b.last) * b.rate
               a == IF sum > b.cap THEN b.cap ELSE sum
    <2>1. Refilled(b, t) = [rate |-> b.rate, cap |-> b.cap, avail |-> a, last |-> t]
      BY <1>3 DEF Refilled, BucketT
    <2>2. PICK d \in Nat : t = b.last + d
      <3>1. t - b.last \in Nat /\ t = b.last + (t - b.last)
        BY <1>1, <1>3
      <3> QED
        BY <3>1
    <2>3. (t - b.last) * b.rate = b.rate * d /\ b.rate * d \in Nat
      BY <1>1, <1>3, <2>2
    <2>4. b.rate * t = b.rate * b.last + b.rate * d
      BY <1>1, <1>3, <2>2
    <2>5. sum \in Nat /\ p + sum <= b.cap + b.rate * t
      <3>1. b.rate * b.last \in Nat
        BY <1>1, <1>3
      <3>2. p + b.avail <= b.cap + b.rate * b.last
        BY <1>3 DEF Pays
      <3> QED
        BY <1>1, <2>3, <2>4, <3>1, <3>2
    <2>6. a \in Nat /\ p + a <= b.cap + b.rate * t
      <3>1. b.rate * t \in Nat
        BY <1>1
      <3> HIDE DEF sum
      <3> QED
        BY <1>1, <2>5, <3>1
    <2> HIDE DEF a
    <2> QED
      BY <1>1, <2>1, <2>6 DEF BucketT
  <1>4. CASE b.last # -1 /\ ~(t > b.last)
    BY <1>1, <1>4 DEF Refilled, Pays
  <1> QED
    BY <1>2, <1>3, <1>4

\* A bucket stays a bucket.
LEMMA RefillType ==
    ASSUME NEW b \in BucketT, NEW t \in Nat
    PROVE  Refilled(b, t) \in BucketT
  <1>1. b.rate \in Nat /\ b.cap \in Nat /\ b.avail \in Nat /\ b.last \in Nat \cup {-1}
    BY DEF BucketT
  <1> DEFINE sum == b.avail + (t - b.last) * b.rate
             a == IF sum > b.cap THEN b.cap ELSE sum
  <1>2. t > b.last => a \in Nat
    <2> SUFFICES ASSUME t > b.last PROVE a \in Nat
      OBVIOUS
    <2>1. t - b.last \in Nat
      BY <1>1
    <2>2. (t - b.last) * b.rate \in Nat
      BY <1>1, <2>1
    <2> QED
      BY <1>1, <2>2
  <1>3. Refilled(b, t) \in {[b EXCEPT !.avail = b.cap, !.last = t], b}
        \/ (t > b.last /\ Refilled(b, t) = [b EXCEPT !.avail = a, !.last = t])
    BY DEF Refilled
  <1> HIDE DEF a
  <1> QED
    BY <1>1, <1>2, <1>3 DEF BucketT

\* What AllowRate does to the bucket, and why it gifts nothing.
LEMMA AllowBucket ==
    ASSUME IngressInv, NEW r \in Requests, AllowRate(r)
    PROVE  /\ buckets' \in Seq(BucketT) /\ Len(buckets') = Len(buckets)
           /\ passed' \in Nat /\ OneBucket'
  <1>0. PICK i : i = own[r].bucket
    OBVIOUS
  <1>1. UNCHANGED <<gens, now, changed, missed>> /\ Heir' = Heir
    BY DEF AllowRate, Heir
  <1>2. CASE i = None
    <2>1. UNCHANGED <<buckets, passed>>
      BY <1>0, <1>2 DEF AllowRate
    <2> QED
      BY <1>1, <2>1 DEF IngressInv, Types, OneBucket
  <1>3. CASE i # None
    <2>1. PICK t \in {now - 1, now} \cap Nat : \E b : \E x :
            /\ b = Refilled(buckets[i], t)
            /\ x = IF b.avail >= 1 THEN [b EXCEPT !.avail = b.avail - 1] ELSE b
            /\ buckets' = [buckets EXCEPT ![i] = x]
            /\ passed' = IF b.avail >= 1 THEN passed + 1 ELSE passed
      BY <1>0, <1>3 DEF AllowRate
    <2>2. PICK b, x :
            /\ b = Refilled(buckets[i], t)
            /\ x = IF b.avail >= 1 THEN [b EXCEPT !.avail = b.avail - 1] ELSE b
            /\ buckets' = [buckets EXCEPT ![i] = x]
            /\ passed' = IF b.avail >= 1 THEN passed + 1 ELSE passed
      BY <2>1
    <2>3. i \in 1..Len(buckets) /\ buckets[i] \in BucketT /\ Len(buckets) \in Nat
      <3>1. own[r].bucket \in 0..Len(buckets) /\ Len(buckets) \in Nat
        BY Elements DEF AllowRate, IngressInv, References
      <3>2. i \in 1..Len(buckets)
        BY <1>0, <1>3, <3>1 DEF None
      <3> QED
        BY SMTT(60), <3>1, <3>2, Elements DEF IngressInv
    <2>4. now \in Nat /\ passed \in Nat /\ t \in Nat /\ t <= now
      BY SMTT(60), <2>1 DEF IngressInv, Types
    <2>5. b \in BucketT
      BY <2>2, <2>3, <2>4, RefillType
    <2>6. /\ x \in BucketT /\ x.rate = b.rate /\ x.cap = b.cap /\ x.last = b.last
          /\ passed' \in Nat /\ passed' + x.avail = passed + b.avail
      <3>1. b.avail \in Nat
        BY <2>5 DEF BucketT
      <3>2. CASE b.avail >= 1
        <4>1. b.avail - 1 \in Nat
          BY <3>1, <3>2
        <4>2. x = [rate |-> b.rate, cap |-> b.cap, avail |-> b.avail - 1, last |-> b.last]
          BY <2>2, <2>5, <3>2 DEF BucketT
        <4>3. x.rate = b.rate /\ x.cap = b.cap /\ x.last = b.last /\ x.avail = b.avail - 1 /\ x \in BucketT
          BY <2>5, <4>1, <4>2 DEF BucketT
        <4> QED
          BY <2>2, <2>4, <3>1, <3>2, <4>3
      <3>3. CASE ~(b.avail >= 1)
        BY <2>2, <2>4, <2>5, <3>1, <3>3
      <3> QED
        BY <3>2, <3>3
    <2>7. /\ buckets' \in Seq(BucketT) /\ Len(buckets') = Len(buckets)
          /\ \A j \in 1..Len(buckets) : buckets'[j] = IF j = i THEN x ELSE buckets[j]
      BY SMTT(60), <2>2, <2>3, <2>6, UpdateFacts DEF IngressInv, Types
    <2>8. OneBucket'
      <3> SUFFICES ASSUME "rate" \notin changed, ~missed, gens[1].limit.rps > 0
                   PROVE  OneBucket'
        BY <1>1 DEF OneBucket
      <3>1. /\ Len(buckets) <= 1
            /\ \A g \in 1..Len(gens) :
                  /\ gens[g].limit # Absent
                  /\ gens[g].limit.rps = gens[1].limit.rps
                  /\ DerivedBurst(gens[g].limit) = DerivedBurst(gens[1].limit)
                  /\ gens[g].state # NoState => gens[g].state.bucket = 1
                  /\ gens[g].carry # NoState => gens[g].carry.bucket = 1
            /\ Len(buckets) = 1 =>
                  /\ Match(buckets[1], gens[1].limit) /\ Heir.bucket = 1
                  /\ buckets[1].last <= now
                  /\ Pays(buckets[1], passed)
        BY DEF IngressInv, OneBucket, Pays, Match
      <3>2. i = 1 /\ Len(buckets) = 1
        <4>1. Len(buckets) \in Nat /\ Len(buckets) <= 1 /\ i \in 1..Len(buckets)
          BY <2>3, <3>1
        <4>2. Len(buckets) # 0
          BY <4>1
        <4>3. Len(buckets) = 1
          BY <4>1, <4>2, AtMostOne
        <4>4. i \in 1..1
          BY <4>1, <4>3
        <4> QED
          BY <4>3, <4>4
      <3>3. /\ b.rate = buckets[1].rate /\ b.cap = buckets[1].cap
            /\ b.last \in Nat /\ b.last \in {buckets[1].last, t}
            /\ passed + b.avail <= b.cap + b.rate * b.last
        <4>1. Pays(buckets[1], passed) /\ buckets[1] \in BucketT /\ b = Refilled(buckets[1], t)
          BY <2>2, <2>3, <3>1, <3>2
        <4> QED
          BY <2>4, <4>1, RefillFacts
      <3>4. buckets'[1] = x /\ Match(x, gens[1].limit) /\ x.last <= now
        BY <2>4, <2>6, <2>7, <3>1, <3>2, <3>3 DEF Match
      <3>5. x.last # -1 /\ passed' + x.avail <= DerivedBurst(gens[1].limit) + gens[1].limit.rps * x.last
        BY <2>6, <3>3, <3>4 DEF Match
      <3> QED
        BY <1>1, <2>7, <3>1, <3>2, <3>4, <3>5 DEF OneBucket
    <2> QED
      BY SMTT(60), <2>6, <2>7, <2>8
  <1> QED
    BY <1>2, <1>3

\* A request passes the bucket, or leaves.
LEMMA AllowRateKeeps ==
    ASSUME IngressInv, NEW r \in Requests, AllowRate(r)
    PROVE  IngressInv'
  <1>1. /\ pc[r] = "keyed"
        /\ UNCHANGED <<gens, conc, snap, gen, now, changed, missed>>
    BY DEF AllowRate
  <1>2. /\ buckets' \in Seq(BucketT) /\ Len(buckets') = Len(buckets)
        /\ passed' \in Nat /\ OneBucket'
    BY AllowBucket
  <1>3. PICK l \in {"idle", "rated"} :
          /\ pc' = [pc EXCEPT ![r] = l]
          /\ l = "rated" => own' = own /\ inflight' = inflight
          /\ l = "idle" => own' = [own EXCEPT ![r] = NoState] /\ inflight' = inflight - 1
    BY DEF AllowRate, Goto, Leave
  <1>4. /\ Inside' = IF l = "idle" THEN Inside \ {r} ELSE Inside \cup {r}
        /\ \A c : Holders(c)' = Holders(c)
    <2>1. \A q \in Requests \ {r} : own'[q] = own[q]
      BY <1>3 DEF IngressInv, Types
    <2> QED
      BY <1>1, <1>3, <2>1, MoveFacts DEF IngressInv
  <1>5. inflight' = Cardinality(Inside') /\ inflight' \in 0..MaxInflight
    <2>1. Inside \subseteq Requests /\ r \in Inside
      BY <1>1 DEF Inside
    <2>2. inflight = Cardinality(Inside) /\ inflight \in 0..MaxInflight /\ MaxInflight \in Nat
      BY IngressAssumption DEF IngressInv, Types, Slots
    <2>3. Cardinality(Inside \ {r}) = Cardinality(Inside) - 1 /\ Cardinality(Inside) > 0
      BY <2>1, Counting
    <2>4. Inside \cup {r} = Inside
      BY <2>1
    <2>5. CASE l = "idle"
      BY <1>3, <1>4, <2>2, <2>3, <2>5
    <2>6. CASE l = "rated"
      BY <1>3, <1>4, <2>2, <2>4, <2>6
    <2> QED
      BY <2>5, <2>6
  <1>6. Types'
    <2>1. NoState \in StateT
      BY DEF NoState, None, StateT
    <2>2. own' \in [Requests -> StateT]
      BY <1>3, <2>1 DEF IngressInv, Types
    <2>3. pc' \in [Requests -> {"idle", "entered", "loaded", "keyed", "rated", "serving"}]
      BY <1>3 DEF IngressInv, Types
    <2> QED
      BY SMTT(60), <1>1, <1>2, <1>5, <2>2, <2>3 DEF IngressInv, Types
  <1>7. References'
    <2>1. ASSUME NEW q \in Requests, pc'[q] \in {"keyed", "rated", "serving"}
          PROVE  own'[q] = own[q] /\ pc[q] \in {"keyed", "rated", "serving"}
      BY <1>1, <1>3, <2>1 DEF IngressInv, Types
    <2> QED
      BY <1>1, <1>2, <2>1 DEF IngressInv, References, Refers
  <1>8. Slots'
    BY <1>1, <1>4, <1>5 DEF IngressInv, Slots
  <1>9. OneBound' /\ gens'[1].limit # Absent
    BY <1>1 DEF IngressInv, OneBound, Heir
  <1> QED
    BY SMTT(60), <1>2, <1>6, <1>7, <1>8, <1>9 DEF IngressInv

-----------------------------------------------------------------------------
(* ReloadStore.                                                            *)

\* A new generation, and what it carries.
LEMMA BuildGenerationFacts ==
    ASSUME IngressInv, NEW l \in Limits \cup {Absent}, BuildGeneration(l)
    PROVE  \E x \in GenT :
             /\ x.limit = NewStore(l) /\ x.state = NoState
             /\ x.carry = Carried(gens[Len(gens)], NewStore(l)) /\ Refers(x.carry)
             /\ gens' \in Seq(GenT) /\ Len(gens') = Len(gens) + 1
             /\ \A h \in 1..Len(gens) : gens'[h] = gens[h]
             /\ gens'[Len(gens) + 1] = x
  <1>1. /\ gens \in Seq(GenT) /\ snap = Len(gens) /\ snap \in 1..Len(gens) /\ gens[snap] \in GenT
    BY Elements DEF IngressInv, Types, BuildGeneration
  <1>2. PICK c : c = Carried(gens[snap], NewStore(l))
    OBVIOUS
  <1>3. NoState \in StateT
    BY DEF NoState, None, StateT
  <1>4. c \in StateT /\ Refers(c)
    <2>1. Refers(gens[snap].state) /\ Refers(gens[snap].carry) /\ Refers(NoState)
      BY <1>1 DEF IngressInv, References, Refers
    <2>2. gens[snap].state \in StateT /\ gens[snap].carry \in StateT
      BY <1>1 DEF GenT
    <2> QED
      BY <1>2, <1>3, <2>1, <2>2 DEF Carried
  <1>5. PICK x : x = [limit |-> NewStore(l), state |-> NoState, carry |-> c]
    OBVIOUS
  <1>6. x \in GenT /\ x.limit = NewStore(l) /\ x.state = NoState /\ x.carry = c
    BY <1>3, <1>4, <1>5, NewStoreFacts DEF GenT
  <1>7. gens' = Append(gens, x)
    BY <1>2, <1>5 DEF BuildGeneration
  <1>8. /\ gens' \in Seq(GenT) /\ Len(gens') = Len(gens) + 1
        /\ \A h \in 1..Len(gens) : gens'[h] = gens[h]
        /\ gens'[Len(gens) + 1] = x
    BY <1>1, <1>6, <1>7, AppendFacts
  <1> QED
    BY <1>1, <1>2, <1>4, <1>6, <1>8

\* A reload that changes nothing passes the bound and the bucket on.
LEMMA BuildGenerationKeeps ==
    ASSUME IngressInv, NEW l \in Limits \cup {Absent}, BuildGeneration(l)
    PROVE  IngressInv'
  <1>0. PICK n : n = Len(gens)
    OBVIOUS
  <1>1. PICK x \in GenT :
          /\ x.limit = NewStore(l) /\ x.state = NoState
          /\ x.carry = Carried(gens[n], NewStore(l)) /\ Refers(x.carry)
          /\ gens' \in Seq(GenT) /\ Len(gens') = n + 1
          /\ \A h \in 1..n : gens'[h] = gens[h]
          /\ gens'[n + 1] = x
    BY <1>0, BuildGenerationFacts
  <1>2. /\ UNCHANGED <<pc, inflight, conc, buckets, snap, gen, own, now, missed, passed>>
        /\ changed' = changed \cup Differs(x.limit, gens[n].limit)
    BY <1>0, <1>1 DEF BuildGeneration
  <1>3. n \in Nat \ {0} /\ 1 \in 1..n /\ n \in 1..n /\ gens'[1] = gens[1] /\ gens[n] \in GenT
    <2>1. n \in Nat \ {0} /\ 1 \in 1..n /\ n \in 1..n
      BY <1>0, Elements DEF IngressInv
    <2> QED
      BY <1>0, <1>1, <2>1, Elements DEF IngressInv
  <1>4. \A h \in 1..Len(gens') : h \in 1..n \/ h = n + 1
    BY <1>1, <1>3
  <1>5. Types'
    <2>1. snap \in 1..n /\ \A r \in Requests : gen[r] \in 1..n
      BY <1>0 DEF IngressInv, Types
    <2>2. 1..n \subseteq 1..(n + 1)
      BY <1>3
    <2> QED
      BY <1>1, <1>2, <2>1, <2>2 DEF IngressInv, Types
  <1>6. References'
    <2>1. \A h \in 1..n : Refers(gens[h].state) /\ Refers(gens[h].carry)
      BY <1>0 DEF IngressInv, References
    <2>2. ASSUME NEW h \in 1..Len(gens') PROVE (Refers(gens[h].state) /\ Refers(gens[h].carry))'
      BY <1>1, <1>2, <1>4, <2>1 DEF Refers
    <2> QED
      BY <1>2, <2>2 DEF IngressInv, References
  <1>7. Slots'
    BY <1>2 DEF IngressInv, Slots, Inside, Holders
  <1>8. Heir' = Carried(x, x.limit) /\ Heir = Carried(gens[n], gens[n].limit)
    BY <1>0, <1>1 DEF Heir
  <1>9. x.limit # Absent /\ gens[n].limit # Absent => Heir' = Heir
    BY <1>1, <1>8 DEF Carried
  <1>10. OneBound'
    <2> SUFFICES ASSUME "conc" \notin changed', ~missed' PROVE OneBound'
      BY DEF OneBound
    <2>1. /\ Len(conc) <= 1
          /\ \A h \in 1..n : gens[h].limit # Absent /\ gens[h].limit.conc = gens[1].limit.conc
          /\ Len(conc) = 1 => conc[1].limit = gens[1].limit.conc /\ Heir.conc = 1
      BY <1>0, <1>2 DEF IngressInv, OneBound
    <2>2. x.limit # Absent /\ x.limit.conc = gens[1].limit.conc
      BY <1>2, <1>3, <2>1 DEF Differs
    <2> QED
      BY SMTT(60), <1>1, <1>2, <1>3, <1>4, <1>9, <2>1, <2>2 DEF OneBound
  <1>11. OneBucket'
    <2> SUFFICES ASSUME "rate" \notin changed', ~missed', gens[1].limit.rps > 0 PROVE OneBucket'
      BY <1>3 DEF OneBucket
    <2>1. /\ Len(buckets) <= 1
          /\ \A h \in 1..n :
                /\ gens[h].limit # Absent
                /\ gens[h].limit.rps = gens[1].limit.rps
                /\ DerivedBurst(gens[h].limit) = DerivedBurst(gens[1].limit)
                /\ gens[h].state # NoState => gens[h].state.bucket = 1
                /\ gens[h].carry # NoState => gens[h].carry.bucket = 1
          /\ Len(buckets) = 0 => passed = 0
          /\ Len(buckets) = 1 =>
              /\ Match(buckets[1], gens[1].limit) /\ Heir.bucket = 1
              /\ buckets[1].last <= now
              /\ Pays(buckets[1], passed)
      BY <1>0, <1>2 DEF IngressInv, OneBucket, Pays, Match
    <2>2. /\ x.limit # Absent /\ x.limit.rps = gens[1].limit.rps
          /\ DerivedBurst(x.limit) = DerivedBurst(gens[1].limit)
      BY <1>2, <1>3, <2>1 DEF Differs
    <2>3. x.carry # NoState => x.carry.bucket = 1
      BY <1>1, <1>3, <2>1 DEF Carried
    <2>4. Heir' = Heir
      BY <1>3, <1>9, <2>1, <2>2
    <2> QED
      BY SMTT(60), <1>1, <1>2, <1>3, <1>4, <2>1, <2>2, <2>3, <2>4 DEF OneBucket, Pays, Match
  <1>12. gens'[1].limit # Absent
    BY <1>3 DEF IngressInv
  <1> QED
    BY <1>5, <1>6, <1>7, <1>10, <1>11, <1>12 DEF IngressInv

-----------------------------------------------------------------------------
(* The theorems.                                                           *)

LEMMA InitIngress == Init => IngressInv
  <1> SUFFICES ASSUME Init PROVE IngressInv
    OBVIOUS
  <1>1. PICK l \in Limits : gens = <<[limit |-> NewStore(l), state |-> NoState, carry |-> NoState]>>
    BY DEF Init
  <1>2. PICK x : x = [limit |-> NewStore(l), state |-> NoState, carry |-> NoState]
    OBVIOUS
  <1>3. NoState \in StateT
    BY DEF NoState, None, StateT
  <1>4. x \in GenT /\ x.limit # Absent /\ x.state = NoState /\ x.carry = NoState
    BY <1>2, <1>3, NewStoreFacts DEF GenT
  <1>5. gens = <<x>> /\ gens \in Seq(GenT) /\ Len(gens) = 1 /\ gens[1] = x
    BY <1>1, <1>2, <1>4
  <1>6. Types
    BY <1>3, <1>5, IngressAssumption DEF Init, Types
  <1>7. References
    BY <1>4, <1>5 DEF Init, References, Refers
  <1>8. Slots
    <2>1. Inside = {}
      BY DEF Inside, Init
    <2>2. Len(conc) = 0
      BY DEF Init
    <2> QED
      BY <2>1, <2>2, FS_EmptySet DEF Slots, Init
  <1>9. OneBound
    BY <1>4, <1>5 DEF Init, OneBound
  <1>10. OneBucket
    BY <1>4, <1>5 DEF Init, OneBucket
  <1> QED
    BY <1>4, <1>5, <1>6, <1>7, <1>8, <1>9, <1>10 DEF IngressInv

\* The invariant is inductive: every object a request or a generation refers
\* to exists, tokens in the channels are the requests that took them, and
\* reloads that change nothing pass one bound and one bucket on.
THEOREM IngressInductive == Spec => []IngressInv
  <1>1. ASSUME IngressInv, [Next]_vars PROVE IngressInv'
    <2>1. ASSUME NEW r \in Requests,
                 Enter(r) \/ RateLimited(r) \/ LoadSnapshot(r) \/ Unauthorized(r) \/ Busy(r)
          PROVE  IngressInv'
      BY <1>1, <2>1, MovesKeep
    <2>2. ASSUME NEW r \in Requests, For(r) PROVE IngressInv'
      BY <1>1, <2>2, ForKeeps
    <2>3. ASSUME NEW r \in Requests, AllowRate(r) PROVE IngressInv'
      BY <1>1, <2>3, AllowRateKeeps
    <2>4. ASSUME NEW r \in Requests, Acquire(r) \/ Finish(r) PROVE IngressInv'
      BY <1>1, <2>4, AcquireKeeps, FinishKeeps
    <2>5. ASSUME NEW l \in Limits \cup {Absent}, BuildGeneration(l) PROVE IngressInv'
      BY <1>1, <2>5, BuildGenerationKeeps
    <2>6. CASE PublishGeneration \/ SecondPasses \/ UNCHANGED vars
      BY <1>1, <2>6, QuietKeeps
    <2> QED
      BY <1>1, <2>1, <2>2, <2>3, <2>4, <2>5, <2>6 DEF Next
  <1> QED
    BY <1>1, InitIngress, PTL DEF Spec

\* Slots come back to the channel they were taken from, and no channel ever
\* holds more tokens than its capacity, whatever reloads happen in between.
THEOREM SlotsAreConserved == Spec => []SlotsConserved
  <1>1. ASSUME IngressInv PROVE SlotsConserved
    <2>1. DOMAIN conc = 1..Len(conc)
      BY <1>1, LenProperties DEF IngressInv, Types
    <2>2. ASSUME NEW c PROVE {r \in Serving : own[r].conc = c} = Holders(c)
      BY DEF Serving, Holders
    <2> QED
      BY <1>1, <2>1, <2>2 DEF IngressInv, Slots, Inside, SlotsConserved
  <1> QED
    BY <1>1, IngressInductive, PTL

\* An unchanged concurrent_requests is one bound for the requests of all
\* generations.
THEOREM ReloadsShareTheBound == Spec => []ReloadKeepsBound
  <1>1. ASSUME IngressInv PROVE ReloadKeepsBound
    <2> SUFFICES ASSUME "conc" \notin changed, ~missed
                 PROVE  Len(conc) <= 1 /\ Cardinality(Serving) <= gens[1].limit.conc
      BY DEF ReloadKeepsBound
    <2>1. /\ Len(conc) <= 1 /\ Len(conc) \in Nat
          /\ Len(conc) = 1 => conc[1].limit = gens[1].limit.conc
      BY <1>1, Elements DEF IngressInv, OneBound
    <2>2. gens[1].limit.conc \in Nat
      <3>1. gens[1] \in GenT
        BY <1>1, Elements DEF IngressInv
      <3> QED
        BY <1>1, <3>1 DEF IngressInv, GenT, LimitT
    <2>3. \A r \in Serving : r \in Requests /\ own[r].conc \in 1..Len(conc)
      BY <1>1 DEF Serving, IngressInv, References
    <2>4. CASE Len(conc) = 0
      <3>1. Serving = {}
        BY <2>3, <2>4
      <3> QED
        BY <2>1, <2>2, <3>1, FS_EmptySet
    <2>5. CASE Len(conc) = 1
      <3>1. Serving = Holders(1)
        BY <2>3, <2>5 DEF Serving, Holders
      <3> QED
        BY <1>1, <2>1, <2>5, <3>1 DEF IngressInv, Slots
    <2> QED
      BY <2>1, <2>4, <2>5, AtMostOne
  <1> QED
    BY <1>1, IngressInductive, PTL

\* A reload gifts no fresh burst, whatever the order the clock readings reach
\* the bucket in.
THEOREM ReloadsGiftNoBurst == Spec => []ReloadGiftsNoBurst
  <1>1. ASSUME IngressInv PROVE ReloadGiftsNoBurst
    <2> SUFFICES ASSUME "rate" \notin changed, ~missed, gens[1].limit.rps > 0
                 PROVE  passed <= DerivedBurst(gens[1].limit) + gens[1].limit.rps * now
      BY DEF ReloadGiftsNoBurst
    <2>1. gens[1].limit \in LimitT /\ gens[1].limit.rps \in Nat /\ DerivedBurst(gens[1].limit) \in Nat
      <3>1. gens[1] \in GenT
        BY <1>1, Elements DEF IngressInv
      <3>2. gens[1].limit \in LimitT
        BY <1>1, <3>1 DEF IngressInv, GenT
      <3> QED
        BY <3>2, BurstFacts DEF LimitT
    <2>2. now \in Nat /\ passed \in Nat
      BY <1>1 DEF IngressInv, Types
    <2>3. gens[1].limit.rps * now \in Nat
      BY <2>1, <2>2
    <2>4. Len(buckets) \in Nat /\ Len(buckets) <= 1
      BY <1>1, Elements DEF IngressInv, OneBucket
    <2>5. CASE passed = 0
      BY <2>1, <2>3, <2>5
    <2>6. CASE passed # 0
      <3>1. Len(buckets) = 1
        BY <1>1, <2>4, <2>6, AtMostOne DEF IngressInv, OneBucket
      <3>2. buckets[1] \in BucketT
        BY <1>1, <3>1, Elements DEF IngressInv
      <3>3. /\ buckets[1].last <= now /\ buckets[1].last # -1
            /\ passed + buckets[1].avail
                 <= DerivedBurst(gens[1].limit) + gens[1].limit.rps * buckets[1].last
        BY <1>1, <2>6, <3>1 DEF IngressInv, OneBucket
      <3>4. PICK a \in Nat, t \in Nat : a = buckets[1].avail /\ t = buckets[1].last
        BY <3>2, <3>3 DEF BucketT
      <3>5. gens[1].limit.rps * t <= gens[1].limit.rps * now
        BY <2>1, <2>2, <3>3, <3>4
      <3> QED
        BY <2>1, <2>2, <2>3, <3>3, <3>4, <3>5
    <2> QED
      BY <2>5, <2>6
  <1> QED
    BY <1>1, IngressInductive, PTL
=============================================================================
