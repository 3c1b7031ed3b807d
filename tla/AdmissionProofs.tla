-------------------------- MODULE AdmissionProofs --------------------------
(***************************************************************************)
(* Proofs about Admission, for every set of callers, every concurrency and *)
(* every queue size, and about Router, for all weights, every number of    *)
(* requests and every length of a streak.                                  *)
(***************************************************************************)
EXTENDS Admission, Router, FiniteSetTheorems, SequenceTheorems, NaturalsInduction,
        WellFoundedInduction, TLAPS

-----------------------------------------------------------------------------
(* The three ways the list of blocked senders changes.                     *)

Injective(s) == \A i, j \in DOMAIN s : s[i] = s[j] => i = j

\* A goroutine that is not in the list is added at its end.
LEMMA AppendSender ==
    ASSUME NEW S, NEW s \in Seq(S), NEW e \in S, Injective(s), e \notin ToSet(s)
    PROVE  /\ Append(s, e) \in Seq(S)
           /\ ToSet(Append(s, e)) = ToSet(s) \cup {e}
           /\ Injective(Append(s, e))
           /\ Append(s, e) # <<>>
  <1> DEFINE t == Append(s, e)
  <1>1. /\ t \in Seq(S) /\ DOMAIN t = 1..(Len(s) + 1)
        /\ \A i \in 1..Len(s) : t[i] = s[i]
        /\ t[Len(s) + 1] = e
        /\ DOMAIN s = 1..Len(s) /\ Len(s) \in Nat /\ t # <<>>
    OBVIOUS
  <1> HIDE DEF t
  <1>2. ToSet(t) = ToSet(s) \cup {e}
    <2>1. ToSet(t) \subseteq ToSet(s) \cup {e}
      BY <1>1 DEF ToSet
    <2>2. ToSet(s) \cup {e} \subseteq ToSet(t)
      <3>1. Len(s) + 1 \in DOMAIN t
        BY <1>1
      <3>2. \A i \in 1..Len(s) : i \in DOMAIN t
        BY <1>1
      <3> QED
        BY <1>1, <3>1, <3>2 DEF ToSet
    <2> QED
      BY <2>1, <2>2
  <1>3. Injective(t)
    BY <1>1 DEF Injective, ToSet
  <1> QED
    BY <1>1, <1>2, <1>3 DEF t

\* The oldest sender is taken off the list.
LEMMA TailSender ==
    ASSUME NEW S, NEW s \in Seq(S), Injective(s), s # <<>>
    PROVE  /\ Tail(s) \in Seq(S)
           /\ Head(s) \in ToSet(s)
           /\ ToSet(Tail(s)) = ToSet(s) \ {Head(s)}
           /\ Injective(Tail(s))
  <1> DEFINE t == Tail(s)
  <1>1. /\ t \in Seq(S) /\ DOMAIN t = 1..(Len(s) - 1)
        /\ \A i \in 1..(Len(s) - 1) : t[i] = s[i + 1]
        /\ Head(s) = s[1]
        /\ DOMAIN s = 1..Len(s) /\ Len(s) \in Nat \ {0}
    OBVIOUS
  <1> HIDE DEF t
  <1>2. Head(s) \in ToSet(s)
    BY <1>1 DEF ToSet
  <1>3. ToSet(t) = ToSet(s) \ {Head(s)}
    <2>1. ASSUME NEW x \in ToSet(t) PROVE x \in ToSet(s) /\ x # Head(s)
      <3>1. PICK i \in 1..(Len(s) - 1) : x = s[i + 1]
        BY <1>1 DEF ToSet
      <3>2. i + 1 \in 1..Len(s) /\ i + 1 # 1
        BY <1>1
      <3> QED
        <4>1. x \in ToSet(s)
          BY <1>1, <3>1, <3>2 DEF ToSet
        <4>2. PICK k \in 1..Len(s) : k = i + 1 /\ k # 1
          BY <3>2
        <4>3. 1 \in 1..Len(s) /\ x = s[k]
          BY <1>1, <3>1, <4>2
        <4>4. s[k] # s[1]
          BY <1>1, <4>2, <4>3 DEF Injective
        <4> QED
          BY <1>1, <4>1, <4>3, <4>4
    <2>2. ASSUME NEW x \in ToSet(s), x # Head(s) PROVE x \in ToSet(t)
      <3>1. PICK i \in 1..Len(s) : x = s[i]
        BY <1>1 DEF ToSet
      <3>2. i - 1 \in 1..(Len(s) - 1) /\ t[i - 1] = x
        BY <1>1, <2>2, <3>1
      <3> QED
        BY <1>1, <3>2 DEF ToSet
    <2> QED
      BY <2>1, <2>2
  <1>4. Injective(t)
    <2> SUFFICES ASSUME NEW i \in 1..(Len(s) - 1), NEW j \in 1..(Len(s) - 1), t[i] = t[j]
                 PROVE  i = j
      BY <1>1 DEF Injective
    <2>1. PICK k \in 1..Len(s), l \in 1..Len(s) : k = i + 1 /\ l = j + 1
      BY <1>1
    <2>2. s[k] = s[l]
      BY <1>1, <2>1
    <2>3. k = l
      BY <1>1, <2>2 DEF Injective
    <2> QED
      BY <2>1, <2>3
  <1> QED
    BY <1>1, <1>2, <1>3, <1>4 DEF t

\* What is where when the k-th element is taken out.
LEMMA RemoveAtFacts ==
    ASSUME NEW S, NEW s \in Seq(S), NEW k \in 1..Len(s)
    PROVE  /\ RemoveAt(s, k) \in Seq(S) /\ DOMAIN RemoveAt(s, k) = 1..(Len(s) - 1)
           /\ \A i \in 1..(Len(s) - 1) : RemoveAt(s, k)[i] = IF i < k THEN s[i] ELSE s[i + 1]
           /\ DOMAIN s = 1..Len(s) /\ Len(s) \in Nat \ {0}
  <1> DEFINE t == RemoveAt(s, k)
  <1> DEFINE a == SubSeq(s, 1, k - 1)
             b == SubSeq(s, k + 1, Len(s))
  <1>1. /\ Len(s) \in Nat \ {0} /\ DOMAIN s = 1..Len(s)
        /\ \A i \in 1..Len(s) : s[i] \in S
    OBVIOUS
  <1>2. a \in Seq(S) /\ Len(a) = k - 1 /\ \A i \in 1..(k - 1) : a[i] = s[i]
    BY <1>1, SubSeqProperties
  <1>3. /\ b \in Seq(S) /\ Len(b) = Len(s) - k
        /\ \A i \in 1..(Len(s) - k) : b[i] = s[k + i]
    <2>1. \A i \in (k + 1)..Len(s) : s[i] \in S
      BY <1>1
    <2> DEFINE m == k + 1
               n == Len(s)
    <2>2. m \in Int /\ n \in Int
      BY <1>1
    <2>3. /\ SubSeq(s, m, n) \in Seq(S)
          /\ Len(SubSeq(s, m, n)) = IF m <= n THEN n - m + 1 ELSE 0
          /\ \A i \in 1..(n - m + 1) : SubSeq(s, m, n)[i] = s[m + i - 1]
      <3> HIDE DEF m, n
      <3> QED
        BY <2>1, <2>2, SubSeqProperties DEF m, n
    <2> HIDE DEF b
    <2>4. /\ b \in Seq(S) /\ Len(b) = (IF m <= n THEN n - m + 1 ELSE 0)
          /\ \A i \in 1..(n - m + 1) : b[i] = s[m + i - 1]
      BY SMTT(60), <2>3 DEF b
    <2>5. Len(b) = Len(s) - k
      <3>1. PICK len \in Nat : len = Len(s)
        BY <1>1
      <3>2. PICK l : l = Len(b) /\ l = (IF k + 1 <= len THEN len - (k + 1) + 1 ELSE 0)
        BY <2>4, <3>1
      <3> HIDE DEF m, n
      <3>3. k <= len /\ k \in Nat
        BY <3>1
      <3>4. l = len - k
        <4>1. CASE k = len
          BY <3>1, <3>2, <4>1
        <4>2. CASE k # len
          BY <3>1, <3>2, <3>3, <4>2
        <4> QED
          BY <4>1, <4>2
      <3>5. Len(b) = len - k
        BY <3>2, <3>4, Zenon
      <3> QED
        BY <3>1, <3>5, ZenonT(60)
    <2>6. ASSUME NEW i \in 1..(Len(s) - k) PROVE b[i] = s[k + i]
      <3>1. m + i - 1 = k + i /\ i \in 1..(n - m + 1)
        BY <1>1
      <3> QED
        BY <2>4, <3>1
    <2> QED
      BY <2>4, <2>5, <2>6
  <1> HIDE DEF a, b
  <1>4. a \o b \in Seq(S) /\ Len(a \o b) = Len(s) - 1
    <2>1. a \o b \in Seq(S) /\ Len(a \o b) = Len(a) + Len(b)
      BY <1>2, <1>3, ConcatProperties
    <2> QED
      BY <1>1, <1>2, <1>3, <2>1
  <1>5. ASSUME NEW i \in 1..(Len(s) - 1)
        PROVE  (a \o b)[i] = IF i < k THEN s[i] ELSE s[i + 1]
    <2>1. CASE i < k
      BY <1>1, <1>2, <1>3, <2>1
    <2>2. CASE ~(i < k)
      <3>1. (a \o b)[i] = b[i - (k - 1)]
        BY SMTT(60), <1>1, <1>2, <1>3, <2>2
      <3>2. i - (k - 1) \in 1..(Len(s) - k) /\ k + (i - (k - 1)) = i + 1
        BY <1>1, <2>2
      <3> QED
        BY <1>3, <2>2, <3>1, <3>2
    <2> QED
      BY <2>1, <2>2
  <1>6. t = a \o b
    BY DEF t, RemoveAt, a, b
  <1> HIDE DEF t
  <1> QED
    <2>1. DOMAIN t = 1..Len(t)
      BY <1>4, <1>6
    <2>2. t \in Seq(S) /\ Len(t) = Len(s) - 1
          /\ \A i \in 1..(Len(s) - 1) : t[i] = IF i < k THEN s[i] ELSE s[i + 1]
      BY <1>4, <1>5, <1>6
    <2> QED
      BY <1>1, <2>1, <2>2 DEF t

\* A sender that was woken by another case is taken out of the list.
LEMMA RemoveSender ==
    ASSUME NEW S, NEW s \in Seq(S), Injective(s), NEW k \in 1..Len(s)
    PROVE  /\ RemoveAt(s, k) \in Seq(S)
           /\ s[k] \in ToSet(s)
           /\ ToSet(RemoveAt(s, k)) = ToSet(s) \ {s[k]}
           /\ Injective(RemoveAt(s, k))
  <1> DEFINE t == RemoveAt(s, k)
  <1>1. /\ t \in Seq(S) /\ DOMAIN t = 1..(Len(s) - 1)
        /\ \A i \in 1..(Len(s) - 1) : t[i] = IF i < k THEN s[i] ELSE s[i + 1]
        /\ DOMAIN s = 1..Len(s) /\ Len(s) \in Nat \ {0}
    BY RemoveAtFacts
  <1> HIDE DEF t
  <1>2. s[k] \in ToSet(s)
    BY <1>1 DEF ToSet
  <1>3. ToSet(t) = ToSet(s) \ {s[k]}
    <2>1. ASSUME NEW x \in ToSet(t) PROVE x \in ToSet(s) /\ x # s[k]
      <3>1. PICK i \in 1..(Len(s) - 1) : x = IF i < k THEN s[i] ELSE s[i + 1]
        BY SMTT(60), <1>1 DEF ToSet
      <3>2. \E j \in 1..Len(s) : j # k /\ x = s[j]
        BY <1>1, <3>1
      <3> QED
        BY SMTT(60), <1>1, <3>2 DEF ToSet, Injective
    <2>2. ASSUME NEW x \in ToSet(s), x # s[k] PROVE x \in ToSet(t)
      <3>1. PICK i \in 1..Len(s) : x = s[i]
        BY <1>1 DEF ToSet
      <3>2. \E j \in 1..(Len(s) - 1) : t[j] = x
        <4>1. CASE i < k
          <5>1. i \in 1..(Len(s) - 1)
            BY <1>1, <4>1
          <5> QED
            BY <1>1, <3>1, <4>1, <5>1
        <4>2. CASE i > k
          <5>1. i - 1 \in 1..(Len(s) - 1) /\ ~(i - 1 < k) /\ (i - 1) + 1 = i
            BY <1>1, <4>2
          <5> QED
            BY <1>1, <3>1, <5>1
        <4> QED
          BY <2>2, <3>1, <4>1, <4>2
      <3> QED
        BY <1>1, <3>2 DEF ToSet
    <2> QED
      BY <2>1, <2>2
  <1>4. Injective(t)
    <2> DEFINE at(i) == IF i < k THEN i ELSE i + 1
    <2>1. \A i \in 1..(Len(s) - 1) : at(i) \in 1..Len(s) /\ t[i] = s[at(i)]
      BY <1>1
    <2>2. \A i, j \in 1..(Len(s) - 1) : at(i) = at(j) => i = j
      BY <1>1
    <2> HIDE DEF at
    <2> QED
      BY SMTT(60), <1>1, <2>1, <2>2 DEF Injective
  <1> QED
    BY <1>1, <1>2, <1>3, <1>4 DEF t

-----------------------------------------------------------------------------
(* Counting requests.                                                      *)

\* What taking, returning and exchanging one request does to the count of a set.
LEMMA Counting ==
    ASSUME NEW T \in SUBSET Requests, NEW x
    PROVE  /\ IsFiniteSet(T)
           /\ Cardinality(T) \in Nat
           /\ x \notin T => Cardinality(T \cup {x}) = Cardinality(T) + 1
           /\ x \in T => /\ Cardinality(T) > 0
                         /\ Cardinality(T \ {x}) = Cardinality(T) - 1
  <1>1. IsFiniteSet(T)
    BY FS_Subset, AdmissionAssumption DEF AdmissionAssumption
  <1>2. Cardinality(T) \in Nat
    BY <1>1, FS_CardinalityType
  <1>3. x \notin T => Cardinality(T \cup {x}) = Cardinality(T) + 1
    BY <1>1, FS_AddElement
  <1>4. x \in T => Cardinality(T) > 0
    BY <1>1, <1>2, FS_EmptySet
  <1>5. x \in T => Cardinality(T \ {x}) = Cardinality(T) - 1
    BY <1>1, FS_RemoveElement
  <1> QED
    BY <1>1, <1>2, <1>3, <1>4, <1>5

\* An empty pool satisfies the inductive invariant.
LEMMA InitInductive == Init => IInv
  <1> SUFFICES ASSUME Init PROVE IInv
    OBVIOUS
  <1>1. TypeOK /\ HoldsAreResults
    <2>1. /\ pc \in [Requests -> PCs] /\ out \in [Requests -> Outcomes]
          /\ conc \in Nat /\ queue \in Nat /\ sendq \in Seq(Requests)
      BY DEF Init, PCs, Outcomes
    <2>2. /\ drain \in BOOLEAN /\ canceled \in SUBSET Requests
          /\ hold \in SUBSET Requests /\ HoldsAreResults
      BY DEF Init, HoldsAreResults
    <2> QED
      BY <2>1, <2>2 DEF TypeOK
  <1>2. Holders = {} /\ Queued = {} /\ Waiting = {}
    BY DEF Init, Holders, Queued, Waiting
  <1>3. TokensConserved
    BY <1>2, FS_EmptySet, AdmissionAssumption
       DEF AdmissionAssumption, TokensConserved, Init
  <1>4. NoLostWakeup
    BY <1>2 DEF NoLostWakeup, Init, ToSet
  <1> QED
    BY <1>1, <1>3, <1>4 DEF IInv

\* A step that moves one request between control states that stand for the
\* same tokens keeps the inductive invariant.
LEMMA QuietMove ==
    ASSUME IInv, TypeOK', NEW r \in Requests,
           \A q \in Requests \ {r} : pc'[q] = pc[q],
           pc[r] \notin {"waiting", "result"}, pc'[r] \notin {"waiting", "result"},
           UNCHANGED <<conc, queue, sendq, hold>>,
           r \in Holders <=> r \in Holders', r \in Queued <=> r \in Queued'
    PROVE  IInv'
  <1>1. Holders' = Holders
    BY DEF IInv, TypeOK, Holders
  <1>2. Queued' = Queued /\ Waiting' = Waiting
    BY DEF IInv, TypeOK, Queued, Waiting
  <1>3. TokensConserved'
    BY <1>1, <1>2 DEF IInv, TokensConserved
  <1>4. NoLostWakeup'
    BY <1>2 DEF IInv, NoLostWakeup
  <1>5. HoldsAreResults'
    BY DEF IInv, TypeOK, HoldsAreResults
  <1> QED
    BY <1>3, <1>4, <1>5 DEF IInv

\* A step that moves one request r between control states, and neither the
\* list of senders nor a hold, keeps the inductive invariant if it takes and
\* returns the tokens its control states stand for.
LEMMA PlainMove ==
    ASSUME IInv, TypeOK', NEW r \in Requests, NEW label \in PCs,
           pc' = [pc EXCEPT ![r] = label],
           pc[r] \notin {"waiting", "result"}, label \notin {"waiting", "result"},
           hold' = hold, sendq' = sendq,
           conc' = conc + (IF r \in Holders' \ Holders THEN 1 ELSE 0),
           r \in Holders => r \in Holders',
           queue' = queue + (IF r \in Queued' \ Queued THEN 1 ELSE 0)
                          - (IF r \in Queued \ Queued' THEN 1 ELSE 0),
           conc' <= MaxConcurrency, queue' <= QueueSize
    PROVE  IInv'
  <1>1. Holders' = Holders \/ (r \in Holders' \ Holders /\ Holders' = Holders \cup {r})
    BY DEF IInv, TypeOK, Holders
  <1>2. \/ Queued' = Queued
        \/ r \in Queued' \ Queued /\ Queued' = Queued \cup {r}
        \/ r \in Queued \ Queued' /\ Queued' = Queued \ {r}
    BY DEF IInv, TypeOK, Queued
  <1>3. Waiting' = Waiting
    BY DEF IInv, TypeOK, Waiting
  <1>4. Holders \in SUBSET Requests /\ Queued \in SUBSET Requests
    BY DEF Holders, Queued
  <1>5. conc' = Cardinality(Holders')
    <2>1. /\ conc = Cardinality(Holders) /\ conc \in Nat
          /\ r \notin Holders => Cardinality(Holders \cup {r}) = conc + 1
      BY <1>4, Counting DEF IInv, TypeOK, TokensConserved
    <2>2. CASE Holders' = Holders
      BY <2>1, <2>2
    <2>3. CASE r \in Holders' \ Holders /\ Holders' = Holders \cup {r}
      BY <2>1, <2>3
    <2> QED
      BY <1>1, <2>2, <2>3
  <1>6. queue' = Cardinality(Queued')
    <2>1. /\ queue = Cardinality(Queued) /\ queue \in Nat
          /\ r \notin Queued => Cardinality(Queued \cup {r}) = queue + 1
          /\ r \in Queued => Cardinality(Queued \ {r}) = queue - 1
      BY <1>4, Counting DEF IInv, TypeOK, TokensConserved
    <2>2. CASE Queued' = Queued
      BY <2>1, <2>2
    <2>3. CASE r \in Queued' \ Queued /\ Queued' = Queued \cup {r}
      BY <2>1, <2>3
    <2>4. CASE r \in Queued \ Queued' /\ Queued' = Queued \ {r}
      BY <2>1, <2>4
    <2> QED
      BY <1>2, <2>2, <2>3, <2>4
  <1>7. conc' >= conc
    BY DEF IInv, TypeOK
  <1>8. NoLostWakeup'
    BY SMTT(60), <1>3, <1>7, AdmissionAssumption
       DEF AdmissionAssumption, IInv, TypeOK, NoLostWakeup, TokensConserved
  <1>9. HoldsAreResults'
    BY DEF IInv, TypeOK, HoldsAreResults
  <1> QED
    BY <1>5, <1>6, <1>8, <1>9 DEF IInv, TokensConserved

\* A blocked sender woken by its timer or its context leaves the list and
\* keeps its queue token.
LEMMA WakeMove ==
    ASSUME IInv, TypeOK', NEW r \in Requests, NEW label \in {"timer", "leaving"},
           pc' = [pc EXCEPT ![r] = label],
           NEW k \in 1..Len(sendq), sendq[k] = r, sendq' = RemoveAt(sendq, k),
           UNCHANGED <<conc, queue, hold>>
    PROVE  IInv'
  <1>1. /\ sendq \in Seq(Requests) /\ Injective(sendq)
        /\ ToSet(sendq) = Waiting
    BY DEF IInv, TypeOK, NoLostWakeup, Injective
  <1>2. /\ r \in Waiting
        /\ ToSet(sendq') = Waiting \ {r}
        /\ Injective(sendq')
    BY <1>1, RemoveSender
  <1>3. Waiting' = Waiting \ {r}
    BY DEF IInv, TypeOK, Waiting
  <1>4. Holders' = Holders /\ Queued' = Queued
    BY <1>2 DEF IInv, TypeOK, Holders, Queued, Waiting
  <1>5. sendq # <<>>
    OBVIOUS
  <1>6. TokensConserved'
    BY <1>4 DEF IInv, TokensConserved
  <1>7. NoLostWakeup'
    BY <1>2, <1>3, <1>5 DEF IInv, NoLostWakeup, Injective
  <1>8. HoldsAreResults'
    BY <1>2 DEF IInv, TypeOK, HoldsAreResults, Waiting
  <1> QED
    BY <1>6, <1>7, <1>8 DEF IInv

\* A release by a request that has a slot: the slot is freed, or it is
\* handed to the oldest blocked sender, which keeps the channel full.
LEMMA ReleaseMove ==
    ASSUME IInv, TypeOK', NEW r \in Requests, NEW label \in {"idle", "result"},
           r \in Holders, pc[r] \in {"forward", "result"},
           ReleaseTo(r, label), hold' = hold \ {r}, queue' = queue
    PROVE  IInv'
  <1>1. /\ sendq \in Seq(Requests) /\ Injective(sendq)
        /\ ToSet(sendq) = Waiting
        /\ conc = Cardinality(Holders) /\ conc <= MaxConcurrency
        /\ queue = Cardinality(Queued) /\ queue <= QueueSize
        /\ conc \in Nat /\ MaxConcurrency \in Nat
    BY AdmissionAssumption
       DEF AdmissionAssumption, IInv, TypeOK, NoLostWakeup, TokensConserved, Injective
  <1>2. Holders \in SUBSET Requests
    BY DEF Holders
  <1>3. Cardinality(Holders \ {r}) = conc - 1
    BY <1>1, <1>2, Counting
  <1>4. CASE sendq = <<>>
    <2>1. pc' = [pc EXCEPT ![r] = label] /\ conc' = conc - 1 /\ sendq' = sendq
      BY <1>4 DEF ReleaseTo, Goto
    <2>2. Holders' = Holders \ {r}
      BY <2>1 DEF IInv, TypeOK, HoldsAreResults, Holders
    <2>3. Queued' = Queued /\ Waiting' = Waiting
      BY <2>1 DEF IInv, TypeOK, Queued, Waiting
    <2>4. TokensConserved'
      BY <1>1, <1>3, <2>1, <2>2, <2>3 DEF TokensConserved
    <2>5. NoLostWakeup'
      BY <1>4, <2>1, <2>3 DEF IInv, NoLostWakeup
    <2>6. HoldsAreResults'
      BY <2>1 DEF IInv, TypeOK, HoldsAreResults
    <2> QED
      BY <2>4, <2>5, <2>6 DEF IInv
  <1>5. CASE sendq # <<>>
    <2> DEFINE h == Head(sendq)
    <2>1. /\ pc' = [pc EXCEPT ![r] = label, ![h] = "granted"]
          /\ conc' = conc /\ sendq' = Tail(sendq)
      BY <1>5 DEF ReleaseTo, Goto
    <2>2. /\ h \in Waiting /\ ToSet(sendq') = Waiting \ {h} /\ Injective(sendq')
      BY <1>1, <1>5, <2>1, TailSender
    <2> HIDE DEF h
    <2>3. h \in Requests /\ pc[h] = "waiting" /\ h # r /\ h \notin Holders \ {r}
      BY <2>2 DEF Waiting, Holders
    <2>4. Holders' = (Holders \ {r}) \cup {h}
      BY <2>1, <2>3 DEF IInv, TypeOK, HoldsAreResults, Holders
    <2>5. Queued' = Queued /\ Waiting' = Waiting \ {h}
      BY <2>1, <2>3 DEF IInv, TypeOK, Queued, Waiting
    <2>6. Cardinality(Holders') = conc
      <3>1. Holders \ {r} \in SUBSET Requests
        BY <1>2
      <3>2. Cardinality((Holders \ {r}) \cup {h}) = (conc - 1) + 1
        BY SMTT(60), <1>3, <2>3, <3>1, Counting
      <3> QED
        BY <1>1, <2>4, <3>2
    <2>7. TokensConserved'
      BY <1>1, <2>1, <2>5, <2>6 DEF TokensConserved
    <2>8. NoLostWakeup'
      BY <1>5, <2>1, <2>2, <2>5 DEF IInv, NoLostWakeup, Injective
    <2>9. HoldsAreResults'
      BY <2>1, <2>3 DEF IInv, TypeOK, HoldsAreResults
    <2> QED
      BY <2>7, <2>8, <2>9 DEF IInv
  <1> QED
    BY <1>4, <1>5

-----------------------------------------------------------------------------
(* The type invariant is preserved by every action.                        *)

\* A released slot is freed or handed to the oldest sender.
LEMMA ReleaseTypes ==
    ASSUME TypeOK, NEW r \in Requests, NEW label \in PCs, ReleaseTo(r, label)
    PROVE  pc' \in [Requests -> PCs] /\ conc' \in Nat /\ sendq' \in Seq(Requests)
  <1> USE DEF TypeOK
  <1>1. CASE sendq = <<>>
    BY <1>1 DEF ReleaseTo, Goto
  <1>2. CASE sendq # <<>>
    <2>1. sendq' = Tail(sendq) /\ conc' = conc
      BY <1>2 DEF ReleaseTo
    <2>2. pc' = [pc EXCEPT ![r] = label, ![Head(sendq)] = "granted"]
      BY <1>2 DEF ReleaseTo
    <2>3. "granted" \in PCs
      BY DEF PCs
    <2>4. pc' \in [Requests -> PCs]
      BY <2>2, <2>3
    <2> QED
      BY <1>2, <2>1, <2>4
  <1> QED
    BY <1>1, <1>2

\* No action leaves the types: the channels never count below zero.
LEMMA TypeStep == IInv /\ [Next]_vars => TypeOK'
  <1> SUFFICES ASSUME IInv, [Next]_vars PROVE TypeOK'
    OBVIOUS
  <1> USE DEF IInv, TypeOK, PCs, Outcomes, Goto, Fail
  <1>1. ASSUME NEW r \in Requests, CheckDrain(r) PROVE TypeOK'
    BY <1>1 DEF CheckDrain
  <1>2. ASSUME NEW r \in Requests, TryConc(r) PROVE TypeOK'
    BY <1>2 DEF TryConc
  <1>3. ASSUME NEW r \in Requests, TryQueue(r) PROVE TypeOK'
    BY <1>3 DEF TryQueue
  <1>4. ASSUME NEW r \in Requests, RecheckFull(r) PROVE TypeOK'
    BY <1>4 DEF RecheckFull
  <1>5. ASSUME NEW r \in Requests, Park(r) PROVE TypeOK'
    <2>1. pc' \in [Requests -> PCs] /\ out' \in [Requests -> Outcomes]
      <3>1. \A l \in PCs : [pc EXCEPT ![r] = l] \in [Requests -> PCs]
        OBVIOUS
      <3>2. \A e \in Outcomes : [out EXCEPT ![r] = e] \in [Requests -> Outcomes]
        OBVIOUS
      <3> QED
        BY <1>5, <3>1, <3>2 DEF Park
    <2>2. conc' \in Nat
      BY <1>5 DEF Park
    <2>3. sendq' \in Seq(Requests) /\ UNCHANGED <<queue, drain, canceled, hold>>
      BY SMTT(60), <1>5 DEF Park
    <2> QED
      BY <2>1, <2>2, <2>3
  <1>6. ASSUME NEW r \in Requests, RecheckTimer(r) PROVE TypeOK'
    BY <1>6 DEF RecheckTimer
  <1>7. ASSUME NEW r \in Requests, LeaveQueue(r) PROVE TypeOK'
    BY <1>7 DEF LeaveQueue
  <1>8. ASSUME NEW r \in Requests, TimerFires(r) PROVE TypeOK'
    <2>1. sendq' \in Seq(Requests)
      BY <1>8, RemoveSender DEF TimerFires, NoLostWakeup, Injective
    <2> QED
      BY <1>8, <2>1 DEF TimerFires
  <1>9. ASSUME NEW r \in Requests, Cancel(r) PROVE TypeOK'
    <2>1. sendq' \in Seq(Requests)
      BY <1>9, RemoveSender DEF Cancel, NoLostWakeup, Injective
    <2>2. pc' \in [Requests -> PCs] /\ out' \in [Requests -> Outcomes]
      BY <1>9 DEF Cancel
    <2>3. /\ UNCHANGED <<conc, queue, drain, hold>>
          /\ canceled' = canceled \cup {r}
      BY <1>9 DEF Cancel
    <2> QED
      BY <2>1, <2>2, <2>3
  <1>10. ASSUME Drain PROVE TypeOK'
    <2>1. pc' \in [Requests -> PCs] /\ out' \in [Requests -> Outcomes]
      BY <1>10 DEF Drain
    <2>2. drain' \in BOOLEAN
      BY <1>10 DEF Drain
    <2>3. sendq' \in Seq(Requests) /\ UNCHANGED <<conc, queue, canceled, hold>>
      BY <1>10 DEF Drain
    <2> QED
      BY <2>1, <2>2, <2>3
  <1>11. ASSUME NEW r \in Requests, ForwardFails(r) PROVE TypeOK'
    <2>1. pc' \in [Requests -> PCs] /\ conc' \in Nat /\ sendq' \in Seq(Requests)
      BY <1>11, ReleaseTypes DEF ForwardFails
    <2>2. out' \in [Requests -> Outcomes] /\ UNCHANGED <<queue, drain, canceled, hold>>
      BY <1>11 DEF ForwardFails
    <2> QED
      BY <2>1, <2>2
  <1>12. ASSUME NEW r \in Requests, ForwardBuffers(r) PROVE TypeOK'
    BY SMTT(60), <1>12 DEF ForwardBuffers, ReleaseTo
  <1>13. ASSUME NEW r \in Requests, ForwardStreams(r) PROVE TypeOK'
    BY <1>13 DEF ForwardStreams
  <1>14. ASSUME NEW r \in Requests, Close(r) PROVE TypeOK'
    BY <1>14 DEF Close, ReleaseTo
  <1>15. CASE UNCHANGED vars
    BY <1>15 DEF vars
  <1> QED
    BY <1>1, <1>2, <1>3, <1>4, <1>5, <1>6, <1>7, <1>8, <1>9, <1>10, <1>11,
       <1>12, <1>13, <1>14, <1>15 DEF Next, AcquireStep, ServeStep

-----------------------------------------------------------------------------
(* The inductive step, one action at a time.                               *)

\* The selects of acquire, one after the other.
LEMMA AcquireInductive ==
    ASSUME IInv, TypeOK', NEW r \in Requests, AcquireStep(r)
    PROVE  IInv'
  <1> USE DEF Goto, Fail
  <1>0. /\ pc \in [Requests -> PCs] /\ conc \in Nat /\ queue \in Nat
        /\ conc <= MaxConcurrency /\ queue <= QueueSize
        /\ MaxConcurrency \in Nat /\ QueueSize \in Nat
    BY AdmissionAssumption DEF AdmissionAssumption, IInv, TypeOK, TokensConserved
  <1>1. CASE TryConc(r)
    BY <1>0, <1>1, PlainMove DEF TryConc, PCs, Holders, Queued
  <1>2. CASE TryQueue(r)
    BY <1>0, <1>2, PlainMove DEF TryQueue, PCs, Holders, Queued
  <1>3. CASE RecheckFull(r)
    <2>1. /\ pc[r] = "full" /\ pc' = [pc EXCEPT ![r] = "idle"]
          /\ UNCHANGED <<conc, queue, sendq, hold>>
      BY <1>3 DEF RecheckFull
    <2>2. r \notin Holders /\ r \notin Holders' /\ r \notin Queued /\ r \notin Queued'
      BY <1>0, <2>1 DEF Holders, Queued
    <2> QED
      BY <1>0, <2>1, <2>2, QuietMove
  <1>4. CASE Park(r)
    <2>1. CASE pc'[r] # "waiting"
      BY <1>0, <1>4, <2>1, PlainMove DEF Park, PCs, Holders, Queued
    <2>2. CASE pc'[r] = "waiting"
      <3>1. /\ pc[r] = "park" /\ pc' = [pc EXCEPT ![r] = "waiting"]
            /\ sendq' = Append(sendq, r) /\ conc >= MaxConcurrency
            /\ UNCHANGED <<conc, queue, hold>>
        BY <1>0, <1>4, <2>2 DEF Park
      <3>2. /\ sendq \in Seq(Requests) /\ Injective(sendq)
            /\ ToSet(sendq) = Waiting /\ r \notin Waiting
        BY <3>1 DEF IInv, TypeOK, NoLostWakeup, Injective, Waiting
      <3>3. ToSet(sendq') = Waiting \cup {r} /\ Injective(sendq')
        BY <3>1, <3>2, AppendSender
      <3>4. /\ Waiting' = Waiting \cup {r}
            /\ Holders' = Holders /\ Queued' = Queued
        BY <1>0, <3>1 DEF Waiting, Holders, Queued
      <3>5. TokensConserved'
        BY <3>1, <3>4 DEF IInv, TokensConserved
      <3>6. NoLostWakeup'
        BY <1>0, <3>1, <3>3, <3>4 DEF NoLostWakeup, Injective
      <3>7. HoldsAreResults'
        BY <1>0, <3>1 DEF IInv, HoldsAreResults
      <3> QED
        BY <3>5, <3>6, <3>7 DEF IInv
    <2> QED
      BY <2>1, <2>2
  <1>5. CASE RecheckTimer(r)
    <2>1. /\ pc[r] = "timer" /\ pc' = [pc EXCEPT ![r] = "leaving"]
          /\ UNCHANGED <<conc, queue, sendq, hold>>
      BY <1>5 DEF RecheckTimer
    <2>2. r \notin Holders /\ r \notin Holders' /\ r \in Queued /\ r \in Queued'
      BY <1>0, <2>1 DEF Holders, Queued
    <2> QED
      BY <1>0, <2>1, <2>2, QuietMove
  <1>6. CASE LeaveQueue(r)
    BY <1>0, <1>6, PlainMove DEF LeaveQueue, PCs, Holders, Queued
  <1> QED
    BY <1>1, <1>2, <1>3, <1>4, <1>5, <1>6 DEF AcquireStep

\* The ways out of Forward, and Close.
LEMMA ServeInductive ==
    ASSUME IInv, TypeOK', NEW r \in Requests, ServeStep(r)
    PROVE  IInv'
  <1>0. /\ pc \in [Requests -> PCs] /\ hold \in SUBSET Requests
        /\ \A q \in hold : pc[q] = "result"
    BY DEF IInv, TypeOK, HoldsAreResults
  <1>1. CASE ForwardFails(r)
    <2>1. r \in Holders /\ hold' = hold \ {r}
      BY <1>0, <1>1 DEF ForwardFails, Holders
    <2> QED
      BY <1>1, <2>1, ReleaseMove DEF ForwardFails
  <1>2. CASE ForwardBuffers(r)
    <2>1. r \in Holders /\ hold' = hold \ {r}
      BY <1>0, <1>2 DEF ForwardBuffers, Holders
    <2> QED
      BY <1>2, <2>1, ReleaseMove DEF ForwardBuffers
  <1>3. CASE ForwardStreams(r)
    <2>1. /\ Holders' = Holders /\ Queued' = Queued /\ Waiting' = Waiting
          /\ UNCHANGED <<conc, queue, sendq>>
      BY <1>0, <1>3 DEF ForwardStreams, Goto, Holders, Queued, Waiting
    <2>2. HoldsAreResults'
      BY <1>0, <1>3 DEF ForwardStreams, Goto, HoldsAreResults
    <2>3. TokensConserved'
      BY <2>1 DEF IInv, TokensConserved
    <2>4. NoLostWakeup'
      BY <2>1 DEF IInv, NoLostWakeup
    <2> QED
      BY <2>2, <2>3, <2>4 DEF IInv
  <1>4. CASE Close(r)
    <2>1. CASE r \in hold
      BY <1>0, <1>4, <2>1, ReleaseMove DEF Close, Holders
    <2>2. CASE r \notin hold
      <3>1. /\ pc[r] = "result" /\ pc' = [pc EXCEPT ![r] = "idle"]
            /\ UNCHANGED <<conc, queue, sendq, hold>>
        BY <1>4, <2>2 DEF Close, Goto
      <3>2. Holders' = Holders /\ Queued' = Queued /\ Waiting' = Waiting
        BY <1>0, <2>2, <3>1 DEF Holders, Queued, Waiting
      <3>3. HoldsAreResults'
        BY <1>0, <2>2, <3>1 DEF HoldsAreResults
      <3>4. TokensConserved'
        BY <3>1, <3>2 DEF IInv, TokensConserved
      <3>5. NoLostWakeup'
        BY <3>1, <3>2 DEF IInv, NoLostWakeup
      <3> QED
        BY <3>3, <3>4, <3>5 DEF IInv
    <2> QED
      BY <2>1, <2>2
  <1> QED
    BY <1>1, <1>2, <1>3, <1>4 DEF ServeStep

\* Every step of Admission, an idle one included, keeps the invariant.
LEMMA StepInductive == IInv /\ [Next]_vars => IInv'
  <1> SUFFICES ASSUME IInv, [Next]_vars PROVE IInv'
    OBVIOUS
  <1>0. /\ TypeOK' /\ pc \in [Requests -> PCs] /\ conc \in Nat /\ queue \in Nat
        /\ conc <= MaxConcurrency /\ queue <= QueueSize
    BY TypeStep DEF IInv, TypeOK, TokensConserved
  <1>1. ASSUME NEW r \in Requests, CheckDrain(r) PROVE IInv'
    <2>1. /\ pc[r] = "idle"
          /\ \E label \in {"idle", "conc"} : pc' = [pc EXCEPT ![r] = label]
          /\ UNCHANGED <<conc, queue, sendq, hold>>
      BY <1>1 DEF CheckDrain, Goto, Fail
    <2>2. r \notin Holders /\ r \notin Holders' /\ r \notin Queued /\ r \notin Queued'
      BY <1>0, <2>1 DEF Holders, Queued
    <2> QED
      BY <1>0, <2>1, <2>2, QuietMove
  <1>2. ASSUME NEW r \in Requests, AcquireStep(r) PROVE IInv'
    BY <1>0, <1>2, AcquireInductive
  <1>3. ASSUME NEW r \in Requests, ServeStep(r) PROVE IInv'
    BY <1>0, <1>3, ServeInductive
  <1>4. ASSUME NEW r \in Requests, TimerFires(r) PROVE IInv'
    <2>1. CASE pc[r] = "park" /\ sendq' = sendq
      <3>1. /\ pc[r] = "park" /\ pc' = [pc EXCEPT ![r] = "timer"]
            /\ UNCHANGED <<conc, queue, sendq, hold>>
        BY <1>4, <2>1 DEF TimerFires, Goto
      <3>2. r \notin Holders /\ r \notin Holders' /\ r \in Queued /\ r \in Queued'
        BY <1>0, <3>1 DEF Holders, Queued
      <3> QED
        BY <1>0, <3>1, <3>2, QuietMove
    <2>2. CASE \E k \in 1..Len(sendq) : sendq[k] = r /\ sendq' = RemoveAt(sendq, k)
      BY <1>0, <1>4, <2>2, WakeMove DEF TimerFires, Goto
    <2> QED
      BY <1>4, <2>1, <2>2 DEF TimerFires
  <1>5. ASSUME NEW r \in Requests, Cancel(r) PROVE IInv'
    <2>1. CASE UNCHANGED <<pc, sendq, out>>
      <3>1. Holders' = Holders /\ Queued' = Queued /\ Waiting' = Waiting
        BY <1>5, <2>1 DEF Cancel, Holders, Queued, Waiting
      <3> QED
        BY <1>0, <1>5, <2>1, <3>1
           DEF Cancel, IInv, TokensConserved, NoLostWakeup, HoldsAreResults
    <2>2. CASE \E k \in 1..Len(sendq) :
                  /\ sendq[k] = r
                  /\ sendq' = RemoveAt(sendq, k)
                  /\ Fail(r, "leaving", "canceled")
      BY <1>0, <1>5, <2>2, WakeMove DEF Cancel, Goto, Fail
    <2> QED
      BY <1>5, <2>1, <2>2 DEF Cancel
  <1>6. ASSUME Drain PROVE IInv'
    <2>1. /\ pc \in [Requests -> PCs] /\ UNCHANGED <<conc, queue, hold>>
          /\ sendq' = <<>>
          /\ pc' = [r \in Requests |-> IF pc[r] = "waiting" THEN "leaving" ELSE pc[r]]
      BY <1>6 DEF Drain, IInv, TypeOK
    <2>2. Holders' = Holders /\ Queued' = Queued /\ Waiting' = {}
      BY <2>1 DEF Holders, Queued, Waiting
    <2>3. TokensConserved'
      BY <2>1, <2>2 DEF IInv, TokensConserved
    <2>4. NoLostWakeup'
      BY <2>1, <2>2 DEF NoLostWakeup, ToSet
    <2>5. HoldsAreResults'
      BY <2>1 DEF IInv, TypeOK, HoldsAreResults
    <2> QED
      BY <1>0, <2>3, <2>4, <2>5 DEF IInv
  <1>7. CASE UNCHANGED vars
    <2>1. Holders' = Holders /\ Queued' = Queued /\ Waiting' = Waiting
      BY <1>7 DEF vars, Holders, Queued, Waiting
    <2> QED
      BY <1>0, <1>7, <2>1
         DEF vars, IInv, TokensConserved, NoLostWakeup, HoldsAreResults
  <1> QED
    BY <1>1, <1>2, <1>3, <1>4, <1>5, <1>6, <1>7 DEF Next

-----------------------------------------------------------------------------
(* The theorems.                                                           *)

\* The inductive invariant holds in every state of every behaviour.
THEOREM InductiveInvariant == Spec => []IInv
  BY InitInductive, StepInductive, PTL DEF Spec

\* Type correctness of the admission pool.
THEOREM TypeCorrect == Spec => []TypeOK
  <1>1. IInv => TypeOK
    BY DEF IInv
  <1> QED
    BY <1>1, InductiveInvariant, PTL

\* Whatever the number of callers, no path of acquire, Forward or Close leaks
\* a token or returns one twice, so max_concurrency and queue_size hold.
THEOREM TokensAreConserved == Spec => []TokensConserved
  <1>1. IInv => TokensConserved
    BY DEF IInv
  <1> QED
    BY <1>1, InductiveInvariant, PTL

\* Whatever the number of callers, nobody is blocked while a slot is free.
THEOREM NoWakeupIsLost == Spec => []NoLostWakeup
  <1>1. IInv => NoLostWakeup
    BY DEF IInv
  <1> QED
    BY <1>1, InductiveInvariant, PTL

-----------------------------------------------------------------------------
(* Draining, and refinement of the abstract pool.                          *)

\* Drain empties the list of senders, and the drain case of the last select
\* keeps it empty.
LEMMA DrainStep == IInv /\ DrainFreesWaiters /\ [Next]_vars => DrainFreesWaiters'
  <1> SUFFICES ASSUME IInv, DrainFreesWaiters, [Next]_vars, drain'
               PROVE  Waiting' = {}
    BY DEF DrainFreesWaiters
  <1>0. pc \in [Requests -> PCs] /\ ToSet(sendq) = Waiting /\ sendq \in Seq(Requests)
    BY DEF IInv, TypeOK, NoLostWakeup
  <1>1. CASE Drain
    BY <1>0, <1>1 DEF Drain, Waiting
  <1>2. CASE ~Drain
    <2>1. drain /\ Waiting = {}
      BY ZenonT(60), <1>2 DEF DrainFreesWaiters, Next, vars, CheckDrain, AcquireStep, TryConc,
         TryQueue, RecheckFull, Park, RecheckTimer, LeaveQueue, ServeStep,
         ForwardFails, ForwardBuffers, ForwardStreams, Close, TimerFires, Cancel
    <2>2. sendq = <<>>
      <3>1. \A i \in 1..Len(sendq) : sendq[i] \in ToSet(sendq)
        BY <1>0 DEF ToSet
      <3> QED
        BY <1>0, <2>1, <3>1
    <2>3. ASSUME NEW r \in Requests, NEW q \in Requests,
                 \/ CheckDrain(r) \/ AcquireStep(r) \/ ServeStep(r)
                 \/ TimerFires(r) \/ Cancel(r)
          PROVE  pc'[q] # "waiting"
      <3> USE <1>0, <2>1, <2>2 DEF Goto, Fail, Waiting
      <3>1. CASE CheckDrain(r)
        BY <3>1 DEF CheckDrain
      <3>2. CASE AcquireStep(r)
        BY <3>2 DEF AcquireStep, TryConc, TryQueue, RecheckFull, Park,
                    RecheckTimer, LeaveQueue
      <3>3. CASE ServeStep(r)
        BY <3>3 DEF ServeStep, ForwardFails, ForwardBuffers, ForwardStreams,
                    Close, ReleaseTo
      <3>4. CASE TimerFires(r)
        BY <3>4 DEF TimerFires
      <3>5. CASE Cancel(r)
        BY <3>5 DEF Cancel
      <3> QED
        BY <2>3, <3>1, <3>2, <3>3, <3>4, <3>5
    <2>4. CASE UNCHANGED vars
      BY <2>1, <2>4 DEF vars, Waiting
    <2> QED
      BY <1>2, <2>3, <2>4 DEF Next, Waiting
  <1> QED
    BY <1>1, <1>2

\* Once Drain has run no goroutine is, or ever again becomes, blocked.
THEOREM DrainEmptiesQueue == Spec => []DrainFreesWaiters
  <1>1. Init => DrainFreesWaiters
    BY DEF Init, DrainFreesWaiters, Waiting
  <1> QED
    BY <1>1, InductiveInvariant, DrainStep, PTL DEF Spec

\* A step that takes a slot finds nobody blocked for it.
THEOREM FastPathDoesNotOvertake == Spec => NoBarging
  <1>1. ASSUME IInv, Next, NEW r \in Requests, pc[r] \in {"conc", "park"}, r \in Holders'
        PROVE  sendq = <<>>
    <2>0. /\ pc \in [Requests -> PCs] /\ conc \in Nat /\ sendq \in Seq(Requests)
          /\ hold \in SUBSET Requests /\ r \notin hold
          /\ \A i \in 1..Len(sendq) : sendq[i] # r
          /\ sendq # <<>> => conc = MaxConcurrency /\ Head(sendq) # r
          /\ MaxConcurrency \in Nat
      BY <1>1, AdmissionAssumption
         DEF AdmissionAssumption, IInv, TypeOK, NoLostWakeup, HoldsAreResults, ToSet, Waiting
    <2> USE <1>1, <2>0 DEF Goto, Fail, Holders
    <2>1. ASSUME NEW q \in Requests, CheckDrain(q) PROVE sendq = <<>>
      BY <2>1 DEF CheckDrain
    <2>2. ASSUME NEW q \in Requests, AcquireStep(q) PROVE sendq = <<>>
      BY <2>2 DEF AcquireStep, TryConc, TryQueue, RecheckFull, Park,
                  RecheckTimer, LeaveQueue
    <2>3. ASSUME NEW q \in Requests, ServeStep(q) PROVE sendq = <<>>
      BY <2>3 DEF ServeStep, ForwardFails, ForwardBuffers, ForwardStreams,
                  Close, ReleaseTo
    <2>4. ASSUME NEW q \in Requests, TimerFires(q) PROVE sendq = <<>>
      BY <2>4 DEF TimerFires
    <2>5. ASSUME NEW q \in Requests, Cancel(q) PROVE sendq = <<>>
      BY <2>5 DEF Cancel
    <2>6. CASE Drain
      BY <2>6 DEF Drain
    <2> QED
      BY <2>1, <2>2, <2>3, <2>4, <2>5, <2>6 DEF Next
  <1>2. ASSUME IInv, Next
        PROVE  \A r \in Requests :
                  pc[r] \in {"conc", "park"} /\ r \in Holders' => sendq = <<>>
    BY <1>1, <1>2
  <1> QED
    BY <1>2, InductiveInvariant, PTL DEF Spec, NoBarging

-----------------------------------------------------------------------------
(* How far a call has to go, and the order in which slots are handed over. *)

\* An upper bound on the steps until the caller has its answer and its Result
\* is closed.
StepsLeft(r) ==
    CASE pc[r] = "conc" -> 7
      [] pc[r] = "queue" -> 6
      [] pc[r] = "park" -> 5
      [] pc[r] = "waiting" -> 4
      [] pc[r] = "granted" -> 3
      [] pc[r] \in {"timer", "forward"} -> 2
      [] pc[r] \in {"full", "leaving", "result"} -> 1
      [] pc[r] = "idle" -> 0

\* The safety half of AcquireReturns and DrainQuiesces (backend.go:545-616):
\* no path of acquire, Forward or Close goes back; whatever other callers,
\* clients, timers and Drain do, a call only gets nearer its end; and once
\* Drain has run (backend.go:193-199) no call starts over, so the steps left
\* to all callers together can only fall.
CallsOnlyAdvance ==
    [][\A r \in Requests :
          /\ AcquireStep(r) \/ ServeStep(r) \/ TimerFires(r) => StepsLeft(r)' < StepsLeft(r)
          /\ StepsLeft(r)' > StepsLeft(r) => pc[r] = "idle" /\ ~drain]_vars

LEMMA StepsAreFew ==
    ASSUME TypeOK, NEW r \in Requests PROVE StepsLeft(r) \in 0..7
  BY DEF TypeOK, PCs, StepsLeft

\* One caller moves; whoever else moves is granted a slot it waits for.
Moves(r) ==
    /\ \/ pc[r] = "conc" /\ pc'[r] \in {"forward", "idle", "queue"}
       \/ pc[r] = "queue" /\ pc'[r] \in {"park", "idle", "full"}
       \/ pc[r] = "full" /\ pc'[r] = "idle"
       \/ pc[r] = "park" /\ pc'[r] \in {"granted", "leaving", "waiting", "timer"}
       \/ pc[r] = "waiting" /\ pc'[r] \in {"timer", "leaving"}
       \/ pc[r] = "timer" /\ pc'[r] = "leaving"
       \/ pc[r] = "granted" /\ pc'[r] = "forward"
       \/ pc[r] = "leaving" /\ pc'[r] = "idle"
       \/ pc[r] = "forward" /\ pc'[r] \in {"idle", "result"}
       \/ pc[r] = "result" /\ pc'[r] = "idle"
    /\ \A q \in Requests :
          q # r => pc'[q] = pc[q] \/ (pc[q] = "waiting" /\ pc'[q] = "granted")

LEMMA MoveAdvances ==
    ASSUME TypeOK, TypeOK', NEW r \in Requests, Moves(r)
    PROVE  /\ StepsLeft(r)' < StepsLeft(r)
           /\ \A q \in Requests : ~(StepsLeft(q)' > StepsLeft(q))
  <1>1. StepsLeft(r)' < StepsLeft(r)
    BY DEF Moves, StepsLeft
  <1>2. ASSUME NEW q \in Requests PROVE ~(StepsLeft(q)' > StepsLeft(q))
    <2>1. StepsLeft(q) \in 0..7 /\ StepsLeft(q)' \in 0..7
      BY DEF TypeOK, PCs, StepsLeft
    <2>2. CASE q = r
      BY <1>1, <2>1, <2>2
    <2>3. CASE q # r /\ pc'[q] = pc[q]
      <3>1. StepsLeft(q)' = StepsLeft(q)
        BY <2>3 DEF StepsLeft
      <3> QED
        BY <2>1, <3>1
    <2>4. CASE pc[q] = "waiting" /\ pc'[q] = "granted"
      BY <2>4 DEF StepsLeft
    <2> QED
      BY <2>2, <2>3, <2>4 DEF Moves
  <1> QED
    BY <1>1, <1>2

LEMMA ReleaseMoves ==
    ASSUME IInv, NEW r \in Requests, NEW label,
           \/ pc[r] = "forward" /\ label \in {"idle", "result"}
           \/ pc[r] = "result" /\ label = "idle",
           ReleaseTo(r, label)
    PROVE  Moves(r)
  <1>1. /\ pc \in [Requests -> PCs] /\ sendq \in Seq(Requests)
        /\ ToSet(sendq) = Waiting /\ Injective(sendq)
    BY DEF IInv, TypeOK, NoLostWakeup, Injective
  <1>2. CASE sendq = <<>>
    BY <1>1, <1>2 DEF ReleaseTo, Goto, Moves
  <1>3. CASE sendq # <<>>
    <2>1. PICK h \in Waiting : h = Head(sendq)
      BY <1>1, <1>3, TailSender
    <2>2. h \in Requests /\ pc[h] = "waiting" /\ h # r
      BY DEF Waiting
    <2>3. pc' = [pc EXCEPT ![r] = label, ![h] = "granted"]
      BY <1>3, <2>1 DEF ReleaseTo, Goto
    <2>4. /\ pc'[r] = label
          /\ \A q \in Requests : q # r => pc'[q] = pc[q] \/ (q = h /\ pc'[q] = "granted")
      BY <1>1, <2>2, <2>3
    <2> QED
      BY <2>2, <2>4 DEF Moves
  <1> QED
    BY <1>2, <1>3

\* Every step of a caller moves it.
LEMMA CallerMoves ==
    ASSUME IInv, NEW r \in Requests,
           \/ AcquireStep(r) \/ ServeStep(r) \/ TimerFires(r)
           \/ Cancel(r) /\ pc[r] = "waiting"
    PROVE  Moves(r)
  <1>0. /\ pc \in [Requests -> PCs] /\ sendq \in Seq(Requests)
        /\ \A i \in 1..Len(sendq) : pc[sendq[i]] = "waiting"
        /\ \A q \in hold : pc[q] = "result"
    BY DEF IInv, TypeOK, NoLostWakeup, HoldsAreResults, ToSet, Waiting
  <1> USE <1>0 DEF Goto, Fail
  <1>1. CASE TryConc(r) \/ TryQueue(r) \/ RecheckFull(r)
    BY <1>1 DEF TryConc, TryQueue, RecheckFull, Moves
  <1>2. CASE Park(r)
    BY <1>2 DEF Park, Moves
  <1>3. CASE RecheckTimer(r) \/ LeaveQueue(r)
    BY <1>3 DEF RecheckTimer, LeaveQueue, Moves
  <1>4. CASE ForwardFails(r) \/ ForwardBuffers(r)
    BY <1>4, ReleaseMoves DEF ForwardFails, ForwardBuffers
  <1>5. CASE ForwardStreams(r)
    BY <1>5 DEF ForwardStreams, Moves
  <1>6. CASE Close(r)
    <2>1. CASE r \in hold
      BY <1>6, <2>1, ReleaseMoves DEF Close
    <2>2. CASE r \notin hold
      BY <1>6, <2>2 DEF Close, Moves
    <2> QED
      BY <2>1, <2>2
  <1>7. CASE TimerFires(r)
    BY <1>7 DEF TimerFires, Moves
  <1>8. CASE Cancel(r) /\ pc[r] = "waiting"
    BY <1>8 DEF Cancel, Moves
  <1> QED
    BY <1>1, <1>2, <1>3, <1>4, <1>5, <1>6, <1>7, <1>8 DEF AcquireStep, ServeStep

LEMMA StillCounts ==
    ASSUME TypeOK, NEW r \in Requests, pc'[r] = pc[r]
    PROVE  ~(StepsLeft(r)' > StepsLeft(r))
  <1>1. StepsLeft(r)' = StepsLeft(r) /\ StepsLeft(r) \in 0..7
    BY StepsAreFew DEF StepsLeft
  <1> QED
    BY <1>1

\* For any number of callers, slots and queue places every call of acquire,
\* Forward and Close only gets nearer its end.
THEOREM CallsAdvance == Spec => CallsOnlyAdvance
  <1>1. ASSUME IInv, IInv', [Next]_vars, NEW r \in Requests
        PROVE  /\ AcquireStep(r) \/ ServeStep(r) \/ TimerFires(r) => StepsLeft(r)' < StepsLeft(r)
               /\ StepsLeft(r)' > StepsLeft(r) => pc[r] = "idle" /\ ~drain
    <2>0. TypeOK /\ TypeOK' /\ pc \in [Requests -> PCs]
      BY <1>1 DEF IInv, TypeOK
    <2>1. AcquireStep(r) \/ ServeStep(r) \/ TimerFires(r) => StepsLeft(r)' < StepsLeft(r)
      BY <1>1, <2>0, CallerMoves, MoveAdvances
    <2>2. ASSUME StepsLeft(r)' > StepsLeft(r) PROVE pc[r] = "idle" /\ ~drain
      <3>0. pc'[r] # pc[r]
        BY <2>0, <2>2, StillCounts
      <3>1. ASSUME NEW q \in Requests, CheckDrain(q) PROVE pc[r] = "idle" /\ ~drain
        BY <2>0, <3>0, <3>1 DEF CheckDrain, Fail, Goto
      <3>2. ASSUME NEW q \in Requests,
                   AcquireStep(q) \/ ServeStep(q) \/ TimerFires(q) \/ (Cancel(q) /\ pc[q] = "waiting")
            PROVE  FALSE
        <4>1. Moves(q)
          BY <1>1, <3>2, CallerMoves
        <4> QED
          BY <2>0, <2>2, <4>1, MoveAdvances
      <3>3. ASSUME NEW q \in Requests, Cancel(q), pc[q] # "waiting" PROVE FALSE
        <4>1. \A i \in 1..Len(sendq) : pc[sendq[i]] = "waiting"
          BY <1>1 DEF IInv, TypeOK, NoLostWakeup, ToSet, Waiting
        <4> QED
          BY <3>0, <3>3, <4>1 DEF Cancel
      <3>4. CASE Drain
        <4>1. pc[r] = "waiting" /\ pc'[r] = "leaving"
          BY <3>0, <3>4 DEF Drain
        <4> QED
          BY <2>2, <4>1 DEF StepsLeft
      <3>5. CASE UNCHANGED vars
        BY <3>0, <3>5 DEF vars
      <3> QED
        BY <1>1, <3>1, <3>2, <3>3, <3>4, <3>5 DEF Next
    <2> QED
      BY <2>1, <2>2
  <1>2. IInv /\ IInv' /\ [Next]_vars =>
           \A r \in Requests :
              /\ AcquireStep(r) \/ ServeStep(r) \/ TimerFires(r) => StepsLeft(r)' < StepsLeft(r)
              /\ StepsLeft(r)' > StepsLeft(r) => pc[r] = "idle" /\ ~drain
    BY <1>1
  <1> QED
    BY <1>2, InductiveInvariant, PTL DEF Spec, CallsOnlyAdvance

-----------------------------------------------------------------------------
(* The order of the line.                                                  *)

\* A slot comes back: some holder holds it no longer.
SlotReturns == \E r \in Requests : r \in Holders /\ r \notin Holders'

\* Slots are handed over in arrival order (the receive of hold.release wakes
\* the sender that has waited longest, backend.go:546 and 598): nobody in the
\* line falls back or is overtaken, whoever joins, gives up or is canceled; a
\* slot goes to the first; and every slot that comes back while somebody waits
\* moves the whole line up.
LineMovesUp ==
    [][/\ \A i \in DOMAIN sendq, k \in DOMAIN sendq' :
             sendq[i] = sendq'[k] => k <= i /\ (SlotReturns => k < i)
       /\ \A i, j \in DOMAIN sendq, k, l \in DOMAIN sendq' :
             sendq[i] = sendq'[k] /\ sendq[j] = sendq'[l] /\ i < j => k < l
       /\ \A i \in DOMAIN sendq : pc'[sendq[i]] = "granted" => i = 1
       /\ SlotReturns /\ sendq # <<>> => pc'[sendq[1]] = "granted"]_vars

\* The line t follows s: the places of those who are in both.
Follows(s, t, n) ==
    /\ \A i \in DOMAIN s, k \in DOMAIN t : s[i] = t[k] => k + n <= i
    /\ \A i, j \in DOMAIN s, k, l \in DOMAIN t : s[i] = t[k] /\ s[j] = t[l] /\ i < j => k < l

LEMMA SameFollows ==
    ASSUME NEW S, NEW s \in Seq(S), Injective(s) PROVE Follows(s, s, 0)
  BY DEF Injective, Follows

LEMMA EmptyFollows == ASSUME NEW S, NEW s \in Seq(S) PROVE Follows(s, <<>>, 1)
  BY DEF Follows

LEMMA AppendFollows ==
    ASSUME NEW S, NEW s \in Seq(S), NEW e \in S, Injective(s), e \notin ToSet(s)
    PROVE  Follows(s, Append(s, e), 0)
  <1>1. PICK t : t = Append(s, e)
    OBVIOUS
  <1>2. /\ DOMAIN t = 1..(Len(s) + 1) /\ DOMAIN s = 1..Len(s) /\ Len(s) \in Nat
        /\ \A i \in 1..Len(s) : t[i] = s[i] /\ s[i] # e
        /\ t[Len(s) + 1] = e
    BY <1>1 DEF ToSet
  <1>3. ASSUME NEW i \in DOMAIN s, NEW k \in DOMAIN t, s[i] = t[k] PROVE k = i
    <2>1. k # Len(s) + 1
      BY <1>2, <1>3
    <2>2. k \in 1..Len(s)
      BY <1>2, <2>1
    <2> QED
      BY <1>2, <1>3, <2>2 DEF Injective
  <1>4. Follows(s, t, 0)
    BY <1>2, <1>3 DEF Follows
  <1> QED
    BY <1>1, <1>4

LEMMA TailFollows ==
    ASSUME NEW S, NEW s \in Seq(S), s # <<>>, Injective(s) PROVE Follows(s, Tail(s), 1)
  <1>1. PICK t : t = Tail(s)
    OBVIOUS
  <1>2. /\ DOMAIN t = 1..(Len(s) - 1) /\ DOMAIN s = 1..Len(s) /\ Len(s) \in Nat \ {0}
        /\ \A k \in 1..(Len(s) - 1) : t[k] = s[k + 1]
    BY <1>1
  <1>3. ASSUME NEW i \in DOMAIN s, NEW k \in DOMAIN t, s[i] = t[k] PROVE i = k + 1
    <2>1. PICK j \in DOMAIN s : j = k + 1
      BY <1>2
    <2>2. s[i] = s[j]
      BY <1>2, <1>3, <2>1
    <2> QED
      BY <2>1, <2>2 DEF Injective
  <1>4. \A i \in DOMAIN s, k \in DOMAIN t : s[i] = t[k] => k + 1 <= i
    BY <1>2, <1>3
  <1>5. ASSUME NEW i \in DOMAIN s, NEW j \in DOMAIN s, NEW k \in DOMAIN t, NEW l \in DOMAIN t,
               s[i] = t[k], s[j] = t[l], i < j
        PROVE  k < l
    <2>1. i = k + 1 /\ j = l + 1
      BY <1>3, <1>5
    <2> QED
      BY <1>2, <1>5, <2>1
  <1> QED
    BY <1>1, <1>4, <1>5 DEF Follows

LEMMA RemoveFollows ==
    ASSUME NEW S, NEW s \in Seq(S), Injective(s), NEW m \in 1..Len(s)
    PROVE  Follows(s, RemoveAt(s, m), 0)
  <1>1. PICK t : t = RemoveAt(s, m)
    OBVIOUS
  <1>2. /\ DOMAIN t = 1..(Len(s) - 1) /\ DOMAIN s = 1..Len(s) /\ Len(s) \in Nat \ {0}
        /\ \A k \in 1..(Len(s) - 1) : t[k] = IF k < m THEN s[k] ELSE s[k + 1]
    BY <1>1, RemoveAtFacts
  <1>3. ASSUME NEW i \in DOMAIN s, NEW k \in DOMAIN t, s[i] = t[k]
        PROVE  i = IF k < m THEN k ELSE k + 1
    <2>1. PICK j \in DOMAIN s : j = IF k < m THEN k ELSE k + 1
      BY <1>2
    <2>2. s[i] = s[j]
      BY <1>2, <1>3, <2>1
    <2> QED
      BY <2>1, <2>2 DEF Injective
  <1>4. \A i \in DOMAIN s, k \in DOMAIN t : s[i] = t[k] => k + 0 <= i
    BY <1>2, <1>3
  <1>5. ASSUME NEW i \in DOMAIN s, NEW j \in DOMAIN s, NEW k \in DOMAIN t, NEW l \in DOMAIN t,
               s[i] = t[k], s[j] = t[l], i < j
        PROVE  k < l
    <2>1. i = (IF k < m THEN k ELSE k + 1) /\ j = IF l < m THEN l ELSE l + 1
      BY <1>3, <1>5
    <2> QED
      BY <1>2, <1>5, <2>1
  <1> QED
    BY <1>1, <1>4, <1>5 DEF Follows

\* The two kinds of step: nobody is granted a slot from the line, or the first is.
NobodyServed ==
    /\ \/ sendq' = sendq
       \/ \E e \in Requests : e \notin ToSet(sendq) /\ sendq' = Append(sendq, e)
       \/ \E m \in 1..Len(sendq) : sendq' = RemoveAt(sendq, m)
       \/ sendq' = <<>>
    /\ \A q \in Waiting : pc'[q] # "granted"
    /\ SlotReturns => sendq = <<>>

FirstServed ==
    /\ sendq # <<>> /\ sendq' = Tail(sendq)
    /\ \A q \in Waiting : pc'[q] = "granted" <=> q = Head(sendq)

LEMMA ServedInOrder ==
    ASSUME IInv, NobodyServed \/ FirstServed
    PROVE  /\ \A i \in DOMAIN sendq, k \in DOMAIN sendq' :
                 sendq[i] = sendq'[k] => k <= i /\ (SlotReturns => k < i)
           /\ \A i, j \in DOMAIN sendq, k, l \in DOMAIN sendq' :
                 sendq[i] = sendq'[k] /\ sendq[j] = sendq'[l] /\ i < j => k < l
           /\ \A i \in DOMAIN sendq : pc'[sendq[i]] = "granted" => i = 1
           /\ SlotReturns /\ sendq # <<>> => pc'[sendq[1]] = "granted"
  <1>0. /\ sendq \in Seq(Requests) /\ DOMAIN sendq = 1..Len(sendq) /\ Len(sendq) \in Nat
        /\ Injective(sendq) /\ \A i \in DOMAIN sendq : sendq[i] \in Waiting
    BY DEF IInv, TypeOK, NoLostWakeup, Injective, ToSet
  <1>1. CASE NobodyServed
    <2>1. Follows(sendq, sendq', 0)
      <3>1. CASE sendq' = sendq
        BY <1>0, <3>1, SameFollows
      <3>2. CASE \E e \in Requests : e \notin ToSet(sendq) /\ sendq' = Append(sendq, e)
        BY <1>0, <3>2, AppendFollows
      <3>3. CASE \E m \in 1..Len(sendq) : sendq' = RemoveAt(sendq, m)
        BY <1>0, <3>3, RemoveFollows
      <3>4. CASE sendq' = <<>>
        BY <1>0, <3>4 DEF Follows
      <3> QED
        BY <1>1, <3>1, <3>2, <3>3, <3>4 DEF NobodyServed
    <2>2. DOMAIN sendq' \subseteq Nat
      <3>1. CASE sendq' = sendq \/ sendq' = <<>>
        BY <1>0, <3>1
      <3>2. CASE \E e \in Requests : e \notin ToSet(sendq) /\ sendq' = Append(sendq, e)
        BY <1>0, <3>2
      <3>3. CASE \E m \in 1..Len(sendq) : sendq' = RemoveAt(sendq, m)
        <4>1. PICK m \in 1..Len(sendq) : sendq' = RemoveAt(sendq, m)
          BY <3>3
        <4>2. DOMAIN sendq' = 1..(Len(sendq) - 1)
          BY <1>0, <4>1, RemoveAtFacts
        <4> QED
          BY <1>0, <4>2
      <3> QED
        BY <1>1, <3>1, <3>2, <3>3 DEF NobodyServed
    <2>3. SlotReturns => sendq = <<>>
      BY <1>1 DEF NobodyServed
    <2>4. \A i \in DOMAIN sendq : pc'[sendq[i]] # "granted"
      BY <1>0, <1>1 DEF NobodyServed
    <2>5. SlotReturns => DOMAIN sendq = {}
      BY <1>0, <2>3
    <2>6. \A i \in DOMAIN sendq, k \in DOMAIN sendq' : sendq[i] = sendq'[k] => k <= i
      BY <1>0, <2>1, <2>2 DEF Follows
    <2> QED
      BY <2>1, <2>3, <2>4, <2>5, <2>6, Zenon DEF Follows
  <1>2. CASE FirstServed
    <2>1. Follows(sendq, sendq', 1)
      BY <1>0, <1>2, TailFollows DEF FirstServed
    <2>2. DOMAIN sendq' = 1..(Len(sendq) - 1) /\ Head(sendq) = sendq[1] /\ 1 \in DOMAIN sendq
      BY <1>0, <1>2 DEF FirstServed
    <2>3. \A i \in DOMAIN sendq, k \in DOMAIN sendq' : sendq[i] = sendq'[k] => k <= i /\ k < i
      BY <1>0, <2>1, <2>2 DEF Follows
    <2>4. pc'[sendq[1]] = "granted"
      BY <1>0, <1>2, <2>2, Zenon DEF FirstServed
    <2>5. \A i \in DOMAIN sendq : pc'[sendq[i]] = "granted" => i = 1
      BY <1>0, <1>2, <2>2, Zenon DEF FirstServed, Injective
    <2> QED
      BY <2>1, <2>3, <2>4, <2>5, Zenon DEF Follows
  <1> QED
    BY <1>1, <1>2

\* A step that leaves the line alone and takes no slot back.
LEMMA QuietServesNobody ==
    ASSUME IInv, NEW r \in Requests, pc[r] # "waiting", UNCHANGED sendq,
           \A q \in Requests : q # r => pc'[q] = pc[q],
           (r \in Holders /\ r \notin Holders') => sendq = <<>>,
           \A q \in Requests : q # r => (q \in hold <=> q \in hold')
    PROVE  NobodyServed
  <1>1. SlotReturns => sendq = <<>>
    BY DEF SlotReturns, Holders
  <1>2. \A q \in Waiting : pc'[q] # "granted"
    BY DEF Waiting
  <1> QED
    BY <1>1, <1>2 DEF NobodyServed

LEMMA ReleaseServesFirst ==
    ASSUME IInv, NEW r \in Requests, NEW label, pc[r] \in {"forward", "result"},
           ReleaseTo(r, label), \A q \in Requests : q # r => (q \in hold <=> q \in hold')
    PROVE  NobodyServed \/ FirstServed
  <1>1. /\ pc \in [Requests -> PCs] /\ sendq \in Seq(Requests)
        /\ ToSet(sendq) = Waiting /\ Injective(sendq)
    BY DEF IInv, TypeOK, NoLostWakeup, Injective
  <1>2. CASE sendq = <<>>
    <2>1. UNCHANGED sendq /\ \A q \in Requests : q # r => pc'[q] = pc[q]
      BY <1>1, <1>2 DEF ReleaseTo, Goto
    <2> QED
      BY <1>2, <2>1, QuietServesNobody
  <1>3. CASE sendq # <<>>
    <2>1. PICK h \in Waiting : h = Head(sendq)
      BY <1>1, <1>3, TailSender
    <2>2. h \in Requests /\ pc[h] = "waiting" /\ h # r
      BY DEF Waiting
    <2>3. sendq' = Tail(sendq) /\ pc' = [pc EXCEPT ![r] = label, ![h] = "granted"]
      BY <1>3, <2>1 DEF ReleaseTo, Goto
    <2>4. pc'[h] = "granted" /\ \A q \in Requests : q # r /\ q # h => pc'[q] = pc[q]
      BY <1>1, <2>2, <2>3
    <2>5. \A q \in Waiting : pc'[q] = "granted" <=> q = h
      BY <2>4 DEF Waiting
    <2> QED
      BY <1>3, <2>1, <2>3, <2>5 DEF FirstServed
  <1> QED
    BY <1>2, <1>3

\* Whoever was taken out of the line is not granted a slot.
LEMMA WokenServesNobody ==
    ASSUME IInv, NEW r \in Requests, NEW m \in 1..Len(sendq), sendq' = RemoveAt(sendq, m),
           sendq[m] = r, NEW label \in {"timer", "leaving"}, pc' = [pc EXCEPT ![r] = label],
           UNCHANGED hold
    PROVE  NobodyServed
  <1>1. /\ pc \in [Requests -> PCs] /\ r \in Waiting
        /\ \A q \in hold : pc[q] = "result"
    BY DEF IInv, TypeOK, NoLostWakeup, HoldsAreResults, ToSet
  <1>2. \A q \in Waiting : pc'[q] # "granted"
    BY <1>1 DEF Waiting
  <1>3. ~SlotReturns
    BY <1>1 DEF SlotReturns, Holders, Waiting
  <1> QED
    BY <1>2, <1>3 DEF NobodyServed

LEMMA LineStep == ASSUME IInv, [Next]_vars PROVE NobodyServed \/ FirstServed
  <1>0. /\ pc \in [Requests -> PCs] /\ sendq \in Seq(Requests) /\ hold \in SUBSET Requests
        /\ \A i \in 1..Len(sendq) : pc[sendq[i]] = "waiting"
        /\ \A q \in hold : pc[q] = "result"
    BY DEF IInv, TypeOK, NoLostWakeup, HoldsAreResults, ToSet, Waiting
  <1> USE <1>0 DEF Goto, Fail
  <1>1. ASSUME NEW r \in Requests,
               \/ CheckDrain(r) \/ TryConc(r) \/ TryQueue(r) \/ RecheckFull(r)
               \/ RecheckTimer(r) \/ LeaveQueue(r) \/ ForwardStreams(r)
        PROVE  NobodyServed
    <2>1. /\ pc[r] # "waiting" /\ UNCHANGED sendq
          /\ \A q \in Requests : q # r => pc'[q] = pc[q]
          /\ \A q \in Requests : q # r => (q \in hold <=> q \in hold')
      BY <1>1 DEF CheckDrain, TryConc, TryQueue, RecheckFull, RecheckTimer, LeaveQueue,
                  ForwardStreams
    <2>2. r \in Holders => r \in Holders'
      BY <1>1 DEF CheckDrain, TryConc, TryQueue, RecheckFull, RecheckTimer, LeaveQueue,
                  ForwardStreams, Holders
    <2> QED
      BY <2>1, <2>2, QuietServesNobody
  <1>2. ASSUME NEW r \in Requests, Park(r) PROVE NobodyServed
    <2>1. /\ pc[r] = "park" /\ UNCHANGED hold /\ r \notin Holders /\ r \notin ToSet(sendq)
          /\ \A q \in Requests : q # r => pc'[q] = pc[q]
      BY <1>2 DEF Park, Holders, ToSet
    <2>2. sendq' = sendq \/ sendq' = Append(sendq, r)
      BY <1>2 DEF Park
    <2>3. ~SlotReturns
      BY <2>1 DEF SlotReturns, Holders
    <2>4. \A q \in Waiting : pc'[q] # "granted"
      BY <2>1 DEF Waiting
    <2> QED
      BY <2>1, <2>2, <2>3, <2>4 DEF NobodyServed
  <1>3. ASSUME NEW r \in Requests, ForwardFails(r) \/ ForwardBuffers(r)
        PROVE  NobodyServed \/ FirstServed
    BY <1>3, ReleaseServesFirst DEF ForwardFails, ForwardBuffers
  <1>4. ASSUME NEW r \in Requests, Close(r) PROVE NobodyServed \/ FirstServed
    <2>1. CASE r \in hold
      BY <1>4, <2>1, ReleaseServesFirst DEF Close
    <2>2. CASE r \notin hold
      <3>1. /\ pc[r] # "waiting" /\ UNCHANGED <<sendq, hold>> /\ r \notin Holders
            /\ \A q \in Requests : q # r => pc'[q] = pc[q]
        BY <1>4, <2>2 DEF Close, Holders
      <3> QED
        BY <3>1, QuietServesNobody
    <2> QED
      BY <2>1, <2>2
  <1>5. ASSUME NEW r \in Requests, TimerFires(r) PROVE NobodyServed
    <2>1. CASE pc[r] = "park" /\ UNCHANGED sendq
      <3>1. /\ UNCHANGED hold /\ r \notin Holders
            /\ \A q \in Requests : q # r => pc'[q] = pc[q]
        BY <1>5, <2>1 DEF TimerFires, Holders
      <3> QED
        BY <2>1, <3>1, QuietServesNobody
    <2>2. CASE \E i \in 1..Len(sendq) : sendq[i] = r /\ sendq' = RemoveAt(sendq, i)
      BY <1>5, <2>2, WokenServesNobody DEF TimerFires
    <2> QED
      BY <1>5, <2>1, <2>2 DEF TimerFires
  <1>6. ASSUME NEW r \in Requests, Cancel(r) PROVE NobodyServed
    <2>1. CASE pc[r] # "waiting" /\ UNCHANGED <<pc, sendq, out>>
      <3>1. UNCHANGED hold /\ (r \in Holders => r \in Holders')
        BY <1>6, <2>1 DEF Cancel, Holders
      <3> QED
        BY <2>1, <3>1, QuietServesNobody
    <2>2. CASE \E i \in 1..Len(sendq) : /\ sendq[i] = r /\ sendq' = RemoveAt(sendq, i)
                                        /\ pc' = [pc EXCEPT ![r] = "leaving"]
      BY <1>6, <2>2, WokenServesNobody DEF Cancel
    <2> QED
      BY <1>6, <2>1, <2>2 DEF Cancel
  <1>7. CASE Drain
    <2>1. sendq' = <<>> /\ UNCHANGED hold
          /\ \A q \in Requests : pc'[q] = IF pc[q] = "waiting" THEN "leaving" ELSE pc[q]
      BY <1>7 DEF Drain
    <2>2. ~SlotReturns
      BY <2>1 DEF SlotReturns, Holders
    <2> QED
      BY <2>1, <2>2 DEF NobodyServed, Waiting
  <1>8. CASE UNCHANGED vars
    <2>1. UNCHANGED <<pc, sendq, hold>>
      BY <1>8 DEF vars
    <2> QED
      BY <2>1 DEF NobodyServed, SlotReturns, Holders, Waiting
  <1> QED
    BY <1>1, <1>2, <1>3, <1>4, <1>5, <1>6, <1>7, <1>8 DEF Next, AcquireStep, ServeStep

\* For any number of callers, slots go to those who wait in the order in which
\* they began to wait, and nobody in the line ever falls back.
THEOREM GrantsInOrder == Spec => LineMovesUp
  <1>1. ASSUME IInv, [Next]_vars
        PROVE  /\ \A i \in DOMAIN sendq, k \in DOMAIN sendq' :
                     sendq[i] = sendq'[k] => k <= i /\ (SlotReturns => k < i)
               /\ \A i, j \in DOMAIN sendq, k, l \in DOMAIN sendq' :
                     sendq[i] = sendq'[k] /\ sendq[j] = sendq'[l] /\ i < j => k < l
               /\ \A i \in DOMAIN sendq : pc'[sendq[i]] = "granted" => i = 1
               /\ SlotReturns /\ sendq # <<>> => pc'[sendq[1]] = "granted"
    BY <1>1, LineStep, ServedInOrder
  <1> QED
    BY <1>1, InductiveInvariant, PTL DEF Spec, LineMovesUp

-----------------------------------------------------------------------------
(* Refinement: one lemma for each way a step of Admission shows in the     *)
(* abstract pool, then one case per action.                                *)

\* The abstract pool counts as this module does.
LEMMA SameCardinality == \A S : Pool!Cardinality(S) = Cardinality(S)
  BY DEF Pool!Cardinality, Cardinality

\* A slot is taken while one is free: Enter.
LEMMA TakeIsEnter ==
    ASSUME IInv, NEW r \in Requests, pc[r] \in {"conc", "park"},
           conc < MaxConcurrency, UNCHANGED <<sendq, drain, hold>>,
           NEW label \in {"forward", "granted"}, pc' = [pc EXCEPT ![r] = label]
    PROVE  Pool!Enter(r)
  <1>1. /\ pc \in [Requests -> PCs] /\ conc = Cardinality(Holders)
        /\ conc \in Nat /\ sendq \in Seq(Requests) /\ ToSet(sendq) = Waiting
    BY DEF IInv, TypeOK, TokensConserved, NoLostWakeup
  <1>2. sendq = <<>>
    BY AdmissionAssumption, <1>1 DEF AdmissionAssumption, IInv, NoLostWakeup
  <1>3. Waiting = {}
    BY <1>1, <1>2 DEF ToSet
  <1>4. Holders' = Holders \cup {r} /\ Waiting' = Waiting /\ r \notin Holders \cup Waiting
    BY <1>1 DEF Holders, Waiting, IInv, HoldsAreResults
  <1>5. Cardinality(Holders) < MaxConcurrency
    BY <1>1
  <1> QED
    BY <1>3, <1>4, <1>5, SameCardinality DEF Pool!Enter

\* A sender that leaves the list without a slot: GiveUp.
LEMMA WakeIsGiveUp ==
    ASSUME IInv, NEW r \in Requests, NEW k \in 1..Len(sendq), sendq[k] = r,
           UNCHANGED <<drain, hold>>,
           NEW label \in {"timer", "leaving"}, pc' = [pc EXCEPT ![r] = label]
    PROVE  Pool!GiveUp(r)
  <1>1. pc \in [Requests -> PCs] /\ sendq \in Seq(Requests) /\ r \in Waiting
    BY DEF IInv, TypeOK, NoLostWakeup, ToSet
  <1>2. Holders' = Holders /\ Waiting' = Waiting \ {r}
    BY <1>1 DEF Holders, Waiting, IInv, HoldsAreResults
  <1> QED
    BY <1>1, <1>2 DEF Pool!GiveUp

\* A release: Return.
LEMMA ReleaseIsReturn ==
    ASSUME IInv, NEW r \in Requests, NEW label \in {"idle", "result"},
           r \in Holders, pc[r] \in {"forward", "result"},
           ReleaseTo(r, label), hold' = hold \ {r}, drain' = drain
    PROVE  Pool!Return(r)
  <1>1. /\ pc \in [Requests -> PCs] /\ sendq \in Seq(Requests)
        /\ ToSet(sendq) = Waiting /\ Injective(sendq)
        /\ \A q \in hold : pc[q] = "result"
    BY DEF IInv, TypeOK, NoLostWakeup, HoldsAreResults, Injective
  <1>2. CASE sendq = <<>>
    <2>1. Waiting = {}
      BY <1>1, <1>2 DEF ToSet
    <2>2. pc' = [pc EXCEPT ![r] = label]
      BY <1>2 DEF ReleaseTo, Goto
    <2>3. Holders' = Holders \ {r} /\ Waiting' = Waiting
      BY <1>1, <2>2 DEF Holders, Waiting
    <2> QED
      BY <2>1, <2>3 DEF Pool!Return
  <1>3. CASE sendq # <<>>
    <2> DEFINE h == Head(sendq)
    <2>1. pc' = [pc EXCEPT ![r] = label, ![h] = "granted"]
      BY <1>3 DEF ReleaseTo, Goto
    <2>2. h \in Waiting
      BY <1>1, <1>3, TailSender
    <2> HIDE DEF h
    <2>3. h \in Requests /\ pc[h] = "waiting" /\ h # r
      BY <2>2 DEF Waiting
    <2>4. Holders' = (Holders \ {r}) \cup {h} /\ Waiting' = Waiting \ {h}
      BY <1>1, <2>1, <2>3 DEF Holders, Waiting
    <2> QED
      BY <2>2, <2>4 DEF Pool!Return
  <1> QED
    BY <1>2, <1>3

\* Blocking in the last select: Wait.
LEMMA BlockIsWait ==
    ASSUME IInv, NEW r \in Requests, pc[r] = "park", ~drain,
           conc >= MaxConcurrency, pc' = [pc EXCEPT ![r] = "waiting"],
           UNCHANGED <<drain, hold>>
    PROVE  Pool!Wait(r)
  <1>1. /\ pc \in [Requests -> PCs]
        /\ conc = Cardinality(Holders) /\ conc <= MaxConcurrency
        /\ queue = Cardinality(Queued) /\ queue <= QueueSize
        /\ conc \in Nat /\ queue \in Nat
        /\ MaxConcurrency \in Nat /\ QueueSize \in Nat
    BY AdmissionAssumption DEF AdmissionAssumption, IInv, TypeOK, TokensConserved
  <1>2. /\ r \notin Holders \cup Waiting /\ Holders' = Holders
        /\ Waiting' = Waiting \cup {r}
    BY <1>1 DEF Holders, Waiting, IInv, HoldsAreResults
  <1>3. Cardinality(Holders) = MaxConcurrency
    BY <1>1
  <1>4. Cardinality(Waiting) < QueueSize
    <2>1. Waiting \in SUBSET Requests /\ Queued \in SUBSET Requests
      BY DEF Waiting, Queued
    <2>2. Cardinality(Waiting \cup {r}) = Cardinality(Waiting) + 1
          /\ Cardinality(Waiting) \in Nat
      BY <1>2, <2>1, Counting
    <2>3. Waiting \cup {r} \in SUBSET Queued
      BY DEF Waiting, Queued
    <2>4. IsFiniteSet(Queued)
      BY <2>1, Counting
    <2>5. Cardinality(Waiting \cup {r}) <= Cardinality(Queued)
      BY <2>3, <2>4, FS_Subset
    <2> QED
      BY <1>1, <2>2, <2>5
  <1> QED
    BY <1>2, <1>3, <1>4, SameCardinality DEF Pool!Wait

\* Every step of Admission is a step of the abstract pool or leaves it alone.
LEMMA StepRefines == IInv /\ [Next]_vars => [Pool!PoolNext]_(Pool!poolVars)
  <1> SUFFICES ASSUME IInv, [Next]_vars
               PROVE  Pool!PoolNext \/ UNCHANGED <<Holders, Waiting, drain>>
    BY DEF Pool!poolVars
  <1> DEFINE Quiet == UNCHANGED <<Holders, Waiting, drain>>
  <1>0. pc \in [Requests -> PCs] /\ \A q \in hold : pc[q] = "result"
    BY DEF IInv, TypeOK, HoldsAreResults
  <1> USE DEF Goto, Fail
  <1>1. ASSUME NEW r \in Requests, CheckDrain(r) PROVE Quiet
    BY <1>0, <1>1 DEF CheckDrain, Holders, Waiting
  <1>2. ASSUME NEW r \in Requests, TryConc(r) PROVE Pool!Enter(r) \/ Quiet
    <2>1. CASE conc < MaxConcurrency /\ pc' = [pc EXCEPT ![r] = "forward"]
      BY <1>2, <2>1, TakeIsEnter DEF TryConc
    <2>2. CASE pc'[r] \in {"idle", "queue"}
      BY <1>0, <1>2, <2>2 DEF TryConc, Holders, Waiting
    <2> QED
      BY <1>0, <1>2, <2>1, <2>2 DEF TryConc
  <1>3. ASSUME NEW r \in Requests, TryQueue(r) PROVE Quiet
    BY <1>0, <1>3 DEF TryQueue, Holders, Waiting
  <1>4. ASSUME NEW r \in Requests, RecheckFull(r) PROVE Quiet
    BY <1>0, <1>4 DEF RecheckFull, Holders, Waiting
  <1>5. ASSUME NEW r \in Requests, Park(r)
        PROVE  Pool!Enter(r) \/ Pool!Wait(r) \/ Quiet
    <2>1. CASE conc < MaxConcurrency /\ pc' = [pc EXCEPT ![r] = "granted"] /\ sendq' = sendq
      BY <1>5, <2>1, TakeIsEnter DEF Park
    <2>2. CASE pc' = [pc EXCEPT ![r] = "leaving"]
      BY <1>0, <1>5, <2>2 DEF Park, Holders, Waiting
    <2>3. CASE conc >= MaxConcurrency /\ ~drain /\ pc' = [pc EXCEPT ![r] = "waiting"]
      BY <1>5, <2>3, BlockIsWait DEF Park
    <2> QED
      BY <1>5, <2>1, <2>2, <2>3 DEF Park
  <1>6. ASSUME NEW r \in Requests, RecheckTimer(r) PROVE Quiet
    BY <1>0, <1>6 DEF RecheckTimer, Holders, Waiting
  <1>7. ASSUME NEW r \in Requests, LeaveQueue(r) PROVE Quiet
    BY <1>0, <1>7 DEF LeaveQueue, Holders, Waiting
  <1>8. ASSUME NEW r \in Requests, ServeStep(r) PROVE Pool!Return(r) \/ Quiet
    <2>1. CASE ForwardFails(r)
      <3>1. r \in Holders /\ hold' = hold \ {r}
        BY <1>0, <2>1 DEF ForwardFails, Holders
      <3> QED
        BY <2>1, <3>1, ReleaseIsReturn DEF ForwardFails
    <2>2. CASE ForwardBuffers(r)
      <3>1. r \in Holders /\ hold' = hold \ {r}
        BY <1>0, <2>2 DEF ForwardBuffers, Holders
      <3> QED
        BY <2>2, <3>1, ReleaseIsReturn DEF ForwardBuffers
    <2>3. CASE ForwardStreams(r)
      BY <1>0, <2>3 DEF ForwardStreams, Holders, Waiting
    <2>4. CASE Close(r) /\ r \in hold
      BY <2>4, ReleaseIsReturn DEF Close, Holders
    <2>5. CASE Close(r) /\ r \notin hold
      BY <1>0, <2>5 DEF Close, Holders, Waiting
    <2> QED
      BY <1>8, <2>1, <2>2, <2>3, <2>4, <2>5 DEF ServeStep
  <1>9. ASSUME NEW r \in Requests, TimerFires(r) PROVE Pool!GiveUp(r) \/ Quiet
    <2>1. CASE pc[r] = "park"
      BY <1>0, <1>9, <2>1 DEF TimerFires, Holders, Waiting
    <2>2. CASE \E k \in 1..Len(sendq) : sendq[k] = r
      BY <1>9, <2>2, WakeIsGiveUp DEF TimerFires
    <2> QED
      BY <1>9, <2>1, <2>2 DEF TimerFires
  <1>10. ASSUME NEW r \in Requests, Cancel(r) PROVE Pool!GiveUp(r) \/ Quiet
    <2>1. CASE pc' = pc
      BY <1>10, <2>1 DEF Cancel, Holders, Waiting
    <2>2. CASE pc' = [pc EXCEPT ![r] = "leaving"] /\ \E k \in 1..Len(sendq) : sendq[k] = r
      BY <1>10, <2>2, WakeIsGiveUp DEF Cancel
    <2> QED
      BY <1>10, <2>1, <2>2 DEF Cancel
  <1>11. ASSUME Drain PROVE Pool!Dismiss
    <2>1. Holders' = Holders /\ Waiting' = {}
      BY <1>0, <1>11 DEF Drain, Holders, Waiting
    <2> QED
      BY <1>11, <2>1 DEF Drain, Pool!Dismiss
  <1>12. CASE UNCHANGED vars
    BY <1>12 DEF vars, Holders, Waiting
  <1> HIDE DEF Quiet
  <1>13. Pool!PoolNext \/ Quiet \/ UNCHANGED vars
    BY <1>1, <1>2, <1>3, <1>4, <1>5, <1>6, <1>7, <1>8, <1>9, <1>10, <1>11
       DEF Next, AcquireStep, Pool!PoolNext
  <1> QED
    BY <1>12, <1>13 DEF Quiet

\* The channels implement the abstract pool: whatever the interleaving, the
\* pool behaves as SlotPool says, for every number of callers and slots.
THEOREM AdmissionImplementsPool == Spec => ImplementsPool
  <1>1. Init => Pool!PoolInit
    BY DEF Init, Pool!PoolInit, Holders, Waiting
  <1> QED
    BY <1>1, StepRefines, InductiveInvariant, PTL DEF Spec, ImplementsPool, Pool!PoolSpec

-----------------------------------------------------------------------------
(* Router: natural numbers.                                                *)

\* A set of numbers has a least one: what the inductions below rest on.
LEMMA LeastNumber ==
    ASSUME NEW T \in SUBSET Nat, T # {}
    PROVE  \E x \in T : \A y \in T : x <= y
  <1>1. \E x \in T : \A y \in T : ~(<<y, x>> \in OpToRel(<, Nat))
    BY NatLessThanWellFounded, WFMin
  <1>2. PICK x \in T : \A y \in T : ~(<<y, x>> \in OpToRel(<, Nat))
    BY <1>1
  <1>3. \A y \in T : ~(y < x)
    BY <1>2 DEF OpToRel
  <1>4. \A y \in T : x <= y
    BY <1>3
  <1> QED
    BY <1>4

\* The first powers of two.
Powers(n, g) == g \in [0..n -> Nat] /\ g[0] = 1 /\ \A k \in 1..n : g[k] = 2 * g[k - 1]

LEMMA PowersExist == \A n \in Nat : \E g : Powers(n, g)
  <1> SUFFICES ASSUME \E n \in Nat : ~\E g : Powers(n, g) PROVE FALSE
    OBVIOUS
  <1> DEFINE T == {n \in Nat : ~\E g : Powers(n, g)}
  <1>1. PICK n \in T : \A m \in T : n <= m
    BY LeastNumber
  <1>2. CASE n = 0
    <2>1. Powers(0, [k \in 0..0 |-> 1])
      BY DEF Powers
    <2> QED
      BY <1>2, <2>1
  <1>3. CASE n # 0
    <2>1. n - 1 \in Nat /\ n \in Nat /\ n - 1 < n
      BY <1>3
    <2>2. PICK g : Powers(n - 1, g)
      BY <1>1, <2>1
    <2> DEFINE h == [k \in 0..n |-> IF k = n THEN 2 * g[n - 1] ELSE g[k]]
    <2>3. \A k \in 0..n : k # n => k \in 0..(n - 1)
      BY <2>1
    <2>4. \A k \in 0..(n - 1) : g[k] \in Nat
      BY <2>2 DEF Powers
    <2>5. n - 1 \in 0..(n - 1) /\ 0 \in 0..n /\ 0 # n
      BY <2>1
    <2>6. h \in [0..n -> Nat]
      BY <2>3, <2>4, <2>5
    <2>7. h[0] = 1
      BY <2>2, <2>5 DEF Powers
    <2>8. ASSUME NEW k \in 1..n PROVE h[k] = 2 * h[k - 1]
      <3>1. k \in 0..n /\ k - 1 \in 0..n /\ k - 1 # n
        BY <2>1
      <3>2. h[k - 1] = g[k - 1]
        BY <3>1
      <3>3. CASE k = n
        BY <3>1, <3>2, <3>3
      <3>4. CASE k # n
        <4>1. k \in 1..(n - 1)
          BY <2>1, <3>4
        <4> QED
          BY <2>2, <3>1, <3>2, <3>4, <4>1 DEF Powers
      <3> QED
        BY <3>3, <3>4
    <2> HIDE DEF h
    <2>9. Powers(n, h)
      BY <2>6, <2>7, <2>8 DEF Powers
    <2> QED
      BY <2>9
  <1> QED
    BY <1>2, <1>3

LEMMA PowersAgree ==
    ASSUME NEW n \in Nat, NEW m \in Nat, NEW g, NEW h, Powers(n, g), Powers(m, h)
    PROVE  \A k \in Nat : k <= n /\ k <= m => g[k] = h[k]
  <1> SUFFICES ASSUME \E k \in Nat : k <= n /\ k <= m /\ g[k] # h[k] PROVE FALSE
    OBVIOUS
  <1> DEFINE T == {k \in Nat : k <= n /\ k <= m /\ g[k] # h[k]}
  <1>1. PICK k \in T : \A j \in T : k <= j
    BY LeastNumber
  <1>2. k # 0
    BY DEF Powers
  <1>3. k \in Nat /\ k - 1 \in Nat /\ k - 1 < k /\ k - 1 <= n /\ k - 1 <= m
    BY <1>2
  <1>4. g[k - 1] = h[k - 1]
    BY <1>1, <1>3
  <1>5. k \in 1..n /\ k \in 1..m
    BY <1>2, <1>3
  <1>6. g[k] = 2 * g[k - 1] /\ h[k] = 2 * h[k - 1]
    BY <1>5 DEF Powers
  <1> QED
    BY <1>4, <1>6

\* The recursive definition defines a function.
LEMMA PowerEquation ==
    PowerOfTwo = [n \in Nat |-> IF n = 0 THEN 1 ELSE 2 * PowerOfTwo[n - 1]]
  <1> DEFINE G(n) == CHOOSE g : Powers(n, g)
             f == [n \in Nat |-> G(n)[n]]
  <1>1. \A n \in Nat : Powers(n, G(n))
    BY PowersExist
  <1> HIDE DEF G
  <1>2. f[0] = 1
    BY <1>1 DEF Powers
  <1>3. ASSUME NEW n \in Nat, n # 0 PROVE f[n] = 2 * f[n - 1]
    <2>1. n - 1 \in Nat /\ n \in 1..n /\ n - 1 <= n
      BY <1>3
    <2>2. G(n)[n] = 2 * G(n)[n - 1]
      BY <1>1, <2>1 DEF Powers
    <2>3. G(n)[n - 1] = G(n - 1)[n - 1]
      BY <1>1, <2>1, PowersAgree
    <2> QED
      BY <2>1, <2>2, <2>3
  <1>4. f = [n \in Nat |-> IF n = 0 THEN 1 ELSE 2 * f[n - 1]]
    BY <1>2, <1>3
  <1> HIDE DEF f
  <1>5. \E p : p = [n \in Nat |-> IF n = 0 THEN 1 ELSE 2 * p[n - 1]]
    BY <1>4
  <1> QED
    BY <1>5 DEF PowerOfTwo

LEMMA PowerFacts ==
    /\ PowerOfTwo[0] = 1
    /\ \A n \in Nat : PowerOfTwo[n + 1] = 2 * PowerOfTwo[n]
  <1>1. \A n \in Nat : PowerOfTwo[n] = IF n = 0 THEN 1 ELSE 2 * PowerOfTwo[n - 1]
    BY PowerEquation
  <1>2. ASSUME NEW n \in Nat PROVE PowerOfTwo[n + 1] = 2 * PowerOfTwo[n]
    <2>1. n + 1 \in Nat /\ n + 1 # 0 /\ (n + 1) - 1 = n
      OBVIOUS
    <2> QED
      BY <1>1, <2>1
  <1> QED
    BY <1>1, <1>2

LEMMA PowersPositive == \A n \in Nat : PowerOfTwo[n] \in Nat /\ PowerOfTwo[n] >= 1
  <1> SUFFICES ASSUME \E n \in Nat : ~(PowerOfTwo[n] \in Nat /\ PowerOfTwo[n] >= 1) PROVE FALSE
    OBVIOUS
  <1> DEFINE T == {n \in Nat : ~(PowerOfTwo[n] \in Nat /\ PowerOfTwo[n] >= 1)}
  <1>1. PICK n \in T : \A m \in T : n <= m
    BY LeastNumber
  <1>2. n # 0
    BY PowerFacts
  <1>3. n - 1 \in Nat /\ n - 1 < n /\ (n - 1) + 1 = n
    BY <1>2
  <1>4. PowerOfTwo[n - 1] \in Nat /\ PowerOfTwo[n - 1] >= 1
    BY <1>1, <1>3
  <1>5. PowerOfTwo[n] = 2 * PowerOfTwo[n - 1]
    BY <1>3, PowerFacts
  <1> QED
    BY <1>4, <1>5

-----------------------------------------------------------------------------
(* Router: cooldowns.                                                      *)

LEMMA MinOfTwo ==
    ASSUME NEW a \in Nat, NEW b \in Nat
    PROVE  Min({a, b}) = IF a <= b THEN a ELSE b
  BY DEF Min

\* A cooldown is at least the base, and the next one of a streak is no shorter.
LEMMA CooldownFacts ==
    ASSUME NEW n \in Nat \ {0}
    PROVE  /\ Cooldown(n) \in Nat /\ Cooldown(n) >= 1
           /\ Cooldown(n) <= Cooldown(n + 1)
  <1> DEFINE s == IF n - 1 <= ShiftCap THEN n - 1 ELSE ShiftCap
             t == IF n <= ShiftCap THEN n ELSE ShiftCap
  <1>1. /\ ShiftCap \in Nat /\ ShiftCap <= WidthShift /\ WidthShift \in Nat
        /\ MaxCooldown \in Nat /\ MaxCooldown >= 1
    BY RouterAssumption
  <1>2. /\ s \in Nat /\ t \in Nat /\ s <= WidthShift /\ t <= WidthShift
        /\ t = s \/ t = s + 1
    BY <1>1
  <1>3. Min({n - 1, ShiftCap}) = s /\ Min({(n + 1) - 1, ShiftCap}) = t
    <2>1. n - 1 \in Nat /\ (n + 1) - 1 \in Nat /\ (n + 1) - 1 = n
      OBVIOUS
    <2> QED
      BY <1>1, <2>1, MinOfTwo
  <1> HIDE DEF s, t
  <1>4. Shifted(s) = PowerOfTwo[s] /\ Shifted(t) = PowerOfTwo[t]
    BY <1>1, <1>2 DEF Shifted
  <1>5. PICK a \in Nat, b \in Nat : a = PowerOfTwo[s] /\ b = PowerOfTwo[t] /\ 1 <= a /\ 1 <= b
    BY <1>2, PowersPositive
  <1>6. a <= b
    <2>1. t = s \/ PowerOfTwo[t] = 2 * PowerOfTwo[s]
      BY <1>2, PowerFacts
    <2> QED
      BY <1>5, <2>1
  <1>7. Cooldown(n) = Min({a, MaxCooldown}) /\ Cooldown(n + 1) = Min({b, MaxCooldown})
    BY <1>3, <1>4, <1>5 DEF Cooldown
  <1>8. /\ Cooldown(n) = (IF a <= MaxCooldown THEN a ELSE MaxCooldown)
        /\ Cooldown(n + 1) = (IF b <= MaxCooldown THEN b ELSE MaxCooldown)
    BY <1>1, <1>7, MinOfTwo
  <1> QED
    BY <1>1, <1>5, <1>6, <1>8

\* What is left of a cooldown is no more than what the streak so far has earned.
HealthInv ==
    /\ streak \in [Replicas -> Nat] /\ until \in [Replicas -> Nat]
    /\ \A i \in Replicas : until[i] > 0 => streak[i] > 0 /\ until[i] <= Cooldown(streak[i])

\* A report of a failure.
LEMMA FailureFacts ==
    ASSUME HealthInv, NEW x, RecordFailure(x)
    PROVE  /\ HealthInv'
           /\ \A i \in Replicas : streak'[i] > streak[i] => until'[i] >= 1 /\ until'[i] >= until[i]
  <1>1. ASSUME NEW i \in Replicas, i # x
        PROVE  streak'[i] = streak[i] /\ until'[i] = until[i]
    BY <1>1 DEF HealthInv, RecordFailure
  <1>2. ASSUME x \in Replicas
        PROVE  /\ streak'[x] = streak[x] + 1 /\ until'[x] = Cooldown(streak[x] + 1)
               /\ streak[x] \in Nat /\ until[x] \in Nat
    BY <1>2 DEF HealthInv, RecordFailure
  <1>3. ASSUME x \in Replicas
        PROVE  /\ until'[x] \in Nat /\ until'[x] >= 1 /\ until'[x] >= until[x]
               /\ until'[x] <= Cooldown(streak'[x])
    <2>1. PICK n \in Nat, u \in Nat : n = streak[x] /\ u = until[x]
      BY <1>2, <1>3
    <2>2. n + 1 \in Nat \ {0}
      OBVIOUS
    <2>3. Cooldown(n + 1) \in Nat /\ Cooldown(n + 1) >= 1
      BY <2>2, CooldownFacts
    <2>4. u <= Cooldown(n + 1)
      <3>1. CASE u = 0
        BY <2>3, <3>1
      <3>2. CASE u > 0
        <4>1. n > 0 /\ u <= Cooldown(n)
          BY <1>3, <2>1, <3>2 DEF HealthInv
        <4>2. Cooldown(n) \in Nat /\ Cooldown(n) <= Cooldown(n + 1)
          BY <4>1, CooldownFacts
        <4> QED
          BY <2>3, <4>1, <4>2
      <3> QED
        BY <3>1, <3>2
    <2> QED
      BY <1>2, <1>3, <2>1, <2>3, <2>4
  <1>4. streak' \in [Replicas -> Nat] /\ until' \in [Replicas -> Nat]
    <2>1. streak' = [i \in Replicas |-> streak'[i]] /\ until' = [i \in Replicas |-> until'[i]]
      BY DEF HealthInv, RecordFailure
    <2>2. \A i \in Replicas : streak'[i] \in Nat /\ until'[i] \in Nat
      BY <1>1, <1>2, <1>3 DEF HealthInv
    <2> QED
      BY <2>1, <2>2
  <1>5. ASSUME NEW i \in Replicas, until'[i] > 0
        PROVE  streak'[i] > 0 /\ until'[i] <= Cooldown(streak'[i])
    <2>1. CASE i = x
      BY <1>2, <1>3, <2>1
    <2>2. CASE i # x
      BY <1>1, <1>5, <2>2 DEF HealthInv
    <2> QED
      BY <2>1, <2>2
  <1>6. ASSUME NEW i \in Replicas, streak'[i] > streak[i]
        PROVE  until'[i] >= 1 /\ until'[i] >= until[i]
    <2>1. CASE i = x
      BY <1>3, <2>1
    <2>2. CASE i # x
      BY <1>1, <1>6, <2>2 DEF HealthInv
    <2> QED
      BY <2>1, <2>2
  <1> QED
    BY <1>4, <1>5, <1>6 DEF HealthInv

\* Every step keeps the health table, and a failure extends the cooldown.
LEMMA HealthNext ==
    ASSUME HealthInv, [RouterNext]_routerVars
    PROVE  /\ HealthInv'
           /\ \A i \in Replicas : streak'[i] > streak[i] => until'[i] >= 1 /\ until'[i] >= until[i]
  <1> DEFINE Good == /\ HealthInv'
                     /\ \A i \in Replicas : streak'[i] > streak[i] =>
                                               until'[i] >= 1 /\ until'[i] >= until[i]
  <1>1. ASSUME NEW x, RecordFailure(x) PROVE Good
    BY <1>1, FailureFacts
  <1>2. ASSUME NEW x, RecordSuccess(x) PROVE Good
    <2>1. \A i \in Replicas : \/ streak'[i] = streak[i] /\ until'[i] = until[i]
                              \/ streak'[i] = 0 /\ until'[i] = 0
      BY <1>2 DEF HealthInv, RecordSuccess
    <2>2. streak' \in [Replicas -> Nat] /\ until' \in [Replicas -> Nat]
      BY <1>2 DEF HealthInv, RecordSuccess
    <2> QED
      BY <2>1, <2>2 DEF HealthInv
  <1>3. ASSUME UNCHANGED health PROVE Good
    BY <1>3 DEF HealthInv, health
  <1>4. ASSUME HealthTick PROVE Good
    <2>1. until' \in [Replicas -> Nat] /\ streak' = streak
      BY <1>4 DEF HealthTick, HealthInv
    <2>2. ASSUME NEW i \in Replicas, until'[i] > 0
          PROVE  streak[i] > 0 /\ until'[i] <= Cooldown(streak[i])
      <3>1. until[i] > 0 /\ until'[i] = until[i] - 1 /\ until[i] \in Nat /\ streak[i] \in Nat
        BY <1>4, <2>2 DEF HealthTick, HealthInv
      <3>2. streak[i] > 0 /\ until[i] <= Cooldown(streak[i])
        BY <3>1 DEF HealthInv
      <3>3. Cooldown(streak[i]) \in Nat
        BY <3>1, <3>2, CooldownFacts
      <3> QED
        BY <3>1, <3>2, <3>3
    <2> QED
      BY <2>1, <2>2 DEF HealthInv
  <1>5. ASSUME NEW a \in Attempts,
               \/ Filter(a) \/ NoneEligible(a) \/ PickRing(a) \/ PickWeighted(a) \/ PickLoaded(a)
               \/ Rejected(a)
        PROVE  Good
    BY <1>3, <1>5 DEF Filter, NoneEligible, PickRing, PickWeighted, PickLoaded, Rejected, Send
  <1>6. ASSUME NEW a \in Attempts, ConnectFails(a) \/ Answered(a) PROVE Good
    BY <1>1, <1>2, <1>6 DEF ConnectFails, Answered
  <1>7. ASSUME NEW i \in Replicas, OthersReport(i) PROVE Good
    BY <1>1, <1>2, <1>7 DEF OthersReport
  <1>8. ASSUME UNCHANGED routerVars PROVE Good
    BY <1>3, <1>8 DEF routerVars
  <1> HIDE DEF Good
  <1>9. Good
    BY <1>4, <1>5, <1>6, <1>7, <1>8 DEF RouterNext
  <1> QED
    BY <1>9 DEF Good

(***************************************************************************)
(* No failure shortens a cooldown, whatever the base, the cap, the word    *)
(* and the length of the streak (health.recordFailure).                    *)
(***************************************************************************)
THEOREM FailuresExtendCooldowns == RouterSpec => FailureExtendsCooldown
  <1> DEFINE Step == \A i \in Replicas :
                        streak'[i] > streak[i] => until'[i] >= 1 /\ until'[i] >= until[i]
  <1>1. RouterInit => HealthInv
    BY RouterAssumption DEF RouterInit, HealthInv
  <1>2. HealthInv /\ [RouterNext]_routerVars => HealthInv'
    BY HealthNext
  <1>3. HealthInv /\ [RouterNext]_routerVars => [Step]_routerVars
    BY HealthNext
  <1> HIDE DEF Step
  <1>4. RouterSpec => [][Step]_routerVars
    BY <1>1, <1>2, <1>3, PTL DEF RouterSpec
  <1> QED
    BY <1>4 DEF FailureExtendsCooldown, Step

-----------------------------------------------------------------------------
(* Router: the ring.                                                       *)

\* Remainders close to zero.
LEMMA Remainder ==
    ASSUME NEW n \in Nat, n > 0, NEW k \in Int, -n < k, k <= n
    PROVE  k % n = IF k < 0 THEN k + n ELSE IF k = n THEN 0 ELSE k
  OBVIOUS

\* How far the counter is from a replica.
Place(i) == (i - 1 - rr) % Len(Weight)

LEMMA PlaceFacts ==
    ASSUME rr \in 0..(Len(Weight) - 1)
    PROVE  \E n \in Nat : /\ n = Len(Weight) /\ n > 0 /\ Replicas = 1..n /\ rr \in 0..(n - 1)
                          /\ \A i \in 1..n : Place(i) = IF i - 1 >= rr THEN i - 1 - rr
                                                        ELSE i - 1 - rr + n
  <1>1. PICK n \in Nat : n = Len(Weight) /\ n > 0
    BY RouterAssumption
  <1>2. Replicas = 1..n /\ rr \in 0..(n - 1)
    BY <1>1 DEF Replicas
  <1>3. ASSUME NEW i \in 1..n
        PROVE  Place(i) = IF i - 1 >= rr THEN i - 1 - rr ELSE i - 1 - rr + n
    <2>1. PICK k \in Int : k = i - 1 - rr /\ k < n /\ -n < k
      BY <1>1, <1>2
    <2>2. k % n = IF k >= 0 THEN k ELSE k + n
      BY <1>1, <2>1, Remainder
    <2> QED
      BY <1>1, <1>2, <2>1, <2>2 DEF Place
  <1> QED
    BY <1>1, <1>2, <1>3

\* Only the replica the counter stands at is at place zero, and it is picked.
LEMMA RingPick ==
    ASSUME rr \in 0..(Len(Weight) - 1), NEW C \in SUBSET Replicas, NEW i \in C, Place(i) = 0
    PROVE  Ring(C) = i
  <1>1. PICK n \in Nat : /\ n = Len(Weight) /\ n > 0 /\ Replicas = 1..n /\ rr \in 0..(n - 1)
                         /\ \A j \in 1..n : Place(j) = IF j - 1 >= rr THEN j - 1 - rr
                                                       ELSE j - 1 - rr + n
    BY PlaceFacts
  <1>2. \A j \in C : Place(j) \in Nat /\ (Place(j) = 0 => j = i)
    BY <1>1
  <1>3. {k \in C : \A j \in C : ~(Place(j) < Place(k))} = {i}
    BY <1>2
  <1>4. Ring(C) = Min({k \in C : \A j \in C : ~(Place(j) < Place(k))})
    BY DEF Ring, Best, Place
  <1>5. i \in Nat
    BY <1>1
  <1>6. Min({i}) = i
    BY <1>5 DEF Min
  <1> QED
    BY <1>3, <1>4, <1>6

\* A replica that was passed over is nearer to the counter by as many places.
RingInv ==
    /\ rr \in 0..(Len(Weight) - 1)
    /\ skipped \in [Replicas -> Nat]
    /\ cands \in [Attempts -> SUBSET Replicas]
    /\ strategy = "round-robin" => \A i \in Replicas : skipped[i] + Place(i) < Len(Weight)

\* A pick of the rotation.
LEMMA RingPicks ==
    ASSUME RingInv, NEW a \in Attempts, PickRing(a) PROVE RingInv'
  <1>1. PICK n \in Nat : /\ n = Len(Weight) /\ n > 0 /\ Replicas = 1..n /\ rr \in 0..(n - 1)
                         /\ \A j \in 1..n : Place(j) = IF j - 1 >= rr THEN j - 1 - rr
                                                       ELSE j - 1 - rr + n
    BY PlaceFacts DEF RingInv
  <1>n. n > 0
    BY <1>1
  <1> DEFINE C == cands[a]
  <1>2. /\ strategy = "round-robin" /\ strategy' = strategy /\ C \in SUBSET Replicas
        /\ skipped' = Passed(C, Ring(C)) /\ rr' = (rr + 1) % n
        /\ cands' = [cands EXCEPT ![a] = {}]
    BY <1>1 DEF PickRing, Send, RingInv
  <1>3. rr' = (IF rr = n - 1 THEN 0 ELSE rr + 1) /\ rr' \in 0..(n - 1)
    <2>1. PICK k \in Int : k = rr + 1 /\ k > 0 /\ k <= n /\ -n < k
      BY <1>1
    <2>2. k % n = IF k = n THEN 0 ELSE k
      BY <1>n, <2>1, Remainder
    <2> QED
      BY <1>1, <1>2, <2>1, <2>2
  <1>4. \A j \in 1..n : Place(j)' = IF j - 1 >= rr' THEN j - 1 - rr' ELSE j - 1 - rr' + n
    <2>1. PICK r \in 0..(n - 1) : r = rr'
      BY <1>3
    <2> SUFFICES ASSUME NEW j \in 1..n
                 PROVE  (j - 1 - r) % n = IF j - 1 >= r THEN j - 1 - r ELSE j - 1 - r + n
      BY <1>1, <2>1 DEF Place
    <2>2. PICK k \in Int : k = j - 1 - r /\ k < n /\ -n < k
      BY <1>1
    <2>3. k % n = IF k >= 0 THEN k ELSE k + n
      BY <1>n, <2>2, Remainder
    <2> QED
      BY <2>2, <2>3
  <1>5. /\ skipped' \in [Replicas -> Nat]
        /\ \A j \in Replicas : skipped'[j] = IF j \in C \ {Ring(C)} THEN skipped[j] + 1 ELSE 0
    BY <1>2 DEF Passed, RingInv
  <1>6. cands' \in [Attempts -> SUBSET Replicas]
    BY <1>2 DEF RingInv
  <1>7. ASSUME NEW j \in Replicas PROVE skipped'[j] + Place(j)' < n
    <2>1. j \in 1..n /\ Place(j)' \in 0..(n - 1)
      BY SMTT(60), <1>1, <1>3, <1>4
    <2>2. CASE j \in C \ {Ring(C)}
      <3>1. Place(j) # 0
        BY <1>2, <2>2, RingPick DEF RingInv
      <3>2. Place(j)' = Place(j) - 1 /\ Place(j) \in Nat
        <4>1. PICK p \in Int : p = Place(j)
                               /\ p = IF j - 1 >= rr THEN j - 1 - rr ELSE j - 1 - rr + n
          BY <1>1, <2>1
        <4>2. PICK r \in 0..(n - 1) : r = rr' /\ r = IF rr = n - 1 THEN 0 ELSE rr + 1
          BY <1>3
        <4>3. Place(j)' = IF j - 1 >= r THEN j - 1 - r ELSE j - 1 - r + n
          BY <1>4, <2>1, <4>2
        <4>4. (IF j - 1 >= r THEN j - 1 - r ELSE j - 1 - r + n) = p - 1 /\ p \in Nat
          BY SMTT(60), <1>1, <2>1, <3>1, <4>1, <4>2
        <4> QED
          BY <4>1, <4>3, <4>4
      <3>3. skipped'[j] = skipped[j] + 1 /\ skipped[j] \in Nat
        BY <1>5, <2>2 DEF RingInv
      <3>4. skipped[j] + Place(j) < n
        BY <1>1, <1>2 DEF RingInv
      <3> QED
        BY <3>2, <3>3, <3>4
    <2>3. CASE j \notin C \ {Ring(C)}
      BY <1>5, <2>1, <2>3
    <2> QED
      BY <2>2, <2>3
  <1> QED
    BY <1>1, <1>3, <1>5, <1>6, <1>7 DEF RingInv

\* Every step keeps the ring.
LEMMA RingNext == RingInv /\ [RouterNext]_routerVars => RingInv'
  <1> SUFFICES ASSUME RingInv, [RouterNext]_routerVars PROVE RingInv'
    OBVIOUS
  <1>1. ASSUME UNCHANGED <<strategy, rotation>>, cands' \in [Attempts -> SUBSET Replicas]
        PROVE  RingInv'
    BY <1>1 DEF rotation, RingInv, Place
  <1>2. ASSUME NEW a \in Attempts, Filter(a) PROVE RingInv'
    <2>1. cands' \in [Attempts -> SUBSET Replicas]
      BY <1>2 DEF Filter, RingInv
    <2> QED
      BY <1>1, <1>2, <2>1 DEF Filter
  <1>3. ASSUME NEW a \in Attempts, PickWeighted(a) PROVE RingInv'
    <2>1. cands' = [cands EXCEPT ![a] = {}] /\ UNCHANGED <<strategy, rr>>
          /\ strategy = "weighted-round-robin"
      BY <1>3 DEF PickWeighted, Send
    <2>2. cands' \in [Attempts -> SUBSET Replicas]
      BY <2>1 DEF RingInv
    <2>3. skipped' = Passed(cands[a], NextWRR(cands[a]))
      BY <1>3 DEF PickWeighted
    <2>4. skipped' \in [Replicas -> Nat]
      <3> HIDE DEF NextWRR
      <3> QED
        BY <2>3 DEF Passed, RingInv
    <2> QED
      BY <2>1, <2>2, <2>4 DEF RingInv
  <1>4. ASSUME NEW a \in Attempts, PickLoaded(a) PROVE RingInv'
    <2>1. cands' = [cands EXCEPT ![a] = {}] /\ UNCHANGED <<strategy, rotation>>
      BY <1>4 DEF PickLoaded, Send
    <2>2. cands' \in [Attempts -> SUBSET Replicas]
      BY <2>1 DEF RingInv
    <2> QED
      BY <1>1, <2>1, <2>2
  <1>5. ASSUME NEW a \in Attempts,
               NoneEligible(a) \/ ConnectFails(a) \/ Rejected(a) \/ Answered(a)
        PROVE  RingInv'
    <2>1. UNCHANGED <<strategy, rotation, cands>>
      BY <1>5 DEF NoneEligible, ConnectFails, Rejected, Retry, Answered
    <2> QED
      BY <1>1, <2>1 DEF RingInv
  <1>6. ASSUME (\E i \in Replicas : OthersReport(i)) \/ HealthTick PROVE RingInv'
    <2>1. UNCHANGED <<strategy, rotation, cands>>
      BY <1>6 DEF OthersReport, HealthTick
    <2> QED
      BY <1>1, <2>1 DEF RingInv
  <1>7. CASE UNCHANGED routerVars
    BY <1>1, <1>7 DEF routerVars, RingInv
  <1> QED
    BY <1>2, <1>3, <1>4, <1>5, <1>6, <1>7, RingPicks DEF RouterNext

LEMMA RingInit == RouterInit => RingInv
  <1> SUFFICES ASSUME RouterInit PROVE RingInv
    OBVIOUS
  <1>1. PICK n \in Nat : n = Len(Weight) /\ n > 0
    BY RouterAssumption
  <1>2. rr = 0 /\ rr \in 0..(Len(Weight) - 1)
    BY <1>1 DEF RouterInit
  <1>3. \A i \in Replicas : Place(i) \in Nat /\ Place(i) < n
    BY <1>1, <1>2, PlaceFacts
  <1>4. /\ skipped \in [Replicas -> Nat] /\ \A i \in Replicas : skipped[i] = 0
        /\ cands \in [Attempts -> SUBSET Replicas]
    BY DEF RouterInit
  <1> QED
    BY <1>1, <1>2, <1>3, <1>4 DEF RingInv

LEMMA RingStarvesNone == RingInv /\ strategy = "round-robin" => NoReplicaStarves
  <1> SUFFICES ASSUME RingInv, strategy = "round-robin", NEW i \in Replicas
               PROVE  skipped[i] < Len(Weight)
    BY DEF NoReplicaStarves
  <1>1. PICK n \in Nat : /\ n = Len(Weight) /\ n > 0 /\ Replicas = 1..n /\ rr \in 0..(n - 1)
                         /\ \A j \in 1..n : Place(j) = IF j - 1 >= rr THEN j - 1 - rr
                                                       ELSE j - 1 - rr + n
    BY PlaceFacts DEF RingInv
  <1>2. Place(i) \in Nat /\ skipped[i] \in Nat /\ skipped[i] + Place(i) < n
    BY <1>1 DEF RingInv
  <1> QED
    BY <1>1, <1>2

-----------------------------------------------------------------------------
(* Sums over the replicas.                                                 *)

\* The sums of the first 0, 1, ..., m members of f.
PartialSums(f, m, g) ==
    g \in [0..m -> Int] /\ g[0] = 0 /\ \A k \in 1..m : g[k] = g[k - 1] + f[k]

LEMMA PartialSumsExist ==
    ASSUME NEW n \in Nat, NEW f, \A k \in 1..n : f[k] \in Int
    PROVE  \E g : PartialSums(f, n, g)
  <1> DEFINE Bad == {m \in Nat : m <= n /\ ~\E g : PartialSums(f, m, g)}
  <1> SUFFICES ASSUME n \in Bad PROVE FALSE
    OBVIOUS
  <1>1. PICK m \in Bad : \A k \in Bad : m <= k
    BY LeastNumber
  <1>2. m \in Nat /\ m <= n
    OBVIOUS
  <1>3. CASE m = 0
    <2>1. PartialSums(f, 0, [k \in 0..0 |-> 0])
      BY DEF PartialSums
    <2> QED
      BY <1>3, <2>1
  <1>4. CASE m # 0
    <2>1. m - 1 \in Nat /\ m - 1 < m /\ m - 1 <= n /\ m \in 1..n /\ m - 1 \in 0..(m - 1)
      BY <1>2, <1>4
    <2>2. PICK g : PartialSums(f, m - 1, g)
      BY <1>1, <1>2, <2>1
    <2> DEFINE h == [k \in 0..m |-> IF k = m THEN g[m - 1] + f[m] ELSE g[k]]
    <2>3. \A k \in 0..m : k # m => k \in 0..(m - 1)
      BY <1>2
    <2>4. g[m - 1] \in Int /\ f[m] \in Int /\ g[m - 1] + f[m] \in Int
      BY <2>1, <2>2 DEF PartialSums
    <2>5. h \in [0..m -> Int]
      BY <2>2, <2>3, <2>4 DEF PartialSums
    <2>6. h[0] = 0
      BY <1>2, <1>4, <2>2 DEF PartialSums
    <2>7. ASSUME NEW k \in 1..m PROVE h[k] = h[k - 1] + f[k]
      <3>1. k \in 0..m /\ k - 1 \in 0..m /\ k - 1 # m
        BY <1>2
      <3>2. h[k - 1] = g[k - 1]
        BY <3>1
      <3>3. CASE k = m
        BY <3>1, <3>2, <3>3
      <3>4. CASE k # m
        <4>1. k \in 1..(m - 1)
          BY <1>2, <3>4
        <4> QED
          BY <2>2, <3>1, <3>2, <3>4, <4>1 DEF PartialSums
      <3> QED
        BY <3>3, <3>4
    <2> HIDE DEF h
    <2>8. PartialSums(f, m, h)
      BY <2>5, <2>6, <2>7 DEF PartialSums
    <2> QED
      BY <2>8
  <1> QED
    BY <1>3, <1>4

\* Total is the last of them.
LEMMA TotalIsLast ==
    ASSUME NEW n \in Nat, n = Len(Weight), NEW f, \A k \in 1..n : f[k] \in Int
    PROVE  \E g : PartialSums(f, n, g) /\ Total(f) = g[n]
  <1>1. PICK g : PartialSums(f, n, g)
    BY PartialSumsExist
  <1>2. g = [k \in 0..n |-> IF k = 0 THEN 0 ELSE g[k - 1] + f[k]]
    <2>1. ASSUME NEW k \in 0..n PROVE g[k] = IF k = 0 THEN 0 ELSE g[k - 1] + f[k]
      <3>1. k # 0 => k \in 1..n
        OBVIOUS
      <3> QED
        BY <1>1, <3>1 DEF PartialSums
    <2>2. g = [k \in 0..n |-> g[k]]
      BY <1>1 DEF PartialSums
    <2> QED
      BY <2>1, <2>2
  <1> DEFINE s == CHOOSE h : h = [k \in 0..n |-> IF k = 0 THEN 0 ELSE h[k - 1] + f[k]]
  <1>3. s = [k \in 0..n |-> IF k = 0 THEN 0 ELSE s[k - 1] + f[k]]
    BY <1>2
  <1>4. Total(f) = s[n]
    BY Zenon DEF Total
  <1> HIDE DEF s
  <1>5. ASSUME NEW k \in 0..n PROVE s[k] = g[k]
    <2> DEFINE Bad == {j \in Nat : j <= n /\ s[j] # g[j]}
    <2> SUFFICES ASSUME k \in Bad PROVE FALSE
      OBVIOUS
    <2>1. PICK j \in Bad : \A i \in Bad : j <= i
      BY LeastNumber
    <2>2. j \in Nat /\ j <= n /\ s[j] # g[j]
      OBVIOUS
    <2>3. CASE j = 0
      BY <1>1, <1>3, <2>2, <2>3 DEF PartialSums
    <2>4. CASE j # 0
      <3>1. j - 1 \in Nat /\ j - 1 <= n /\ j - 1 < j /\ j \in 1..n /\ j \in 0..n
        BY <2>2, <2>4
      <3>2. s[j - 1] = g[j - 1]
        BY <2>1, <2>2, <3>1
      <3>3. s[j] = s[j - 1] + f[j]
        BY SMTT(60), <1>3, <2>4, <3>1
      <3>4. g[j] = g[j - 1] + f[j]
        BY <1>1, <3>1 DEF PartialSums
      <3> QED
        BY <2>2, <3>2, <3>3, <3>4
    <2> QED
      BY <2>3, <2>4
  <1>6. n \in 0..n
    OBVIOUS
  <1> QED
    BY <1>1, <1>4, <1>5, <1>6

\* Induction up to n, on a set.
LEMMA UpTo ==
    ASSUME NEW n \in Nat, NEW T, 0 \in T, \A k \in 1..n : k - 1 \in T => k \in T
    PROVE  n \in T
  <1> DEFINE Bad == {k \in Nat : k <= n /\ k \notin T}
  <1> SUFFICES ASSUME n \in Bad PROVE FALSE
    OBVIOUS
  <1>1. PICK k \in Bad : \A j \in Bad : k <= j
    BY LeastNumber
  <1>2. k \in Nat /\ k <= n /\ k \notin T
    OBVIOUS
  <1>3. k # 0
    BY <1>2
  <1>4. k \in 1..n /\ k - 1 \in Nat /\ k - 1 <= n /\ k - 1 < k
    BY <1>2, <1>3
  <1>5. k - 1 \in T
    BY <1>1, <1>2, <1>4
  <1> QED
    BY <1>2, <1>4, <1>5

\* e is the sum of f and h, member by member.
Summed(n, f, h, e) == \A k \in 1..n : f[k] \in Int /\ h[k] \in Int /\ e[k] = f[k] + h[k]

LEMMA TotalAdd ==
    ASSUME NEW n \in Nat, n = Len(Weight), NEW f, NEW h, NEW e, Summed(n, f, h, e)
    PROVE  Total(f) \in Int /\ Total(h) \in Int /\ Total(e) = Total(f) + Total(h)
  <1> USE DEF Summed
  <1>1. PICK F : PartialSums(f, n, F) /\ Total(f) = F[n]
    BY SMTT(60), TotalIsLast
  <1>2. PICK H : PartialSums(h, n, H) /\ Total(h) = H[n]
    BY TotalIsLast
  <1>3. PICK E : PartialSums(e, n, E) /\ Total(e) = E[n]
    <2>1. \A k \in 1..n : e[k] \in Int
      OBVIOUS
    <2> QED
      BY <2>1, TotalIsLast
  <1> DEFINE T == {k \in 0..n : E[k] = F[k] + H[k]}
  <1>4. 0 \in T
    BY <1>1, <1>2, <1>3 DEF PartialSums
  <1>5. ASSUME NEW k \in 1..n, k - 1 \in T PROVE k \in T
    <2>1. k - 1 \in 0..n /\ k \in 0..n /\ E[k - 1] = F[k - 1] + H[k - 1]
      BY <1>5
    <2>2. E[k] = E[k - 1] + e[k] /\ F[k] = F[k - 1] + f[k] /\ H[k] = H[k - 1] + h[k]
      BY <1>1, <1>2, <1>3 DEF PartialSums
    <2>3. PICK u \in Int, v \in Int, x \in Int, y \in Int :
              u = F[k - 1] /\ v = H[k - 1] /\ x = f[k] /\ y = h[k]
      BY <1>1, <1>2, <2>1 DEF PartialSums
    <2>4. E[k] = (u + v) + (x + y) /\ F[k] = u + x /\ H[k] = v + y
      BY <2>1, <2>2, <2>3
    <2>5. (u + v) + (x + y) = (u + x) + (v + y)
      OBVIOUS
    <2> QED
      BY <2>1, <2>4, <2>5
  <1> HIDE DEF T
  <1>6. n \in T
    BY <1>4, <1>5, UpTo
  <1>7. n \in 0..n
    OBVIOUS
  <1> QED
    BY <1>1, <1>2, <1>3, <1>6, <1>7 DEF T, PartialSums

LEMMA TotalLe ==
    ASSUME NEW n \in Nat, n = Len(Weight), NEW f, NEW h,
           \A k \in 1..n : f[k] \in Int /\ h[k] \in Int /\ f[k] <= h[k]
    PROVE  Total(f) \in Int /\ Total(h) \in Int /\ Total(f) <= Total(h)
  <1>1. PICK F : PartialSums(f, n, F) /\ Total(f) = F[n]
    BY TotalIsLast
  <1>2. PICK H : PartialSums(h, n, H) /\ Total(h) = H[n]
    BY TotalIsLast
  <1> DEFINE T == {k \in 0..n : F[k] <= H[k]}
  <1>3. 0 \in T
    BY <1>1, <1>2 DEF PartialSums
  <1>4. ASSUME NEW k \in 1..n, k - 1 \in T PROVE k \in T
    <2>1. k - 1 \in 0..n /\ k \in 0..n /\ F[k - 1] <= H[k - 1]
      BY <1>4
    <2>2. F[k] = F[k - 1] + f[k] /\ H[k] = H[k - 1] + h[k]
      BY <1>1, <1>2 DEF PartialSums
    <2>3. PICK u \in Int, v \in Int, x \in Int, y \in Int :
              u = F[k - 1] /\ v = H[k - 1] /\ x = f[k] /\ y = h[k]
      BY <1>1, <1>2, <2>1 DEF PartialSums
    <2>4. F[k] = u + x /\ H[k] = v + y /\ u <= v /\ x <= y
      BY <2>1, <2>2, <2>3
    <2>5. u + x <= v + y
      BY <2>4
    <2> QED
      BY <2>1, <2>4, <2>5
  <1> HIDE DEF T
  <1>5. n \in T
    BY <1>3, <1>4, UpTo
  <1>6. n \in 0..n
    OBVIOUS
  <1> QED
    BY <1>1, <1>2, <1>5, <1>6 DEF T, PartialSums

Scaled(n, c, f, h) == \A k \in 1..n : f[k] \in Int /\ h[k] = c * f[k]

LEMMA TotalScale ==
    ASSUME NEW n \in Nat, n = Len(Weight), NEW f, NEW h, NEW c \in Int, Scaled(n, c, f, h)
    PROVE  Total(f) \in Int /\ Total(h) = c * Total(f)
  <1> USE DEF Scaled
  <1>1. PICK F : PartialSums(f, n, F) /\ Total(f) = F[n]
    BY TotalIsLast
  <1>2. PICK H : PartialSums(h, n, H) /\ Total(h) = H[n]
    <2>1. \A k \in 1..n : h[k] \in Int
      OBVIOUS
    <2> QED
      BY SMTT(60), <2>1, TotalIsLast
  <1> DEFINE T == {k \in 0..n : H[k] = c * F[k]}
  <1>3. 0 \in T
    BY <1>1, <1>2 DEF PartialSums
  <1>4. ASSUME NEW k \in 1..n, k - 1 \in T PROVE k \in T
    <2>1. k - 1 \in 0..n /\ k \in 0..n /\ H[k - 1] = c * F[k - 1]
      BY <1>4
    <2>2. F[k] = F[k - 1] + f[k] /\ H[k] = H[k - 1] + h[k]
      BY <1>1, <1>2 DEF PartialSums
    <2>3. PICK u \in Int, x \in Int : u = F[k - 1] /\ x = f[k]
      BY <1>1, <2>1 DEF PartialSums
    <2>4. F[k] = u + x /\ H[k] = c * u + c * x
      BY <2>1, <2>2, <2>3
    <2>5. c * u + c * x = c * (u + x)
      OBVIOUS
    <2> QED
      BY <2>1, <2>4, <2>5
  <1> HIDE DEF T
  <1>5. n \in T
    BY <1>3, <1>4, UpTo
  <1>6. n \in 0..n
    OBVIOUS
  <1> QED
    BY <1>1, <1>2, <1>5, <1>6 DEF T, PartialSums

\* A sum with one member that is not zero, and one of ones.
LEMMA TotalOne ==
    ASSUME NEW n \in Nat, n = Len(Weight), NEW f, NEW i \in 1..n, NEW v \in Int,
           \A k \in 1..n : f[k] = IF k = i THEN v ELSE 0
    PROVE  Total(f) = v
  <1>1. PICK F : PartialSums(f, n, F) /\ Total(f) = F[n]
    <2>1. \A k \in 1..n : f[k] \in Int
      OBVIOUS
    <2> QED
      BY <2>1, TotalIsLast
  <1> DEFINE T == {k \in 0..n : F[k] = IF k < i THEN 0 ELSE v}
  <1>2. 0 \in T
    BY <1>1 DEF PartialSums
  <1>3. ASSUME NEW k \in 1..n, k - 1 \in T PROVE k \in T
    <2>1. k - 1 \in 0..n /\ k \in 0..n /\ F[k - 1] = IF k - 1 < i THEN 0 ELSE v
      BY <1>3
    <2>2. F[k] = F[k - 1] + f[k] /\ f[k] = IF k = i THEN v ELSE 0
      BY <1>1 DEF PartialSums
    <2> QED
      BY <2>1, <2>2
  <1> HIDE DEF T
  <1>4. n \in T
    BY <1>2, <1>3, UpTo
  <1> QED
    BY <1>1, <1>4 DEF T

LEMMA TotalOnes ==
    ASSUME NEW n \in Nat, n = Len(Weight), NEW f, \A k \in 1..n : f[k] = 1
    PROVE  Total(f) = n
  <1>1. PICK F : PartialSums(f, n, F) /\ Total(f) = F[n]
    <2>1. \A k \in 1..n : f[k] \in Int
      OBVIOUS
    <2> QED
      BY <2>1, TotalIsLast
  <1> DEFINE T == {k \in 0..n : F[k] = k}
  <1>2. 0 \in T
    BY <1>1 DEF PartialSums
  <1>3. ASSUME NEW k \in 1..n, k - 1 \in T PROVE k \in T
    BY <1>1, <1>3 DEF PartialSums
  <1> HIDE DEF T
  <1>4. n \in T
    BY <1>2, <1>3, UpTo
  <1> QED
    BY <1>1, <1>4 DEF T

\* The sum of f over some of the replicas, and how many they are.
On(f, S) == [k \in Replicas |-> IF k \in S THEN f[k] ELSE 0]
Part(f, S) == Total(On(f, S))
Size(S) == Part([k \in Replicas |-> 1], S)

LEMMA ReplicaFacts ==
    \E n \in Nat : n = Len(Weight) /\ n > 0 /\ Replicas = 1..n /\ \A k \in 1..n : Weight[k] \in Nat \ {0}
  BY RouterAssumption DEF Replicas

LEMMA PartUnion ==
    ASSUME NEW f \in [Replicas -> Int], NEW S, NEW U, S \cap U = {}
    PROVE  Part(f, S) \in Int /\ Part(f, U) \in Int /\ Part(f, S \cup U) = Part(f, S) + Part(f, U)
  <1>1. PICK n \in Nat : n = Len(Weight) /\ Replicas = 1..n
    BY ReplicaFacts
  <1>2. \A k \in 1..n : /\ On(f, S)[k] \in Int /\ On(f, U)[k] \in Int
                        /\ On(f, S \cup U)[k] = On(f, S)[k] + On(f, U)[k]
    BY <1>1 DEF On
  <1>3. PICK a, b, c : a = On(f, S) /\ b = On(f, U) /\ c = On(f, S \cup U)
    OBVIOUS
  <1>4. Summed(n, a, b, c)
    BY <1>2, <1>3 DEF Summed
  <1>5. n = Len(Weight)
    BY <1>1
  <1>6. Total(a) \in Int /\ Total(b) \in Int /\ Total(c) = Total(a) + Total(b)
    BY <1>4, <1>5, TotalAdd
  <1> QED
    BY <1>3, <1>6 DEF Part

Adds(e, f, h) == \A k \in Replicas : e[k] = f[k] + h[k]

LEMMA PartAdd ==
    ASSUME NEW f \in [Replicas -> Int], NEW h \in [Replicas -> Int], NEW e \in [Replicas -> Int],
           NEW S, Adds(e, f, h)
    PROVE  Part(f, S) \in Int /\ Part(h, S) \in Int /\ Part(e, S) = Part(f, S) + Part(h, S)
  <1>1. PICK n \in Nat : n = Len(Weight) /\ Replicas = 1..n
    BY ReplicaFacts
  <1>2. \A k \in 1..n : /\ On(f, S)[k] \in Int /\ On(h, S)[k] \in Int
                        /\ On(e, S)[k] = On(f, S)[k] + On(h, S)[k]
    BY <1>1 DEF On, Adds
  <1>3. PICK a, b, c : a = On(f, S) /\ b = On(h, S) /\ c = On(e, S)
    OBVIOUS
  <1>4. Summed(n, a, b, c)
    BY <1>2, <1>3 DEF Summed
  <1>5. n = Len(Weight)
    BY <1>1
  <1>6. Total(a) \in Int /\ Total(b) \in Int /\ Total(c) = Total(a) + Total(b)
    BY <1>4, <1>5, TotalAdd
  <1> QED
    BY <1>3, <1>6 DEF Part

LEMMA PartLe ==
    ASSUME NEW f \in [Replicas -> Int], NEW h \in [Replicas -> Int], NEW S,
           \A k \in Replicas : k \in S => f[k] <= h[k]
    PROVE  Part(f, S) \in Int /\ Part(h, S) \in Int /\ Part(f, S) <= Part(h, S)
  <1>1. PICK n \in Nat : n = Len(Weight) /\ Replicas = 1..n
    BY ReplicaFacts
  <1>2. \A k \in 1..n : On(f, S)[k] \in Int /\ On(h, S)[k] \in Int /\ On(f, S)[k] <= On(h, S)[k]
    BY <1>1 DEF On
  <1> QED
    BY <1>1, <1>2, TotalLe DEF Part

LEMMA PartSingle ==
    ASSUME NEW f \in [Replicas -> Int], NEW i \in Replicas PROVE Part(f, {i}) = f[i]
  <1>1. PICK n \in Nat : n = Len(Weight) /\ Replicas = 1..n
    BY ReplicaFacts
  <1>2. \A k \in 1..n : On(f, {i})[k] = IF k = i THEN f[i] ELSE 0
    BY <1>1 DEF On
  <1>3. i \in 1..n /\ f[i] \in Int
    BY <1>1
  <1> QED
    BY <1>1, <1>2, <1>3, TotalOne DEF Part

\* A sum of equal members.
LEMMA PartEqual ==
    ASSUME NEW c \in Int, NEW S
    PROVE  Size(S) \in Int /\ Part([k \in Replicas |-> c], S) = c * Size(S)
  <1>1. PICK n \in Nat : n = Len(Weight) /\ Replicas = 1..n
    BY ReplicaFacts
  <1> DEFINE f == On([k \in Replicas |-> 1], S)
             h == On([k \in Replicas |-> c], S)
  <1>2. Scaled(n, c, f, h)
    BY <1>1 DEF On, Scaled
  <1> HIDE DEF f, h
  <1>3. Total(f) \in Int /\ Total(h) = c * Total(f)
    BY <1>1, <1>2, TotalScale
  <1> QED
    BY <1>3 DEF f, h, Part, Size

LEMMA SizeFacts ==
    ASSUME NEW S, NEW U, S \subseteq U
    PROVE  Size(S) \in Nat /\ Size(U) \in Nat /\ Size(S) <= Size(U) /\ Size({}) = 0
  <1>1. PICK n \in Nat : n = Len(Weight) /\ Replicas = 1..n
    BY ReplicaFacts
  <1> DEFINE One == [k \in Replicas |-> 1]
             z == On(One, {})
             f == On(One, S)
             h == On(One, U)
  <1>2. \A k \in 1..n : z[k] = 0 * z[k] /\ z[k] \in Int /\ f[k] \in Int /\ h[k] \in Int
                        /\ z[k] <= f[k] /\ f[k] <= h[k]
    BY <1>1 DEF On
  <1> HIDE DEF z, f, h
  <1>3. Total(z) \in Int /\ Total(z) = 0 * Total(z)
    <2>1. Scaled(n, 0, z, z)
      BY <1>2 DEF Scaled
    <2> QED
      BY <1>1, <2>1, TotalScale
  <1>4. Total(z) \in Int /\ Total(f) \in Int /\ Total(z) <= Total(f)
    BY <1>1, <1>2, TotalLe
  <1>5. Total(h) \in Int /\ Total(f) <= Total(h)
    BY <1>1, <1>2, TotalLe
  <1> QED
    BY <1>3, <1>4, <1>5 DEF z, f, h, Part, Size

LEMMA SizeOfAll == Size(Replicas) = Len(Weight)
  <1>1. PICK n \in Nat : n = Len(Weight) /\ Replicas = 1..n
    BY ReplicaFacts
  <1>2. \A k \in 1..n : On([k1 \in Replicas |-> 1], Replicas)[k] = 1
    BY <1>1 DEF On
  <1> QED
    BY <1>1, <1>2, TotalOnes DEF Size, Part

LEMMA SizeOfUnion ==
    ASSUME NEW S, NEW U, S \cap U = {}
    PROVE  Size(S \cup U) = Size(S) + Size(U)
  <1>1. [k \in Replicas |-> 1] \in [Replicas -> Int]
    OBVIOUS
  <1> QED
    BY <1>1, PartUnion DEF Size

LEMMA SizeOfOne == ASSUME NEW i \in Replicas PROVE Size({i}) = 1
  <1>1. [k \in Replicas |-> 1] \in [Replicas -> Int] /\ [k \in Replicas |-> 1][i] = 1
    OBVIOUS
  <1> QED
    BY <1>1, PartSingle DEF Size

\* The heaviest replica.
LEMMA HeaviestFacts ==
    Heaviest \in Nat /\ \A i \in Replicas : Weight[i] <= Heaviest
  <1>1. PICK n \in Nat : n = Len(Weight) /\ n > 0 /\ Replicas = 1..n
                         /\ \A k \in 1..n : Weight[k] \in Nat \ {0}
    BY ReplicaFacts
  <1>2. ASSUME NEW i \in 1..n PROVE Weight[i] <= Total(On(Weight, Replicas))
    <2>1. \A k \in 1..n : /\ On(Weight, {i})[k] \in Int /\ On(Weight, Replicas)[k] \in Int
                          /\ On(Weight, {i})[k] <= On(Weight, Replicas)[k]
                          /\ On(Weight, {i})[k] = IF k = i THEN Weight[i] ELSE 0
      BY <1>1 DEF On
    <2>2. Total(On(Weight, {i})) <= Total(On(Weight, Replicas))
      BY <1>1, <2>1, TotalLe
    <2>3. PICK v \in Int : v = Weight[i]
      BY <1>1
    <2>4. Total(On(Weight, {i})) = v
      <3>1. PICK f : f = On(Weight, {i})
        OBVIOUS
      <3>2. \A k \in 1..n : f[k] = IF k = i THEN v ELSE 0
        BY <2>1, <2>3, <3>1
      <3>3. n = Len(Weight)
        BY <1>1
      <3>4. Total(f) = v
        BY ZenonT(60), <3>2, <3>3, TotalOne
      <3> QED
        BY <3>1, <3>4
    <2> QED
      BY <2>2, <2>3, <2>4
  <1> DEFINE W == {Weight[i] : i \in Replicas}
             T == {b \in Nat : \A i \in 1..n : Weight[i] <= b}
  <1>3. T # {}
    <2>1. 1 \in 1..n /\ Total(On(Weight, Replicas)) \in Int
      <3>1. \A k \in 1..n : /\ On(Weight, Replicas)[k] \in Int
                            /\ On(Weight, Replicas)[k] <= On(Weight, Replicas)[k]
        BY <1>1 DEF On
      <3> QED
        BY SMTT(60), <1>1, <3>1, TotalLe
    <2>2. Total(On(Weight, Replicas)) \in Nat
      BY <1>1, <1>2, <2>1
    <2> QED
      BY <1>2, <2>2
  <1>4. PICK b \in T : \A c \in T : b <= c
    BY <1>3, LeastNumber
  <1>5. b \in Nat /\ \A i \in 1..n : Weight[i] <= b
    OBVIOUS
  <1>6. \E i \in 1..n : Weight[i] = b
    <2> SUFFICES ASSUME \A i \in 1..n : Weight[i] # b PROVE FALSE
      OBVIOUS
    <2>1. 1 \in 1..n
      BY <1>1
    <2>2. b - 1 \in Nat
      BY <1>1, <1>5, <2>1
    <2>3. ASSUME NEW i \in 1..n PROVE Weight[i] <= b - 1
      BY <1>1, <1>5
    <2>4. b - 1 \in T
      BY <2>2, <2>3
    <2> QED
      BY <1>4, <1>5, <2>4
  <1>7. b \in W /\ \A x \in W : b >= x
    BY <1>1, <1>5, <1>6
  <1>8. \E x \in W : \A y \in W : x >= y
    BY <1>7
  <1>9. Heaviest \in W /\ \A y \in W : Heaviest >= y
    BY <1>8 DEF Heaviest, Max
  <1> QED
    BY <1>1, <1>9

\* Sums of what is zero outside C, and of nothing.
LEMMA OnReplicas ==
    ASSUME NEW f \in [Replicas -> Int], NEW C PROVE On(f, C) \in [Replicas -> Int]
  BY DEF On

LEMMA PartWithin ==
    ASSUME NEW f \in [Replicas -> Int], NEW C, NEW S
    PROVE  Part(On(f, C), S) = Part(f, C \cap S)
  <1>1. On(On(f, C), S) = On(f, C \cap S)
    BY DEF On
  <1> QED
    BY <1>1 DEF Part

LEMMA PartOfNone == ASSUME NEW f \in [Replicas -> Int] PROVE Part(f, {}) = 0
  <1>1. {} \cap {} = {} /\ {} \cup {} = {}
    OBVIOUS
  <1>2. Part(f, {}) \in Int /\ Part(f, {} \cup {}) = Part(f, {}) + Part(f, {})
    BY <1>1, PartUnion
  <1>3. PICK x \in Int : x = Part(f, {})
    BY <1>2, Zenon
  <1>4. x = x + x
    BY <1>1, <1>2, <1>3, Zenon
  <1>5. x = 0
    BY <1>4
  <1> QED
    BY <1>3, <1>5, Zenon

LEMMA WeightFacts ==
    Weight \in [Replicas -> Int] /\ \A i \in Replicas : Weight[i] \in Nat /\ Weight[i] > 0
  BY RouterAssumption DEF Replicas

\* The first of the candidates of the highest rank.
LEMMA Highest ==
    ASSUME NEW r \in [Replicas -> Int], NEW C \in SUBSET Replicas, C # {}
    PROVE  LET i == Min({k \in C : \A j \in C : ~(r[j] > r[k])})
           IN i \in C /\ \A j \in C : r[j] <= r[i]
  <1>1. PICK n \in Nat : n = Len(Weight) /\ Replicas = 1..n
    BY ReplicaFacts
  <1> DEFINE T == {k \in 0..n : (\E j \in C : j <= k) =>
                                \E i \in C : i <= k /\ \A j \in C : j <= k => r[j] <= r[i]}
             B == {k \in C : \A j \in C : ~(r[j] > r[k])}
  <1>2. 0 \in T
    BY <1>1
  <1>3. ASSUME NEW k \in 1..n, k - 1 \in T PROVE k \in T
    <2>1. k \in 0..n /\ k \in Replicas /\ r[k] \in Int
      BY <1>1
    <2>2. \A j \in C : j \in Int /\ r[j] \in Int /\ (j <= k <=> (j <= k - 1 \/ j = k))
      BY <1>1
    <2>3. CASE k \notin C
      BY <1>3, <2>1, <2>2, <2>3
    <2>4. CASE k \in C /\ ~\E j \in C : j <= k - 1
      BY <2>1, <2>2, <2>4
    <2>5. CASE k \in C /\ \E j \in C : j <= k - 1
      <3>1. PICK i \in C : i <= k - 1 /\ \A j \in C : j <= k - 1 => r[j] <= r[i]
        BY <1>3, <2>5
      <3>2. CASE r[k] <= r[i]
        BY <2>1, <2>2, <3>1, <3>2
      <3>3. CASE ~(r[k] <= r[i])
        <4>1. \A j \in C : j <= k => r[j] <= r[k]
          BY <2>1, <2>2, <3>1, <3>3
        <4> QED
          BY <2>1, <2>5, <4>1
      <3> QED
        BY <3>2, <3>3
    <2> QED
      BY <2>3, <2>4, <2>5
  <1>4. n \in T
    <2> HIDE DEF T
    <2> QED
      BY <1>2, <1>3, UpTo
  <1>5. PICK i \in C : \A j \in C : r[j] <= r[i]
    <2>1. \A j \in C : j <= n
      BY <1>1
    <2>2. \E j \in C : j <= n
      BY <2>1
    <2>3. PICK i \in C : \A j \in C : j <= n => r[j] <= r[i]
      BY <1>4, <2>2
    <2> QED
      BY <2>1, <2>3
  <1>6. i \in B
    BY <1>5
  <1>7. B \subseteq Nat
    <2>1. 1..n \subseteq Nat
      OBVIOUS
    <2>2. C \subseteq 1..n
      BY <1>1
    <2> QED
      BY <2>1, <2>2
  <1>8. PICK b \in B : \A j \in B : b <= j
    <2> HIDE DEF B
    <2> QED
      BY <1>6, <1>7, LeastNumber
  <1>9. Min(B) \in B
    <2> HIDE DEF B
    <2> QED
      BY <1>8 DEF Min
  <1>10. \A j \in C : r[j] <= r[Min(B)]
    <2>1. PICK b1 \in B : b1 = Min(B)
      BY <1>9
    <2>2. \A j \in C : ~(r[j] > r[b1]) /\ r[j] \in Int /\ r[b1] \in Int
      OBVIOUS
    <2>3. \A j \in C : r[j] <= r[b1]
      BY <2>2
    <2> QED
      BY <2>1, <2>3
  <1> QED
    BY <1>9, <1>10

\* The arithmetic of a pick that passes over m of the k replicas of a set.
LEMMA Levelled ==
    ASSUME NEW M \in Int, NEW n \in Int, NEW k \in Int, NEW m \in Int, m >= 0,
           NEW x \in Int, NEW y \in Int, NEW u \in Int, NEW c \in Int, NEW w \in Int,
           x <= M * ((k - m) * (n - (k - m))), x + y + c <= M * ((k + 1) * (n - (k + 1))),
           y + u <= (c + w) * m, u <= M * m, w <= M
    PROVE  x + y + u <= M * (k * (n - k))
  <1>1. m * (x + y + c) <= m * (M * ((k + 1) * (n - (k + 1))))
    OBVIOUS
  <1>2. m * u <= m * (M * m) /\ m * w <= m * M
    OBVIOUS
  <1> DEFINE B == M * ((k - m) * (n - (k - m))) + m * (M * ((k + 1) * (n - (k + 1)))) + m * M + m * (M * m)
  <1>3. (1 + m) * (x + y + u) <= x + m * (x + y + c) + m * w + m * u
    <2>1. (1 + m) * (x + y + u) = x + (y + u) + m * (x + y + u)
      OBVIOUS
    <2>2. m * (x + y + u) = m * (x + y + c) + m * u - c * m
      OBVIOUS
    <2>3. (c + w) * m = c * m + m * w
      OBVIOUS
    <2> QED
      BY <2>1, <2>2, <2>3
  <1>4. x + m * (x + y + c) + m * w + m * u <= B
    BY <1>1, <1>2
  <1>5. B = (1 + m) * (M * (k * (n - k)))
    OBVIOUS
  <1>6. (1 + m) * (x + y + u) <= (1 + m) * (M * (k * (n - k)))
    BY <1>3, <1>4, <1>5
  <1> QED
    BY <1>6

\* What nextWRR makes of the credits c when it picks i out of C.
Given(c, C) == [k \in Replicas |-> IF k \in C THEN c[k] + Weight[k] ELSE c[k]]
Weighed(c, C, i) == [Given(c, C) EXCEPT ![i] = @ - TotalWeight(C)]

\* What the pick of i costs S, and what the candidates of S are given.
LEMMA PickCosts ==
    ASSUME NEW W \in Int, NEW i \in Replicas, NEW S
    PROVE  \E g \in [Replicas -> Int] :
              /\ \A k \in Replicas : g[k] = IF k = i THEN -W ELSE 0
              /\ i \in S => Part(g, S) = -W
              /\ i \notin S => Part(g, S) = 0
  <1>v. PICK v \in Int : v = -W
    OBVIOUS
  <1>1. PICK f \in [Replicas -> Int] : f = [k \in Replicas |-> v]
    OBVIOUS
  <1>2. f[i] = v
    BY <1>1
  <1>3. PICK U : U = {i}
    OBVIOUS
  <1>4. PICK g : g = On(f, U)
    OBVIOUS
  <1>5. g \in [Replicas -> Int]
    BY <1>4, OnReplicas
  <1>6. Part(g, S) = Part(f, U \cap S)
    BY <1>4, PartWithin
  <1>7. \A k \in Replicas : g[k] = IF k = i THEN -W ELSE 0
    BY <1>v, <1>1, <1>3, <1>4 DEF On
  <1>8. (i \in S => U \cap S = {i}) /\ (i \notin S => U \cap S = {})
    BY <1>3
  <1>9. Part(f, {i}) = v /\ Part(f, {}) = 0
    BY <1>2, PartSingle, PartOfNone
  <1>10. (i \in S => Part(g, S) = -W) /\ (i \notin S => Part(g, S) = 0)
    BY <1>v, <1>6, <1>8, <1>9
  <1> QED
    BY <1>5, <1>7, <1>10

LEMMA PickRaises ==
    ASSUME NEW c \in [Replicas -> Int], NEW C \in SUBSET Replicas, NEW S, NEW e, e = Given(c, C)
    PROVE  /\ e \in [Replicas -> Int] /\ Part(c, S) \in Int /\ Part(Weight, C \cap S) \in Int
           /\ Part(e, S) = Part(c, S) + Part(Weight, C \cap S)
  <1>1. \A k \in Replicas : c[k] \in Int /\ Weight[k] \in Int
    BY WeightFacts
  <1>2. PICK g : g = On(Weight, C)
    OBVIOUS
  <1>3. g \in [Replicas -> Int] /\ Part(g, S) = Part(Weight, C \cap S)
    <2>1. g \in [Replicas -> Int]
      BY <1>2, WeightFacts, OnReplicas
    <2>2. Part(g, S) = Part(Weight, C \cap S)
      BY <1>2, WeightFacts, PartWithin
    <2> QED
      BY <2>1, <2>2
  <1>4. \A k \in Replicas : g[k] = IF k \in C THEN Weight[k] ELSE 0
    BY <1>2 DEF On
  <1>6. e \in [Replicas -> Int] /\ Adds(e, c, g)
    BY <1>1, <1>4 DEF Adds, Given
  <1>7. Part(c, S) \in Int /\ Part(g, S) \in Int /\ Part(e, S) = Part(c, S) + Part(g, S)
    BY <1>3, <1>6, PartAdd
  <1> QED
    BY <1>3, <1>6, <1>7

\* The sum of the credits of S after the pick.
LEMMA PickMoves ==
    ASSUME NEW c \in [Replicas -> Int], NEW C \in SUBSET Replicas, NEW i \in C, NEW S
    PROVE  /\ Weighed(c, C, i) \in [Replicas -> Int]
           /\ Part(c, S) \in Int /\ Part(Weight, C \cap S) \in Int /\ Part(Weight, C) \in Int
           /\ i \in S => Part(Weighed(c, C, i), S)
                           = Part(c, S) + Part(Weight, C \cap S) - Part(Weight, C)
           /\ i \notin S => Part(Weighed(c, C, i), S) = Part(c, S) + Part(Weight, C \cap S)
  <1>1. TotalWeight(C) = Part(Weight, C)
    BY DEF TotalWeight, Part, On
  <1>2. Part(Weight, C) \in Int
    BY WeightFacts, PartLe
  <1>3. PICK W \in Int : W = Part(Weight, C)
    BY <1>2
  <1>e. PICK e : e = Given(c, C)
    OBVIOUS
  <1>4. /\ e \in [Replicas -> Int] /\ Part(c, S) \in Int /\ Part(Weight, C \cap S) \in Int
        /\ Part(e, S) = Part(c, S) + Part(Weight, C \cap S)
    BY <1>e, PickRaises
  <1>5. i \in Replicas
    OBVIOUS
  <1>6. PICK g \in [Replicas -> Int] :
              /\ \A k \in Replicas : g[k] = IF k = i THEN -W ELSE 0
              /\ i \in S => Part(g, S) = -W
              /\ i \notin S => Part(g, S) = 0
    BY <1>5, PickCosts
  <1>7. PICK d : d = Weighed(c, C, i)
    OBVIOUS
  <1>8. d = [e EXCEPT ![i] = e[i] - W]
    BY <1>1, <1>3, <1>e, <1>7 DEF Weighed
  <1>9. d \in [Replicas -> Int] /\ Adds(d, e, g)
    BY <1>4, <1>5, <1>6, <1>8 DEF Adds
  <1>10. Part(e, S) \in Int /\ Part(g, S) \in Int /\ Part(d, S) = Part(e, S) + Part(g, S)
    BY <1>4, <1>6, <1>9, PartAdd
  <1> QED
    BY <1>3, <1>4, <1>6, <1>7, <1>9, <1>10

\* The credits of the replicas add up to nothing, and no set of them has more
\* than its size and the size of the rest, multiplied, allow.
Balanced(c) ==
    /\ c \in [Replicas -> Int]
    /\ Part(c, Replicas) = 0
    /\ \A S \in SUBSET Replicas :
          Part(c, S) <= Heaviest * (Size(S) * (Len(Weight) - Size(S)))

\* What a pick does to the credits of a set with the pick, and of one without.
LEMMA PickInside ==
    ASSUME NEW c \in [Replicas -> Int], NEW C \in SUBSET Replicas, NEW i \in C, NEW S, i \in S
    PROVE  /\ Part(c, S) \in Int /\ Part(Weight, C \cap S) \in Int /\ Part(Weight, C) \in Int
           /\ Part(Weighed(c, C, i), S)
                 = Part(c, S) + Part(Weight, C \cap S) - Part(Weight, C)
  BY PickMoves, SMTT(60)

LEMMA PickOutside ==
    ASSUME NEW c \in [Replicas -> Int], NEW C \in SUBSET Replicas, NEW i \in C, NEW S, i \notin S
    PROVE  Part(Weighed(c, C, i), S) = Part(c, S) + Part(Weight, C \cap S)
  BY PickMoves, SMTT(60)

\* What a balanced set of credits allows one replica, up and down.
LEMMA BalancedOne ==
    ASSUME NEW c, Balanced(c), NEW i \in Replicas
    PROVE  \E b \in Int : /\ b = Heaviest * (Len(Weight) - 1)
                          /\ c[i] \in Int /\ c[i] <= b /\ -b <= c[i]
  <1>1. PICK n \in Nat : n = Len(Weight)
    BY ReplicaFacts
  <1>2. PICK M \in Nat : M = Heaviest
    BY HeaviestFacts
  <1>3. PICK U, R : U = {i} /\ R = Replicas \ {i}
    OBVIOUS
  <1>4. U \cap R = {} /\ U \cup R = Replicas /\ U \in SUBSET Replicas /\ R \in SUBSET Replicas
    BY <1>3
  <1>5. c \in [Replicas -> Int] /\ Part(c, Replicas) = 0
    BY DEF Balanced
  <1>6. Size(U) = 1 /\ Size(Replicas) = n
    BY <1>1, <1>3, SizeOfOne, SizeOfAll
  <1>7. Size(U \cup R) = Size(U) + Size(R)
    BY <1>4, SizeOfUnion
  <1>8. Size(R) \in Nat
    BY SizeFacts
  <1>9. Size(R) = n - 1
    BY <1>4, <1>6, <1>7, <1>8
  <1>10. Part(c, U) = c[i] /\ c[i] \in Int
    BY <1>3, <1>5, PartSingle
  <1>11. Part(c, R) \in Int /\ Part(c, U \cup R) = Part(c, U) + Part(c, R)
    BY <1>4, <1>5, PartUnion
  <1>12. Part(c, U) <= M * (1 * (n - 1))
    BY <1>1, <1>2, <1>4, <1>6 DEF Balanced
  <1>13. Part(c, R) <= M * ((n - 1) * (n - (n - 1)))
    BY <1>1, <1>2, <1>4, <1>9 DEF Balanced
  <1>14. M * (1 * (n - 1)) = M * (n - 1) /\ M * ((n - 1) * (n - (n - 1))) = M * (n - 1)
    OBVIOUS
  <1>15. PICK b \in Int : b = M * (n - 1)
    OBVIOUS
  <1>16. PICK x \in Int, y \in Int : x = c[i] /\ y = Part(c, R) /\ x <= b /\ y <= b /\ x + y = 0
    BY <1>4, <1>5, <1>10, <1>11, <1>12, <1>13, <1>14, <1>15
  <1>17. x <= b /\ -b <= x
    BY <1>16
  <1> QED
    BY <1>1, <1>2, <1>15, <1>16, <1>17

\* The candidates of S are below the pick.
LEMMA BelowThePick ==
    ASSUME NEW c \in [Replicas -> Int], NEW J \in SUBSET Replicas, NEW a \in Int,
           \A j \in J : c[j] + Weight[j] <= a
    PROVE  /\ Part(c, J) \in Int /\ Part(Weight, J) \in Int
           /\ Part(c, J) + Part(Weight, J) <= a * Size(J)
  <1>1. \A k \in Replicas : c[k] \in Int /\ Weight[k] \in Int
    BY WeightFacts
  <1>2. PICK e : e = [k \in Replicas |-> c[k] + Weight[k]]
    OBVIOUS
  <1>3. e \in [Replicas -> Int] /\ Adds(e, c, Weight) /\ \A k \in Replicas : k \in J => e[k] <= a
    BY <1>1, <1>2 DEF Adds
  <1>4. PICK f : f = [k \in Replicas |-> a]
    OBVIOUS
  <1>5. f \in [Replicas -> Int] /\ \A k \in Replicas : k \in J => e[k] <= f[k]
    BY <1>3, <1>4
  <1>6. /\ Part(c, J) \in Int /\ Part(Weight, J) \in Int
        /\ Part(e, J) = Part(c, J) + Part(Weight, J)
    BY <1>3, WeightFacts, PartAdd
  <1>7. Part(e, J) <= Part(f, J)
    BY <1>3, <1>5, PartLe
  <1>8. Part(f, J) = a * Size(J)
    BY <1>4, PartEqual
  <1> QED
    BY <1>6, <1>7, <1>8

\* They are given no more than the heaviest each.
LEMMA GivenAtMost ==
    ASSUME NEW J \in SUBSET Replicas
    PROVE  Part(Weight, J) \in Int /\ Part(Weight, J) <= Heaviest * Size(J)
  <1>1. PICK M \in Int : M = Heaviest /\ \A k \in Replicas : Weight[k] <= M
    BY HeaviestFacts
  <1>2. PICK f : f = [k \in Replicas |-> M]
    OBVIOUS
  <1>3. f \in [Replicas -> Int] /\ \A k \in Replicas : k \in J => Weight[k] <= f[k]
    BY <1>1, <1>2
  <1>4. Part(Weight, J) \in Int /\ Part(Weight, J) <= Part(f, J)
    BY <1>3, WeightFacts, PartLe
  <1>5. Part(f, J) = M * Size(J)
    BY <1>2, PartEqual
  <1> QED
    BY <1>1, <1>4, <1>5

\* A set with the pick in it loses at least what it is given.
LEMMA GivenWithin ==
    ASSUME NEW C \in SUBSET Replicas, NEW S
    PROVE  /\ Part(Weight, C \cap S) \in Int /\ Part(Weight, C) \in Int
           /\ Part(Weight, C \cap S) <= Part(Weight, C)
  <1>1. PICK J, R : J = C \cap S /\ R = C \ S
    OBVIOUS
  <1>2. J \cap R = {} /\ J \cup R = C
    BY <1>1
  <1>3. /\ Part(Weight, J) \in Int /\ Part(Weight, R) \in Int
        /\ Part(Weight, J \cup R) = Part(Weight, J) + Part(Weight, R)
    BY <1>2, WeightFacts, PartUnion
  <1>z. PICK z \in Int : z = 0
    OBVIOUS
  <1>4. PICK f : f = [k \in Replicas |-> z]
    OBVIOUS
  <1>5. f \in [Replicas -> Int] /\ \A k \in Replicas : k \in R => f[k] <= Weight[k]
    BY <1>z, <1>4, WeightFacts
  <1>6. Part(f, R) <= Part(Weight, R)
    BY <1>5, WeightFacts, PartLe
  <1>7. Size(R) \in Int /\ Part(f, R) = z * Size(R)
    BY <1>4, PartEqual
  <1>8. Part(f, R) = 0
    BY <1>z, <1>7
  <1>9. PICK x \in Int, y \in Int : x = Part(Weight, J) /\ y = Part(Weight, R) /\ y >= 0
    BY <1>3, <1>6, <1>8
  <1>10. Part(Weight, C) = x + y
    BY <1>2, <1>3, <1>9
  <1>11. x + y \in Int /\ x <= x + y
    BY <1>9
  <1> QED
    BY <1>1, <1>9, <1>10, <1>11

\* A pick of the highest keeps the credits balanced.
LEMMA PickLevels ==
    ASSUME NEW c, Balanced(c), NEW C \in SUBSET Replicas, NEW i \in C,
           \A j \in C : c[j] + Weight[j] <= c[i] + Weight[i],
           NEW S \in SUBSET Replicas, i \notin S
    PROVE  Part(c, S) + Part(Weight, C \cap S)
             <= Heaviest * (Size(S) * (Len(Weight) - Size(S)))
  <1>1. PICK n \in Int : n = Len(Weight)
    BY SMTT(60), ReplicaFacts
  <1>2. PICK M \in Int : M = Heaviest /\ Weight[i] <= M
    BY HeaviestFacts
  <1>3. PICK J, R, U, V : J = C \cap S /\ R = S \ C /\ U = {i} /\ V = S \cup {i}
    OBVIOUS
  <1>4. /\ J \in SUBSET Replicas /\ R \in SUBSET Replicas /\ V \in SUBSET Replicas
        /\ R \cap J = {} /\ R \cup J = S /\ S \cap U = {} /\ S \cup U = V
    BY <1>3
  <1>5. PICK ci \in Int, wi \in Int : ci = c[i] /\ wi = Weight[i]
    BY WeightFacts DEF Balanced
  <1>6. c \in [Replicas -> Int]
    BY DEF Balanced
  <1>7. PICK m \in Int, r \in Int, k \in Int :
            m = Size(J) /\ r = Size(R) /\ k = Size(S) /\ m >= 0
    BY SizeFacts
  <1>8. Size(R \cup J) = Size(R) + Size(J)
    BY <1>4, SizeOfUnion
  <1>9. r = k - m
    <2>1. k = r + m
      <3>1. R \cup J = S
        BY <1>4
      <3>2. Size(S) = Size(R) + Size(J)
        BY <1>8, <3>1, Zenon
      <3> QED
        BY <1>7, <3>2
    <2> QED
      BY <2>1
  <1>10. Size(S \cup U) = Size(S) + Size(U) /\ Size(U) = 1
    BY <1>3, <1>4, SizeOfUnion, SizeOfOne
  <1>11. Size(V) = k + 1
    BY <1>4, <1>7, <1>10
  <1>12. PICK x \in Int, y \in Int : x = Part(c, R) /\ y = Part(c, J) /\ Part(c, S) = x + y
    <2>1. /\ Part(c, R) \in Int /\ Part(c, J) \in Int
          /\ Part(c, R \cup J) = Part(c, R) + Part(c, J)
      BY <1>4, <1>6, PartUnion
    <2> QED
      BY <1>4, <2>1
  <1>13. Part(c, V) = x + y + ci
    <2>1. Part(c, S \cup U) = Part(c, S) + Part(c, U)
      BY <1>4, <1>6, PartUnion
    <2>2. Part(c, U) = ci
      BY <1>3, <1>5, <1>6, PartSingle
    <2> QED
      BY <1>4, <1>12, <2>1, <2>2
  <1>14. x <= M * ((k - m) * (n - (k - m)))
    BY <1>1, <1>2, <1>4, <1>7, <1>9, <1>12 DEF Balanced
  <1>15. x + y + ci <= M * ((k + 1) * (n - (k + 1)))
    BY <1>1, <1>2, <1>4, <1>11, <1>13 DEF Balanced
  <1>16. PICK u \in Int : u = Part(Weight, J) /\ u <= M * m
    BY <1>2, <1>4, <1>7, GivenAtMost
  <1>17. y + u <= (ci + wi) * m
    <2>1. PICK a \in Int : a = ci + wi
      OBVIOUS
    <2>2. \A j \in J : c[j] + Weight[j] <= a
      BY <1>3, <1>5, <2>1
    <2>3. Part(c, J) + Part(Weight, J) <= a * Size(J)
      BY <1>4, <1>6, <2>2, BelowThePick
    <2> QED
      BY <1>7, <1>12, <1>16, <2>1, <2>3
  <1>18. wi <= M /\ m >= 0 /\ u <= M * m
    BY <1>2, <1>5, <1>7, <1>16
  <1>19. x + y + u <= M * (k * (n - k))
    BY <1>14, <1>15, <1>17, <1>18, Levelled
  <1> QED
    BY <1>1, <1>2, <1>3, <1>7, <1>12, <1>16, <1>19

LEMMA PickBalances ==
    ASSUME NEW c, Balanced(c), NEW C \in SUBSET Replicas, NEW i \in C,
           \A j \in C : c[j] + Weight[j] <= c[i] + Weight[i]
    PROVE  Balanced(Weighed(c, C, i))
  <1>1. PICK d : d = Weighed(c, C, i)
    OBVIOUS
  <1>2. c \in [Replicas -> Int] /\ Part(c, Replicas) = 0
    BY DEF Balanced
  <1>3. d \in [Replicas -> Int]
    BY <1>1, <1>2, PickMoves
  <1>4. Part(d, Replicas) = 0
    <2>1. C \cap Replicas = C /\ i \in Replicas
      OBVIOUS
    <2>2. /\ Part(Weight, C) \in Int
          /\ Part(d, Replicas) = Part(c, Replicas) + Part(Weight, C \cap Replicas) - Part(Weight, C)
      BY <1>1, <1>2, <2>1, PickMoves
    <2>3. PICK W \in Int : W = Part(Weight, C) /\ W = Part(Weight, C \cap Replicas)
      BY <2>1, <2>2, Zenon
    <2>4. Part(d, Replicas) = 0 + W - W
      BY <1>2, <2>2, <2>3
    <2> QED
      BY <2>4
  <1>5. ASSUME NEW S \in SUBSET Replicas
        PROVE  Part(d, S) <= Heaviest * (Size(S) * (Len(Weight) - Size(S)))
    <2>1. CASE i \in S
      <3>1. /\ Part(c, S) \in Int /\ Part(Weight, C \cap S) \in Int /\ Part(Weight, C) \in Int
            /\ Part(d, S) = Part(c, S) + Part(Weight, C \cap S) - Part(Weight, C)
        BY ZenonT(60), <1>1, <1>2, <2>1, PickInside
      <3>2. Part(Weight, C \cap S) <= Part(Weight, C)
        BY GivenWithin
      <3>3. PICK B \in Int : B = Heaviest * (Size(S) * (Len(Weight) - Size(S)))
        BY HeaviestFacts, SizeFacts, ReplicaFacts
      <3>4. Part(c, S) <= B
        BY <3>3 DEF Balanced
      <3>5. Part(d, S) <= B
        BY <3>1, <3>2, <3>4
      <3> QED
        BY <3>3, <3>5
    <2>2. CASE i \notin S
      <3>1. Part(d, S) = Part(c, S) + Part(Weight, C \cap S)
        BY <1>1, <1>2, <2>2, PickOutside
      <3>2. Part(c, S) + Part(Weight, C \cap S)
               <= Heaviest * (Size(S) * (Len(Weight) - Size(S)))
        BY <2>2, PickLevels
      <3> QED
        BY <3>1, <3>2
    <2> QED
      BY <2>1, <2>2
  <1>6. Balanced(d)
    BY <1>3, <1>4, <1>5 DEF Balanced
  <1> QED
    BY <1>1, <1>6

\* A replica that was passed over has as much credit as its weight times the
\* picks, counted from the deepest debt.
Credited ==
    \A i \in Replicas : \E b \in Int :
        /\ b = Heaviest * (Len(Weight) - 1)
        /\ Weight[i] * skipped[i] <= current[i] + b

WeightInv ==
    /\ RingInv
    /\ Balanced(current)
    /\ strategy # "round-robin" => Credited

LEMMA WeightBalances == ASSUME WeightInv PROVE Balanced(current)
  BY DEF WeightInv

\* A pick of the weighted rotation.
LEMMA WeightedPicks ==
    ASSUME WeightInv, NEW a \in Attempts, PickWeighted(a), RingInv' PROVE WeightInv'
  <1>1. PICK c, C : c = current /\ C = cands[a]
    OBVIOUS
  <1>2. C \in SUBSET Replicas /\ C # {} /\ c \in [Replicas -> Int] /\ Balanced(c)
    BY <1>1 DEF WeightInv, RingInv, PickWeighted, Balanced
  <1>3. PICK i : i = NextWRR(C)
    OBVIOUS
  <1>4. PICK r : r = Given(c, C)
    OBVIOUS
  <1>5. r \in [Replicas -> Int] /\ \A j \in C : r[j] = c[j] + Weight[j]
    BY <1>2, <1>4, WeightFacts DEF Given
  <1>6. i \in C /\ \A j \in C : r[j] <= r[i]
    <2>1. r = Raised(C)
      BY <1>1, <1>4 DEF Raised, Given
    <2>2. i = Min({k \in C : \A j \in C : ~(r[j] > r[k])})
      BY <1>3, <2>1 DEF NextWRR, Best
    <2> QED
      BY <1>2, <1>5, <2>2, Highest
  <1>7. \A j \in C : c[j] + Weight[j] <= c[i] + Weight[i]
    BY <1>5, <1>6
  <1>8. PICK d : d = Weighed(c, C, i)
    OBVIOUS
  <1>9. Balanced(d)
    BY <1>2, <1>6, <1>7, <1>8, PickBalances
  <1>10. current' = d /\ skipped' = Passed(C, i)
    BY <1>1, <1>3, <1>8 DEF PickWeighted, Weighed, Given, Raised
  <1>11. Balanced(current)'
    BY <1>9, <1>10 DEF Balanced
  <1>12. strategy # "round-robin"
    BY DEF PickWeighted
  <1>13. ASSUME NEW j \in Replicas
         PROVE  \E b \in Int : /\ b = Heaviest * (Len(Weight) - 1)
                               /\ Weight[j] * skipped'[j] <= d[j] + b
    <2>1. PICK w \in Nat, s \in Nat : w = Weight[j] /\ s = skipped[j]
      BY WeightFacts DEF WeightInv, RingInv
    <2>2. CASE j \in C \ {i}
      <3>1. PICK b \in Int : b = Heaviest * (Len(Weight) - 1) /\ w * s <= c[j] + b
        BY <1>1, <1>12, <2>1 DEF WeightInv, Credited
      <3>2. PICK x \in Int : x = c[j]
        BY <1>2
      <3>3. d[j] = x + w
        BY <1>8, <2>1, <2>2, <3>2 DEF Weighed, Given
      <3>4. skipped'[j] = s + 1
        BY <1>10, <2>1, <2>2 DEF Passed
      <3>5. w * (s + 1) = w * s + w
        BY <2>1
      <3>6. w * (s + 1) <= (x + w) + b
        BY <3>1, <3>2, <3>5
      <3> QED
        BY <2>1, <3>1, <3>3, <3>4, <3>6
    <2>3. CASE j \notin C \ {i}
      <3>1. skipped'[j] = 0
        BY <1>10, <2>3 DEF Passed
      <3>2. PICK b \in Int : b = Heaviest * (Len(Weight) - 1) /\ d[j] \in Int /\ -b <= d[j]
        BY <1>9, BalancedOne
      <3>3. w * 0 <= d[j] + b
        BY SMTT(60), <2>1, <3>2
      <3> QED
        BY <2>1, <3>1, <3>2, <3>3
    <2> QED
      BY <2>2, <2>3
  <1>14. Credited'
    BY <1>10, <1>13 DEF Credited
  <1> QED
    BY <1>11, <1>14 DEF WeightInv

LEMMA WeightNext == WeightInv /\ [RouterNext]_routerVars => WeightInv'
  <1> SUFFICES ASSUME WeightInv, [RouterNext]_routerVars PROVE WeightInv'
    OBVIOUS
  <1>1. RingInv'
    BY RingNext DEF WeightInv
  <1>2. ASSUME UNCHANGED <<strategy, current, skipped>> PROVE WeightInv'
    <2>1. Balanced(current)'
      BY <1>2 DEF WeightInv, Balanced
    <2>2. Credited => Credited'
      BY <1>2 DEF Credited
    <2> QED
      BY <1>1, <1>2, <2>1, <2>2 DEF WeightInv
  <1>3. ASSUME NEW a \in Attempts, PickRing(a) PROVE WeightInv'
    <2>1. UNCHANGED <<strategy, current>> /\ strategy = "round-robin"
      BY <1>3 DEF PickRing, Send
    <2>2. Balanced(current)'
      BY <2>1 DEF WeightInv, Balanced
    <2> QED
      BY <1>1, <2>1, <2>2 DEF WeightInv
  <1>4. ASSUME NEW a \in Attempts, PickWeighted(a) PROVE WeightInv'
    BY <1>1, <1>4, WeightedPicks
  <1>5. ASSUME NEW a \in Attempts,
               Filter(a) \/ NoneEligible(a) \/ PickLoaded(a) \/ ConnectFails(a)
                 \/ Rejected(a) \/ Answered(a)
        PROVE  WeightInv'
    BY <1>2, <1>5
       DEF Filter, NoneEligible, PickLoaded, Send, ConnectFails, Rejected, Retry, Answered, rotation
  <1>6. ASSUME (\E i \in Replicas : OthersReport(i)) \/ HealthTick PROVE WeightInv'
    BY <1>2, <1>6 DEF OthersReport, HealthTick, rotation
  <1>7. CASE UNCHANGED routerVars
    BY <1>2, <1>7 DEF routerVars, rotation
  <1> QED
    BY <1>3, <1>4, <1>5, <1>6, <1>7 DEF RouterNext

(***************************************************************************)
(* No replica starves in either rotation, for any weights, any number of   *)
(* replicas and of concurrent requests, and whatever the candidates of the *)
(* picks are (Select, nextWRR): one that is a candidate of as many picks   *)
(* in a row as the ring is long, or as its weight takes to make up for the *)
(* deepest debt and the highest credit, has been picked.                   *)
(***************************************************************************)
THEOREM RotationIsFair == RouterSpec => []NoReplicaStarves
  <1>1. RouterInit => WeightInv
    <2> SUFFICES ASSUME RouterInit PROVE WeightInv
      OBVIOUS
    <2>1. RingInv
      BY RingInit
    <2>2. PICK z \in Int : z = 0
      OBVIOUS
    <2>3. PICK c \in [Replicas -> Int] : c = current /\ c = [i \in Replicas |-> z]
      BY <2>2 DEF RouterInit
    <2>4. ASSUME NEW S PROVE Part(c, S) = 0
      <3>1. Size(S) \in Int /\ Part(c, S) = z * Size(S)
        BY <2>3, PartEqual
      <3> QED
        BY <2>2, <3>1
    <2>5. ASSUME NEW S \in SUBSET Replicas
          PROVE  0 <= Heaviest * (Size(S) * (Len(Weight) - Size(S)))
      <3>1. PICK n \in Nat, k \in Nat, M \in Nat :
                n = Len(Weight) /\ k = Size(S) /\ M = Heaviest /\ k <= n
        <4>1. Size(S) \in Nat /\ Size(Replicas) \in Nat /\ Size(S) <= Size(Replicas)
          BY SizeFacts
        <4> QED
          BY <4>1, SizeOfAll, HeaviestFacts
      <3>2. k * (n - k) \in Nat
        BY <3>1
      <3>3. M * (k * (n - k)) >= 0
        BY <3>2
      <3> QED
        BY <3>1, <3>3
    <2>6. Balanced(current)
      BY <2>3, <2>4, <2>5 DEF Balanced
    <2>7. Credited
      <3> SUFFICES ASSUME NEW i \in Replicas
                   PROVE  \E b \in Int : /\ b = Heaviest * (Len(Weight) - 1)
                                         /\ Weight[i] * skipped[i] <= current[i] + b
        BY DEF Credited
      <3>1. PICK b \in Int : /\ b = Heaviest * (Len(Weight) - 1)
                             /\ current[i] \in Int /\ current[i] <= b /\ -b <= current[i]
        BY <2>6, BalancedOne
      <3>2. skipped[i] = 0 /\ Weight[i] \in Nat
        BY WeightFacts DEF RouterInit
      <3> QED
        BY <3>1, <3>2
    <2> QED
      BY <2>1, <2>6, <2>7 DEF WeightInv
  <1>2. WeightInv => NoReplicaStarves
    <2> SUFFICES ASSUME WeightInv, NEW i \in Replicas
                 PROVE  IF strategy = "round-robin" THEN skipped[i] < Len(Weight)
                        ELSE skipped[i] * Weight[i] <= 2 * (Len(Weight) - 1) * Heaviest
      BY DEF NoReplicaStarves
    <2>0. Balanced(current)
      BY WeightBalances
    <2>1. CASE strategy = "round-robin"
      BY <2>1, RingStarvesNone DEF WeightInv, NoReplicaStarves
    <2>2. CASE strategy # "round-robin"
      <3>1. PICK b \in Int : /\ b = Heaviest * (Len(Weight) - 1)
                             /\ current[i] \in Int /\ current[i] <= b /\ -b <= current[i]
        BY <2>0, BalancedOne, ZenonT(60)
      <3>2. PICK w \in Nat, s \in Nat, M \in Nat, n \in Nat :
                w = Weight[i] /\ s = skipped[i] /\ M = Heaviest /\ n = Len(Weight)
        BY WeightFacts, HeaviestFacts, ReplicaFacts DEF WeightInv, RingInv
      <3>3. w * s <= current[i] + b
        BY <2>2, <3>1, <3>2 DEF WeightInv, Credited
      <3>4. w * s <= b + b
        BY <3>1, <3>3
      <3>5. s * w = w * s /\ 2 * (n - 1) * M = M * (n - 1) + M * (n - 1)
        BY <3>2
      <3>6. s * w <= 2 * (n - 1) * M
        BY <3>1, <3>2, <3>4, <3>5
      <3> QED
        BY <2>2, <3>2, <3>6
    <2> QED
      BY <2>1, <2>2
  <1> QED
    BY <1>1, <1>2, WeightNext, PTL DEF RouterSpec
=============================================================================
