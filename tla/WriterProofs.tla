---------------------------- MODULE WriterProofs ----------------------------
(***************************************************************************)
(* Proofs about Writer, for any number of calls of Enqueue and any size of *)
(* the channel; that the writer in UsageLog, below the accounting and      *)
(* across a restart, takes only steps of Writer; and about what a restart  *)
(* counts, for every log and every tail window.                            *)
(***************************************************************************)
EXTENDS UsageLog, FiniteSetTheorems, SequenceTheorems, NaturalsInduction,
        WellFoundedInduction, TLAPS

-----------------------------------------------------------------------------
(* The inductive invariant.                                                *)

Injective(s) == \A i, j \in DOMAIN s : s[i] = s[j] => i = j
WriteT == [rec : Producers, whole : BOOLEAN]

Ended == {p \in Producers : pc[p] = "done"}
Logged == {file[i].rec : i \in DOMAIN file}

\* Where the records are: a record is in one place at most, only that of a
\* call that has ended is anywhere, and the counter has the others.
Records ==
    /\ pc \in [Producers -> {"new", "checked", "done"}]
    /\ q \in Seq(Producers) /\ Len(q) <= QueueSize /\ Injective(q)
    /\ cur \subseteq Producers /\ (cur = {} \/ \E p \in Producers : cur = {p})
    /\ file \in Seq(WriteT) /\ \A i, j \in DOMAIN file : file[i].rec = file[j].rec => i = j
    /\ ToSet(q) \cap cur = {} /\ ToSet(q) \cap Logged = {} /\ cur \cap Logged = {}
    /\ ToSet(q) \cup cur \cup Logged \subseteq Ended
    /\ dropped \in Nat
    /\ Cardinality(Ended) = Len(q) + Cardinality(cur) + Cardinality(Written) + dropped

\* How far Close and the consumer have got, and what they leave behind.
Stages ==
    /\ closed \in BOOLEAN /\ stop \in BOOLEAN /\ finalErr \in BOOLEAN
    /\ run \in {"select", "drain", "exited"}
    /\ close \in {"open", "marked", "stopped", "counting", "returned"}
    /\ synced \in 0..Len(file)
    /\ early \subseteq Ended /\ late \subseteq Producers
    /\ closed <=> close # "open"
    /\ stop => close \in {"stopped", "counting", "returned"}
    /\ run # "select" => stop
    /\ close \in {"counting", "returned"} => run = "exited"
    /\ run = "exited" => early \cap ToSet(q) = {}
    /\ run = "exited" /\ ~finalErr => synced = Len(file)
    /\ close = "returned" => /\ ToSet(q) \subseteq late
                             /\ \A p \in Producers : pc[p] = "checked" => p \in late

WriterInv == Records /\ Stages

-----------------------------------------------------------------------------
(* Sequences and sets.                                                     *)

\* One more element.
LEMMA AppendFacts ==
    ASSUME NEW T, NEW s \in Seq(T), NEW x \in T
    PROVE  /\ Append(s, x) \in Seq(T)
           /\ Len(s) \in Nat /\ Len(Append(s, x)) = Len(s) + 1
           /\ DOMAIN s = 1..Len(s) /\ DOMAIN Append(s, x) = 1..(Len(s) + 1)
           /\ \A i \in 1..Len(s) : Append(s, x)[i] = s[i] /\ i \in 1..(Len(s) + 1)
           /\ Append(s, x)[Len(s) + 1] = x /\ Len(s) + 1 \in 1..(Len(s) + 1)
           /\ \A i \in 1..(Len(s) + 1) : i \in 1..Len(s) \/ i = Len(s) + 1
  <1>1. Len(s) \in Nat /\ DOMAIN s = 1..Len(s)
    BY LenProperties
  <1>2. /\ Append(s, x) \in Seq(T) /\ Len(Append(s, x)) = Len(s) + 1
        /\ \A i \in 1..Len(s) : Append(s, x)[i] = s[i]
        /\ Append(s, x)[Len(s) + 1] = x
    BY AppendProperties
  <1>3. DOMAIN Append(s, x) = 1..(Len(s) + 1)
    BY <1>2, LenProperties
  <1> QED
    BY <1>1, <1>2, <1>3

\* A record enters the channel.
LEMMA SendFacts ==
    ASSUME NEW T, NEW s \in Seq(T), NEW x \in T, Injective(s), x \notin ToSet(s)
    PROVE  ToSet(Append(s, x)) = ToSet(s) \cup {x} /\ Injective(Append(s, x))
  <1> DEFINE t == Append(s, x)
             n == Len(s) + 1
  <1>1. /\ DOMAIN s = 1..Len(s) /\ DOMAIN t = 1..n
        /\ \A i \in 1..Len(s) : t[i] = s[i] /\ i \in 1..n
        /\ t[n] = x /\ n \in 1..n
        /\ \A i \in 1..n : i \in 1..Len(s) \/ i = n
    BY AppendFacts
  <1> HIDE DEF t, n
  <1>2. ToSet(t) = ToSet(s) \cup {x}
    BY <1>1 DEF ToSet
  <1>3. Injective(t)
    BY <1>1 DEF Injective, ToSet
  <1> QED
    BY <1>2, <1>3 DEF t

\* The oldest record leaves the channel.
LEMMA ReceiveFacts ==
    ASSUME NEW T, NEW s \in Seq(T), Injective(s), s # <<>>
    PROVE  /\ Head(s) \in T /\ Head(s) \in ToSet(s)
           /\ Tail(s) \in Seq(T) /\ Len(s) \in Nat \ {0} /\ Len(Tail(s)) = Len(s) - 1
           /\ Injective(Tail(s)) /\ ToSet(Tail(s)) = ToSet(s) \ {Head(s)}
  <1> DEFINE t == Tail(s)
             n == Len(s)
  <1>1. /\ Head(s) \in T /\ t \in Seq(T) /\ Len(t) = n - 1 /\ \A i \in 1..Len(t) : t[i] = s[i + 1]
        /\ n \in Nat \ {0}
    BY HeadTailProperties, EmptySeq
  <1>2. DOMAIN s = 1..n /\ DOMAIN t = 1..(n - 1) /\ Head(s) = s[1] /\ 1 \in 1..n
    BY <1>1, LenProperties
  <1>3. /\ \A i \in 1..(n - 1) : t[i] = s[i + 1] /\ i + 1 \in 1..n /\ i + 1 # 1
        /\ \A i \in 1..n : i # 1 => i - 1 \in 1..(n - 1) /\ t[i - 1] = s[i]
    BY <1>1
  <1> HIDE DEF t, n
  <1>4. Head(s) \in ToSet(s)
    BY <1>2 DEF ToSet
  <1>5. Injective(t)
    <2> SUFFICES ASSUME NEW i \in 1..(n - 1), NEW j \in 1..(n - 1), t[i] = t[j] PROVE i = j
      BY <1>2 DEF Injective
    <2>1. i + 1 = j + 1
      BY <1>2, <1>3 DEF Injective
    <2> QED
      BY <1>1, <2>1
  <1>6. ToSet(t) = ToSet(s) \ {Head(s)}
    <2>1. ASSUME NEW x \in ToSet(t) PROVE x \in ToSet(s) \ {Head(s)}
      BY <1>2, <1>3 DEF ToSet, Injective
    <2>2. ASSUME NEW x \in ToSet(s) \ {Head(s)} PROVE x \in ToSet(t)
      BY <1>2, <1>3 DEF ToSet
    <2> QED
      BY <2>1, <2>2
  <1> QED
    BY <1>1, <1>4, <1>5, <1>6 DEF t, n

\* Another write reaches the file.
LEMMA FileFacts ==
    ASSUME Records, NEW w \in WriteT, w.rec \notin Logged, file' = Append(file, w)
    PROVE  /\ file' \in Seq(WriteT) /\ Len(file') = Len(file) + 1
           /\ \A i, j \in DOMAIN file' : file'[i].rec = file'[j].rec => i = j
           /\ Logged' = Logged \cup {w.rec}
           /\ Written' = IF w.whole THEN Written \cup {w.rec} ELSE Written
  <1>1. file \in Seq(WriteT) /\ \A i, j \in DOMAIN file : file[i].rec = file[j].rec => i = j
    BY DEF Records
  <1>2. PICK n : n = Len(file) + 1
    OBVIOUS
  <1>3. /\ file' \in Seq(WriteT) /\ Len(file') = n
        /\ DOMAIN file = 1..Len(file) /\ DOMAIN file' = 1..n
        /\ \A i \in 1..Len(file) : file'[i] = file[i] /\ i \in 1..n
        /\ file'[n] = w /\ n \in 1..n
        /\ \A i \in 1..n : i \in 1..Len(file) \/ i = n
    BY <1>1, <1>2, AppendFacts
  <1>4. \A i, j \in DOMAIN file' : file'[i].rec = file'[j].rec => i = j
    BY <1>1, <1>3 DEF Logged
  <1>5. Logged' = Logged \cup {w.rec}
    BY <1>3 DEF Logged
  <1>6. Written' = IF w.whole THEN Written \cup {w.rec} ELSE Written
    <2>1. CASE w.whole
      BY <1>3, <2>1 DEF Written
    <2>2. CASE ~w.whole
      BY <1>3, <2>2 DEF Written
    <2> QED
      BY <2>1, <2>2
  <1> QED
    BY <1>2, <1>3, <1>4, <1>5, <1>6

\* Counting calls.
LEMMA Counting ==
    ASSUME NEW S, S \subseteq Producers
    PROVE  /\ IsFiniteSet(S) /\ Cardinality(S) \in Nat
           /\ \A p \in Producers : p \notin S => Cardinality(S \cup {p}) = Cardinality(S) + 1
  <1>1. IsFiniteSet(S)
    BY WriterAssumption, FS_Subset
  <1> QED
    BY <1>1, FS_CardinalityType, FS_AddElement

\* Some numbers.
LEMMA RecordsNumbers ==
    ASSUME Records
    PROVE  /\ Len(q) \in Nat /\ Cardinality(cur) \in Nat /\ Cardinality(Ended) \in Nat
           /\ Written \subseteq Producers /\ Written \subseteq Logged /\ Cardinality(Written) \in Nat
  <1>1. Logged \subseteq Producers /\ Written \subseteq Logged
    BY DEF Records, Written, Logged, Ended
  <1>2. Ended \subseteq Producers /\ cur \subseteq Producers
    BY DEF Records, Ended
  <1> QED
    BY <1>1, <1>2, Counting, LenProperties DEF Records

-----------------------------------------------------------------------------
(* Records are accounted for.                                              *)

\* Steps that move no record.
LEMMA RecordsAlone ==
    ASSUME Records, UNCHANGED <<pc, q, dropped, cur, file>>
    PROVE  Records' /\ Ended' = Ended /\ ToSet(q)' = ToSet(q)
  BY DEF Records, Ended, Logged, Written

\* Enqueue ends, and its record is dropped.
LEMMA DropKeeps ==
    ASSUME Records, NEW p \in Producers, pc[p] # "done", pc' = [pc EXCEPT ![p] = "done"],
           dropped' = dropped + 1, UNCHANGED <<q, cur, file>>
    PROVE  Records'
  <1>1. Ended' = Ended \cup {p} /\ p \notin Ended /\ Ended \subseteq Producers
    BY DEF Ended, Records
  <1>2. Cardinality(Ended') = Cardinality(Ended) + 1
    BY <1>1, Counting
  <1>3. Logged' = Logged /\ Written' = Written
    BY DEF Logged, Written
  <1>4. /\ dropped' \in Nat
        /\ Cardinality(Ended') = Len(q') + Cardinality(cur') + Cardinality(Written') + dropped'
    BY SMTT(60), <1>2, <1>3, RecordsNumbers DEF Records
  <1>5. ToSet(q') \cup cur' \cup Logged' \subseteq Ended'
    BY <1>1, <1>3 DEF Records
  <1>6. pc' \in [Producers -> {"new", "checked", "done"}]
    BY DEF Records
  <1> QED
    BY <1>3, <1>4, <1>5, <1>6 DEF Records

LEMMA CheckKeeps ==
    ASSUME Records, NEW p \in Producers, CheckClosed(p)
    PROVE  Records'
  <1>1. CASE closed
    BY <1>1, DropKeeps DEF CheckClosed
  <1>2. CASE ~closed
    <2>1. /\ pc[p] = "new" /\ pc' = [pc EXCEPT ![p] = "checked"] /\ UNCHANGED <<dropped, q, cur, file>>
      BY <1>2 DEF CheckClosed
    <2>2. Ended' = Ended /\ Logged' = Logged /\ Written' = Written
      BY <2>1 DEF Records, Ended, Logged, Written
    <2>3. pc' \in [Producers -> {"new", "checked", "done"}]
      BY <2>1 DEF Records
    <2> QED
      BY <2>1, <2>2, <2>3 DEF Records
  <1> QED
    BY <1>1, <1>2

LEMMA SendKeeps ==
    ASSUME Records, NEW p \in Producers, Send(p)
    PROVE  Records'
  <1>1. /\ pc[p] = "checked" /\ pc' = [pc EXCEPT ![p] = "done"] /\ UNCHANGED <<cur, file>>
        /\ \/ Len(q) < QueueSize /\ q' = Append(q, p) /\ dropped' = dropped
           \/ dropped' = dropped + 1 /\ q' = q
    BY DEF Send
  <1>2. CASE dropped' = dropped + 1 /\ q' = q
    BY <1>1, <1>2, DropKeeps
  <1>3. CASE Len(q) < QueueSize /\ q' = Append(q, p) /\ dropped' = dropped
    <2>1. Ended' = Ended \cup {p} /\ p \notin Ended /\ Ended \subseteq Producers
      BY <1>1 DEF Ended, Records
    <2>2. p \notin ToSet(q) /\ p \notin cur /\ p \notin Logged /\ q \in Seq(Producers) /\ Injective(q)
      BY <2>1 DEF Records
    <2>3. ToSet(q') = ToSet(q) \cup {p} /\ Injective(q')
      BY <1>3, <2>2, SendFacts
    <2>4. q' \in Seq(Producers) /\ Len(q') = Len(q) + 1
      BY <1>3, <2>2, AppendFacts
    <2>5. Cardinality(Ended') = Cardinality(Ended) + 1
      BY <2>1, Counting
    <2>6. Logged' = Logged /\ Written' = Written
      BY <1>1 DEF Logged, Written
    <2>7. /\ Len(q') <= QueueSize
          /\ Cardinality(Ended') = Len(q') + Cardinality(cur') + Cardinality(Written') + dropped'
      BY SMTT(60), <1>1, <1>3, <2>4, <2>5, <2>6, RecordsNumbers, WriterAssumption DEF Records
    <2>8. /\ ToSet(q') \cap cur' = {} /\ ToSet(q') \cap Logged' = {} /\ cur' \cap Logged' = {}
          /\ ToSet(q') \cup cur' \cup Logged' \subseteq Ended'
      BY <1>1, <2>1, <2>2, <2>3, <2>6 DEF Records
    <2>9. pc' \in [Producers -> {"new", "checked", "done"}]
      BY <1>1 DEF Records
    <2> QED
      BY <1>1, <1>3, <2>3, <2>4, <2>6, <2>7, <2>8, <2>9 DEF Records
  <1> QED
    BY <1>1, <1>2, <1>3

LEMMA ReceiveKeeps ==
    ASSUME Records, Receive
    PROVE  Records'
  <1>1. /\ cur = {} /\ q # <<>> /\ cur' = {Head(q)} /\ q' = Tail(q) /\ UNCHANGED <<pc, dropped, file>>
    BY DEF Receive
  <1>2. /\ Head(q) \in Producers /\ Head(q) \in ToSet(q)
        /\ q' \in Seq(Producers) /\ Len(q) \in Nat \ {0} /\ Len(q') = Len(q) - 1
        /\ Injective(q') /\ ToSet(q') = ToSet(q) \ {Head(q)}
    BY <1>1, ReceiveFacts DEF Records
  <1>3. Ended' = Ended /\ Logged' = Logged /\ Written' = Written
    BY <1>1 DEF Ended, Logged, Written
  <1>4. Cardinality(cur) = 0 /\ Cardinality(cur') = 1
    BY <1>1, FS_EmptySet, FS_Singleton
  <1>5. /\ Len(q') <= QueueSize
        /\ Cardinality(Ended') = Len(q') + Cardinality(cur') + Cardinality(Written') + dropped'
    BY <1>1, <1>2, <1>3, <1>4, RecordsNumbers, WriterAssumption DEF Records
  <1>6. /\ ToSet(q') \cap cur' = {} /\ ToSet(q') \cap Logged' = {} /\ cur' \cap Logged' = {}
        /\ ToSet(q') \cup cur' \cup Logged' \subseteq Ended'
    BY <1>1, <1>2, <1>3 DEF Records
  <1> QED
    BY <1>1, <1>2, <1>3, <1>5, <1>6 DEF Records

LEMMA WriteKeeps ==
    ASSUME Records, Write
    PROVE  Records'
  <1>1. PICK r \in cur :
          /\ \/ file' = Append(file, [rec |-> r, whole |-> TRUE]) /\ dropped' = dropped
             \/ file' = file /\ dropped' = dropped + 1
             \/ file' = Append(file, [rec |-> r, whole |-> FALSE]) /\ dropped' = dropped + 1
          /\ cur' = {} /\ UNCHANGED <<pc, q>>
    BY DEF Write
  <1>2. cur = {r} /\ r \in Producers /\ r \notin Logged /\ r \notin ToSet(q) /\ r \in Ended
    BY <1>1 DEF Records
  <1>3. Cardinality(cur) = 1 /\ Cardinality(cur') = 0
    BY <1>1, <1>2, FS_EmptySet, FS_Singleton
  <1>4. Ended' = Ended
    BY <1>1 DEF Ended
  <1>5. /\ file' \in Seq(WriteT)
        /\ \A i, j \in DOMAIN file' : file'[i].rec = file'[j].rec => i = j
        /\ Logged' \subseteq Logged \cup {r}
        /\ \/ Written' = Written \cup {r} /\ dropped' = dropped
           \/ Written' = Written /\ dropped' = dropped + 1
    <2>1. ASSUME NEW b \in BOOLEAN, file' = Append(file, [rec |-> r, whole |-> b])
          PROVE  /\ file' \in Seq(WriteT)
                 /\ \A i, j \in DOMAIN file' : file'[i].rec = file'[j].rec => i = j
                 /\ Logged' = Logged \cup {r}
                 /\ Written' = IF b THEN Written \cup {r} ELSE Written
      <3>1. PICK w : w = [rec |-> r, whole |-> b]
        OBVIOUS
      <3>2. w \in WriteT /\ w.rec = r /\ w.whole = b
        BY <1>2, <2>1, <3>1 DEF WriteT
      <3>3. file' = Append(file, w) /\ w.rec \notin Logged
        BY <1>2, <2>1, <3>1, <3>2
      <3> QED
        BY <3>2, <3>3, FileFacts
    <2>2. CASE file' = Append(file, [rec |-> r, whole |-> TRUE]) /\ dropped' = dropped
      BY <2>1, <2>2
    <2>3. CASE file' = file /\ dropped' = dropped + 1
      BY <2>3 DEF Records, Logged, Written
    <2>4. CASE file' = Append(file, [rec |-> r, whole |-> FALSE]) /\ dropped' = dropped + 1
      BY <2>1, <2>4
    <2> QED
      BY <1>1, <2>2, <2>3, <2>4
  <1>6. PICK a \in Nat, d \in Nat : /\ a = Cardinality(Written') /\ d = dropped'
                                    /\ a + d = Cardinality(Written) + dropped + 1
    <2>0. dropped \in Nat /\ Cardinality(Written) \in Nat
      BY RecordsNumbers DEF Records
    <2>1. r \notin Written /\ Cardinality(Written \cup {r}) = Cardinality(Written) + 1
      BY <1>2, RecordsNumbers, Counting
    <2>2. CASE Written' = Written \cup {r} /\ dropped' = dropped
      BY <2>0, <2>1, <2>2
    <2>3. CASE Written' = Written /\ dropped' = dropped + 1
      BY <2>0, <2>3
    <2> QED
      BY <1>5, <2>2, <2>3
  <1>7. Cardinality(Ended') = Len(q') + Cardinality(cur') + Cardinality(Written') + dropped'
    <2>1. PICK e \in Nat, n \in Nat, w \in Nat, m \in Nat :
            /\ e = Cardinality(Ended) /\ n = Len(q) /\ w = Cardinality(Written) /\ m = dropped
      BY RecordsNumbers DEF Records
    <2>2. e = n + 1 + w + m
      BY <1>3, <2>1 DEF Records
    <2>3. e = n + 0 + a + d
      <3>1. a + d = w + m + 1
        BY <1>6, <2>1
      <3>2. a \in Nat /\ d \in Nat
        BY <1>6
      <3> QED
        BY <2>2, <3>1, <3>2
    <2> QED
      BY <1>1, <1>3, <1>4, <1>6, <2>1, <2>3
  <1>8. /\ ToSet(q') \cap cur' = {} /\ ToSet(q') \cap Logged' = {} /\ cur' \cap Logged' = {}
        /\ ToSet(q') \cup cur' \cup Logged' \subseteq Ended'
    BY <1>1, <1>2, <1>4, <1>5 DEF Records
  <1> QED
    BY <1>1, <1>5, <1>6, <1>7, <1>8 DEF Records

LEMMA CountKeeps ==
    ASSUME Records, CloseCount
    PROVE  Records'
  <1>1. q # <<>> /\ q' = Tail(q) /\ dropped' = dropped + 1 /\ UNCHANGED <<pc, cur, file>>
    BY DEF CloseCount
  <1>2. /\ q' \in Seq(Producers) /\ Len(q) \in Nat \ {0} /\ Len(q') = Len(q) - 1
        /\ Injective(q') /\ ToSet(q') = ToSet(q) \ {Head(q)}
    BY <1>1, ReceiveFacts DEF Records
  <1>3. Ended' = Ended /\ Logged' = Logged /\ Written' = Written
    BY <1>1 DEF Ended, Logged, Written
  <1>4. /\ Len(q') <= QueueSize /\ dropped' \in Nat
        /\ Cardinality(Ended') = Len(q') + Cardinality(cur') + Cardinality(Written') + dropped'
    <2>1. PICK c \in Nat, w \in Nat, m \in Nat :
            c = Cardinality(cur) /\ w = Cardinality(Written) /\ m = dropped
      BY RecordsNumbers DEF Records
    <2>2. Cardinality(Ended) = Len(q) + c + w + m /\ Len(q) <= QueueSize /\ QueueSize \in Nat
      BY <2>1, WriterAssumption DEF Records
    <2>3. Len(q) + c + w + m = (Len(q) - 1) + c + w + (m + 1)
      BY SMTT(60), <1>2, <2>1
    <2> QED
      BY <1>1, <1>2, <1>3, <2>1, <2>2, <2>3
  <1>5. /\ ToSet(q') \cap cur' = {} /\ ToSet(q') \cap Logged' = {} /\ cur' \cap Logged' = {}
        /\ ToSet(q') \cup cur' \cup Logged' \subseteq Ended'
    BY <1>1, <1>2, <1>3 DEF Records
  <1> QED
    BY <1>1, <1>2, <1>3, <1>4, <1>5 DEF Records

LEMMA RecordsKeep ==
    ASSUME Records, [Next]_vars
    PROVE  Records'
  <1>1. ASSUME NEW p \in Producers, Enqueue(p) PROVE Records'
    BY <1>1, CheckKeeps, SendKeeps DEF Enqueue
  <1>2. CASE Receive \/ Write \/ CloseCount
    BY <1>2, ReceiveKeeps, WriteKeeps, CountKeeps
  <1>3. CASE NoticeStop \/ Tick \/ Finish
    BY <1>3, RecordsAlone DEF NoticeStop, Tick, Finish
  <1>4. CASE CloseMark \/ CloseStop \/ CloseAwait \/ CloseReturn \/ UNCHANGED vars
    BY <1>4, RecordsAlone DEF CloseMark, CloseStop, CloseAwait, CloseReturn, vars
  <1> QED
    BY <1>1, <1>2, <1>3, <1>4 DEF Next, Consume, Close

-----------------------------------------------------------------------------
(* Close keeps its word.                                                   *)

\* Enqueue after the check: only what had passed it before can still send.
LEMMA StagesEnqueue ==
    ASSUME Records, Stages, NEW p \in Producers, Enqueue(p)
    PROVE  Stages'
  <1>1. UNCHANGED <<closed, stop, run, file, synced, finalErr, close, early, late>>
    BY DEF Enqueue, CheckClosed, Send
  <1>2. CASE CheckClosed(p)
    <2>1. /\ pc[p] = "new" /\ q' = q
          /\ \/ closed /\ pc' = [pc EXCEPT ![p] = "done"]
             \/ ~closed /\ pc' = [pc EXCEPT ![p] = "checked"]
      BY <1>2 DEF CheckClosed
    <2>2. Ended \subseteq Ended'
      BY <2>1 DEF Ended, Records
    <2>3. close = "returned" => \A r \in Producers : pc'[r] = "checked" => r \in late
      BY <2>1 DEF Stages, Records
    <2> QED
      BY <1>1, <2>1, <2>2, <2>3 DEF Stages
  <1>3. CASE Send(p)
    <2>1. /\ pc[p] = "checked" /\ pc' = [pc EXCEPT ![p] = "done"]
          /\ q' = q \/ q' = Append(q, p)
      BY <1>3 DEF Send
    <2>2. Ended \subseteq Ended' /\ p \notin Ended
      BY <2>1 DEF Ended, Records
    <2>3. \A r \in Producers : pc'[r] = "checked" => pc[r] = "checked"
      BY <2>1 DEF Records
    <2>4. ToSet(q') \subseteq ToSet(q) \cup {p}
      <3>1. CASE q' = q
        BY <3>1
      <3>2. CASE q' = Append(q, p)
        <4>1. p \notin ToSet(q) /\ q \in Seq(Producers) /\ Injective(q)
          BY <2>2 DEF Records
        <4> QED
          BY <3>2, <4>1, SendFacts
      <3> QED
        BY <2>1, <3>1, <3>2
    <2>5. run = "exited" => early \cap ToSet(q') = {}
      BY <2>2, <2>4 DEF Stages
    <2>6. close = "returned" => ToSet(q') \subseteq late
      BY <2>1, <2>4 DEF Stages
    <2> QED
      BY <1>1, <2>2, <2>3, <2>5, <2>6 DEF Stages
  <1> QED
    BY <1>2, <1>3 DEF Enqueue

LEMMA StagesKeep ==
    ASSUME Records, Stages, [Next]_vars
    PROVE  Stages'
  <1>0. Len(file) \in Nat /\ 0 \in 0..Len(file) /\ Len(file) \in 0..Len(file) /\ ToSet(<<>>) = {}
    <2>1. Len(file) \in Nat
      BY LenProperties DEF Records
    <2> QED
      BY <2>1 DEF ToSet
  <1>1. ASSUME NEW p \in Producers, Enqueue(p) PROVE Stages'
    BY <1>1, StagesEnqueue
  <1>2. CASE Receive \/ CloseCount
    <2>1. /\ q # <<>> /\ q' = Tail(q)
          /\ UNCHANGED <<pc, closed, stop, run, file, synced, finalErr, close, early, late>>
      BY <1>2 DEF Receive, CloseCount
    <2>2. ToSet(q') \subseteq ToSet(q)
      BY <2>1, ReceiveFacts DEF Records
    <2>3. Ended' = Ended
      BY <2>1 DEF Ended
    <2> QED
      BY <2>1, <2>2, <2>3 DEF Stages
  <1>3. CASE Write
    <2>1. /\ UNCHANGED <<pc, q, closed, stop, run, finalErr, close, early, late>>
          /\ run # "exited" /\ synced' \in {synced, Len(file')}
      BY <1>3 DEF Write, MaybeSync
    <2>2. Len(file') \in Nat /\ Len(file') >= Len(file)
      <3>1. PICK r \in cur : \/ file' = file
                             \/ file' = Append(file, [rec |-> r, whole |-> TRUE])
                             \/ file' = Append(file, [rec |-> r, whole |-> FALSE])
        BY <1>3 DEF Write
      <3>2. /\ file \in Seq(WriteT) /\ [rec |-> r, whole |-> TRUE] \in WriteT
            /\ [rec |-> r, whole |-> FALSE] \in WriteT
        BY DEF Records, WriteT
      <3> QED
        BY <1>0, <3>1, <3>2, AppendFacts
    <2>3. synced' \in 0..Len(file')
      BY <1>0, <2>1, <2>2 DEF Stages
    <2>4. Ended' = Ended
      BY <2>1 DEF Ended
    <2> QED
      BY <2>1, <2>3, <2>4 DEF Stages
  <1>4. CASE NoticeStop \/ Tick
    <2>1. /\ UNCHANGED <<pc, q, closed, stop, file, finalErr, close, early, late>>
          /\ synced' \in {synced, Len(file)} /\ run = "select" /\ run' \in {"select", "drain"}
          /\ run' = "drain" => stop
      BY <1>4 DEF NoticeStop, Tick, MaybeSync
    <2>2. Ended' = Ended
      BY <2>1 DEF Ended
    <2> QED
      BY <1>0, <2>1, <2>2 DEF Stages
  <1>5. CASE Finish
    <2>1. /\ UNCHANGED <<pc, q, closed, stop, file, close, early, late>> /\ q = <<>>
          /\ run = "drain" /\ run' = "exited"
          /\ finalErr' \in BOOLEAN /\ synced' \in {synced, Len(file)}
          /\ synced' = Len(file) \/ finalErr' = TRUE
      BY <1>5 DEF Finish
    <2>2. Ended' = Ended
      BY <2>1 DEF Ended
    <2> QED
      BY <1>0, <2>1, <2>2 DEF Stages
  <1>6. CASE CloseMark
    <2>1. /\ UNCHANGED <<pc, q, stop, run, file, synced, finalErr, late>>
          /\ close = "open" /\ close' = "marked" /\ closed' = TRUE /\ early' = ToSet(q) \cup cur
      BY <1>6 DEF CloseMark
    <2>2. Ended' = Ended /\ early' \subseteq Ended
      BY <2>1 DEF Ended, Records
    <2>3. run = "select"
      BY <2>1 DEF Stages
    <2> QED
      BY <2>1, <2>2, <2>3 DEF Stages
  <1>7. CASE CloseStop \/ CloseAwait
    <2>1. /\ UNCHANGED <<pc, q, closed, run, file, synced, finalErr, early, late>>
          /\ \/ close = "marked" /\ close' = "stopped" /\ stop' = TRUE
             \/ close = "stopped" /\ close' = "counting" /\ stop' = stop /\ run = "exited"
      BY <1>7 DEF CloseStop, CloseAwait, done
    <2>2. Ended' = Ended
      BY <2>1 DEF Ended
    <2> QED
      BY <2>1, <2>2 DEF Stages
  <1>8. CASE CloseReturn
    <2>1. /\ UNCHANGED <<pc, q, closed, stop, run, file, synced, finalErr, early>>
          /\ close = "counting" /\ close' = "returned" /\ q = <<>>
          /\ late' = {p \in Producers : pc[p] = "checked"}
      BY <1>8 DEF CloseReturn
    <2>2. Ended' = Ended
      BY <2>1 DEF Ended
    <2> QED
      BY <1>0, <2>1, <2>2 DEF Stages
  <1>9. CASE UNCHANGED vars
    BY <1>9 DEF vars, Stages, Ended
  <1> QED
    BY <1>1, <1>2, <1>3, <1>4, <1>5, <1>6, <1>7, <1>8, <1>9 DEF Next, Consume, Close

-----------------------------------------------------------------------------
(* The theorems.                                                           *)

LEMMA InitWriter == Init => WriterInv
  <1> SUFFICES ASSUME Init PROVE WriterInv
    OBVIOUS
  <1>1. /\ q = <<>> /\ file = <<>> /\ Len(q) = 0 /\ Len(file) = 0
        /\ DOMAIN q = {} /\ DOMAIN file = {}
    BY DEF Init
  <1>2. q \in Seq(Producers) /\ file \in Seq(WriteT)
    BY <1>1, EmptySeq
  <1>3. ToSet(q) = {} /\ Logged = {} /\ Written = {} /\ Ended = {} /\ cur = {}
    BY <1>1 DEF ToSet, Logged, Written, Ended, Init
  <1>4. Cardinality(Ended) = 0 /\ Cardinality(cur) = 0 /\ Cardinality(Written) = 0
    BY <1>3, FS_EmptySet
  <1>5. Records
    BY <1>1, <1>2, <1>3, <1>4, WriterAssumption DEF Init, Records, Injective
  <1>6. Stages
    <2>1. synced \in 0..Len(file) /\ early \subseteq Ended /\ late \subseteq Producers
      BY <1>1 DEF Init
    <2>2. ~closed /\ ~stop /\ closed \in BOOLEAN /\ stop \in BOOLEAN /\ finalErr \in BOOLEAN
      BY DEF Init
    <2>3. run = "select" /\ close = "open"
      BY DEF Init
    <2> QED
      BY <2>1, <2>2, <2>3 DEF Stages
  <1> QED
    BY <1>5, <1>6 DEF WriterInv

\* The invariant is inductive.
THEOREM WriterInductive == Spec => []WriterInv
  <1>1. ASSUME WriterInv, [Next]_vars PROVE WriterInv'
    BY <1>1, RecordsKeep, StagesKeep DEF WriterInv
  <1> QED
    BY <1>1, InitWriter, PTL DEF Spec

\* Nothing is lost unnoticed and nothing is written twice.
THEOREM NothingIsLost == Spec => []RecordsAccounted
  <1>1. WriterInv => RecordsAccounted
    BY DEF WriterInv, Records, RecordsAccounted, Ended
  <1> QED
    BY <1>1, WriterInductive, PTL

\* What Close promises.
THEOREM ClosePromises == Spec => []CloseKeepsItsWord
  <1>1. WriterInv => CloseKeepsItsWord
    BY DEF WriterInv, Stages, CloseKeepsItsWord, done
  <1> QED
    BY <1>1, WriterInductive, PTL

\* Accounting, the hours and a restart leave the writer to itself: below them
\* it starts as Writer says and takes no step that Writer does not allow.
THEOREM LogImplementsWriter == LogSpec => Spec
  <1>1. LogInit => Init
    BY DEF LogInit
  <1>2. ASSUME [LogNext]_allVars PROVE [Next]_vars
    <2>1. ASSUME NEW p \in Producers, Account(p) PROVE UNCHANGED vars
      BY <2>1 DEF Account
    <2>2. ASSUME NEW p \in Producers, Submit(p) PROVE Next
      BY <2>2 DEF Submit, Next
    <2>3. CASE phase = "up" /\ (Consume \/ Close) /\ UNCHANGED logVars
      BY <2>3 DEF Next
    <2>4. CASE HourPasses \/ Shutdown \/ Crash
      BY <2>4 DEF HourPasses, Shutdown, Crash, Restart
    <2>5. CASE UNCHANGED allVars
      BY <2>5 DEF allVars
    <2> QED
      BY <1>2, <2>1, <2>2, <2>3, <2>4, <2>5 DEF LogNext
  <1> QED
    BY <1>1, <1>2, PTL DEF LogSpec, Spec

\* So the same holds below the accounting and across a restart.
COROLLARY LogLosesNothing == LogSpec => [](RecordsAccounted /\ CloseKeepsItsWord)
  BY LogImplementsWriter, NothingIsLost, ClosePromises, PTL

-----------------------------------------------------------------------------
(* The end of Close.                                                       *)

\* Once Close has begun its work is bounded: a call of Enqueue that is not over
\* sends one record at most, a record in the channel is received and written or
\* counted, and the consumer and Close have their own steps to go.
RunLeft == CASE run = "select" -> 2 [] run = "drain" -> 1 [] OTHER -> 0

CloserLeft ==
    CASE close = "open" -> 4 [] close = "marked" -> 3 [] close = "stopped" -> 2
      [] close = "counting" -> 1 [] OTHER -> 0

CloseLeft ==
    3 * Cardinality(Producers \ Ended) + 2 * Len(q) + Cardinality(cur) + RunLeft + CloserLeft

\* Once Close has begun, every step of whoever takes it brings the end nearer,
\* but for the ticker's, which changes nothing of it: calls of Enqueue that keep
\* coming do not keep the drain loop and the count of what is left going.
CloseOnlyAdvances ==
    [][closed => \/ CloseLeft' < CloseLeft
                 \/ Tick /\ CloseLeft' = CloseLeft]_vars

\* A call ends: there is one fewer to come.
LEMMA OneFewer ==
    ASSUME Records, NEW p \in Producers, p \notin Ended, Ended' = Ended \cup {p}
    PROVE  /\ Cardinality(Producers \ Ended) \in Nat
           /\ Cardinality(Producers \ Ended') = Cardinality(Producers \ Ended) - 1
           /\ Cardinality(Producers \ Ended') \in Nat
  <1>1. Producers \ Ended = (Producers \ Ended') \cup {p} /\ p \notin Producers \ Ended'
    OBVIOUS
  <1>2. Cardinality(Producers \ Ended') \in Nat
    BY Counting
  <1>3. Cardinality((Producers \ Ended') \cup {p}) = Cardinality(Producers \ Ended') + 1
    BY <1>1, Counting
  <1>4. Cardinality(Producers \ Ended) = Cardinality(Producers \ Ended') + 1
    BY <1>1, <1>3, Zenon
  <1> QED
    BY <1>2, <1>4

\* The sum, for numbers.
LEMMA CloseSum ==
    ASSUME NEW a \in Nat, NEW b \in Nat, NEW c \in Nat, NEW d \in Nat, NEW e \in Nat,
           NEW u \in Nat, NEW v \in Nat, NEW w \in Nat, NEW x \in Nat, NEW y \in Nat
    PROVE  /\ /\ u + 1 = a /\ v <= b + 1 /\ w = c /\ x = d /\ y = e
              => 3 * u + 2 * v + w + x + y < 3 * a + 2 * b + c + d + e
           /\ /\ u = a /\ v + 1 = b /\ w <= c + 1 /\ x = d /\ y = e
              => 3 * u + 2 * v + w + x + y < 3 * a + 2 * b + c + d + e
           /\ /\ u = a /\ v = b /\ w <= c /\ x <= d /\ y <= e
              /\ w < c \/ x < d \/ y < e
              => 3 * u + 2 * v + w + x + y < 3 * a + 2 * b + c + d + e
  OBVIOUS

LEMMA CloseStep ==
    ASSUME WriterInv, WriterInv', Next, closed
    PROVE  \/ CloseLeft' < CloseLeft
           \/ Tick /\ CloseLeft' = CloseLeft
  <1> DEFINE C == Cardinality(Producers \ Ended)
  <1>1. /\ C \in Nat /\ Len(q) \in Nat /\ Cardinality(cur) \in Nat
        /\ RunLeft \in Nat /\ CloserLeft \in Nat
    BY Counting, RecordsNumbers DEF WriterInv, RunLeft, CloserLeft
  <1>2. /\ C' \in Nat /\ Len(q') \in Nat /\ Cardinality(cur') \in Nat
        /\ RunLeft' \in Nat /\ CloserLeft' \in Nat
    <2>1. C' \in Nat
      BY Counting
    <2>2. Len(q') \in Nat /\ Cardinality(cur') \in Nat
      <3>1. q' \in Seq(Producers) /\ cur' \subseteq Producers
        BY DEF WriterInv, Records
      <3> QED
        BY <3>1, Counting, LenProperties
    <2> QED
      BY <2>1, <2>2 DEF RunLeft, CloserLeft
  <1>3. /\ CloseLeft = 3 * C + 2 * Len(q) + Cardinality(cur) + RunLeft + CloserLeft
        /\ CloseLeft' = 3 * C' + 2 * Len(q') + Cardinality(cur') + RunLeft' + CloserLeft'
    BY DEF CloseLeft
  <1>4. Records /\ Stages
    BY DEF WriterInv
  <1>5. ASSUME NEW p \in Producers, Enqueue(p) PROVE CloseLeft' < CloseLeft
    <2>1. /\ pc[p] # "done" /\ pc' = [pc EXCEPT ![p] = "done"]
          /\ UNCHANGED <<cur, run, close>> /\ (q' = q \/ q' = Append(q, p))
      BY <1>5 DEF Enqueue, CheckClosed, Send
    <2>2. p \notin Ended /\ Ended' = Ended \cup {p}
      BY <1>4, <2>1 DEF Records, Ended
    <2>3. C' + 1 = C
      <3>1. C' = C - 1
        BY <1>4, <2>2, OneFewer
      <3> QED
        BY <1>1, <1>2, <3>1
    <2>4. Len(q') <= Len(q) + 1
      <3>1. q \in Seq(Producers)
        BY <1>4 DEF Records
      <3>2. Len(Append(q, p)) = Len(q) + 1
        BY <3>1, AppendFacts
      <3> QED
        BY <1>1, <2>1, <3>2
    <2>5. RunLeft' = RunLeft /\ CloserLeft' = CloserLeft /\ Cardinality(cur') = Cardinality(cur)
      BY <2>1 DEF RunLeft, CloserLeft
    <2> HIDE DEF C
    <2> QED
      BY ZenonT(60), <1>1, <1>2, <1>3, <2>3, <2>4, <2>5, CloseSum
  <1>6. CASE Receive \/ CloseCount
    <2>1. /\ q # <<>> /\ q' = Tail(q) /\ UNCHANGED <<pc, run, close>>
          /\ cur' = cur \/ (cur = {} /\ cur' = {Head(q)})
      BY <1>6 DEF Receive, CloseCount
    <2>2. Len(q') + 1 = Len(q)
      <3>1. Len(q) \in Nat \ {0} /\ Len(q') = Len(q) - 1
        BY <1>4, <2>1, ReceiveFacts DEF Records
      <3> QED
        BY <3>1
    <2>3. Cardinality(cur') <= Cardinality(cur) + 1
      <3>1. Cardinality({}) = 0 /\ Cardinality({Head(q)}) = 1
        BY FS_EmptySet, FS_Singleton
      <3>2. CASE cur' = cur
        BY <1>1, <3>2
      <3>3. CASE cur = {} /\ cur' = {Head(q)}
        BY <3>1, <3>3
      <3> QED
        BY <2>1, <3>2, <3>3
    <2>4. C' = C /\ RunLeft' = RunLeft /\ CloserLeft' = CloserLeft
      BY <2>1 DEF Ended, RunLeft, CloserLeft
    <2> HIDE DEF C
    <2> QED
      BY ZenonT(60), <1>1, <1>2, <1>3, <2>2, <2>3, <2>4, CloseSum
  <1>7. CASE NoticeStop \/ Write \/ Finish \/ CloseStop \/ CloseAwait \/ CloseReturn
    <2>1. UNCHANGED <<pc, q>>
      BY <1>7 DEF NoticeStop, Write, Finish, CloseStop, CloseAwait, CloseReturn
    <2>2. C' = C /\ Len(q') = Len(q)
      BY <2>1 DEF Ended
    <2>3. /\ Cardinality(cur') <= Cardinality(cur) /\ RunLeft' <= RunLeft
          /\ CloserLeft' <= CloserLeft
          /\ \/ Cardinality(cur') < Cardinality(cur) \/ RunLeft' < RunLeft
             \/ CloserLeft' < CloserLeft
      <3>1. CASE Write
        <4>1. cur # {} /\ cur' = {} /\ UNCHANGED <<run, close>>
          BY <3>1 DEF Write
        <4>2. \E p \in Producers : cur = {p}
          BY <1>4, <4>1 DEF Records
        <4>3. Cardinality(cur) = 1 /\ Cardinality(cur') = 0
          BY <4>1, <4>2, FS_EmptySet, FS_Singleton
        <4>4. RunLeft' = RunLeft /\ CloserLeft' = CloserLeft
          BY <4>1 DEF RunLeft, CloserLeft
        <4> QED
          BY <1>1, <4>3, <4>4
      <3>2. CASE NoticeStop \/ Finish
        <4>1. /\ cur' = cur /\ close' = close
              /\ (run = "select" /\ run' = "drain") \/ (run = "drain" /\ run' = "exited")
          BY <3>2 DEF NoticeStop, Finish
        <4>2. RunLeft' < RunLeft /\ CloserLeft' = CloserLeft
          BY <4>1 DEF RunLeft, CloserLeft
        <4>3. Cardinality(cur') = Cardinality(cur)
          BY <4>1
        <4> QED
          BY <1>1, <1>2, <4>2, <4>3
      <3>3. CASE CloseStop \/ CloseAwait \/ CloseReturn
        <4>1. /\ cur' = cur /\ run' = run
              /\ \/ close = "marked" /\ close' = "stopped"
                 \/ close = "stopped" /\ close' = "counting"
                 \/ close = "counting" /\ close' = "returned"
          BY <3>3 DEF CloseStop, CloseAwait, CloseReturn
        <4>2. RunLeft' = RunLeft /\ CloserLeft' < CloserLeft
          BY <4>1 DEF RunLeft, CloserLeft
        <4>3. Cardinality(cur') = Cardinality(cur)
          BY <4>1
        <4> QED
          BY <1>1, <1>2, <4>2, <4>3
      <3> QED
        BY <1>7, <3>1, <3>2, <3>3
    <2> HIDE DEF C
    <2> QED
      BY SMTT(60), <1>1, <1>2, <1>3, <2>2, <2>3, CloseSum
  <1>8. ASSUME Tick PROVE CloseLeft' = CloseLeft
    <2>1. UNCHANGED <<pc, q, cur, run, close>>
      BY <1>8 DEF Tick
    <2> QED
      BY <2>1 DEF CloseLeft, Ended, RunLeft, CloserLeft
  <1>9. ~CloseMark
    BY <1>4 DEF CloseMark, Stages
  <1> QED
    BY <1>5, <1>6, <1>7, <1>8, <1>9 DEF Next, Consume, Close

\* Close ends (writer.go, T-M11): after closed is set there are at most CloseLeft
\* steps besides ticks, of all calls, the consumer and Close together.  This is
\* the safety part of CloseCompletes, below the accounting too.
THEOREM CloseAdvances == LogSpec => CloseOnlyAdvances
  <1>1. ASSUME WriterInv, WriterInv', [Next]_vars
        PROVE  [closed => \/ CloseLeft' < CloseLeft
                          \/ Tick /\ CloseLeft' = CloseLeft]_vars
    BY <1>1, CloseStep
  <1>2. Spec => CloseOnlyAdvances
    BY <1>1, WriterInductive, PTL DEF Spec, CloseOnlyAdvances
  <1> QED
    BY <1>2, LogImplementsWriter, PTL

-----------------------------------------------------------------------------
(* Replay: sequences of sequences.                                         *)

\* A set of numbers has a least one: what the inductions below rest on.
LEMMA LeastNumber ==
    ASSUME NEW T \in SUBSET Nat, T # {}
    PROVE  \E x \in T : \A y \in T : x <= y
  <1>1. \E x \in T : \A y \in T : ~(<<y, x>> \in OpToRel(<, Nat))
    BY NatLessThanWellFounded, WFMin
  <1>2. PICK x \in T : \A y \in T : ~(<<y, x>> \in OpToRel(<, Nat))
    BY <1>1
  <1>3. \A y \in T : ~(y < x)
    BY <1>2 DEF OpToRel
  <1>4. \A y \in T : x <= y
    BY <1>3
  <1> QED
    BY <1>4

\* The concatenations of the first 0, 1, ..., m members of s.
Chain(T, s, m, F) ==
    F \in [0..m -> Seq(T)] /\ F[0] = <<>> /\ \A i \in 1..m : F[i] = F[i - 1] \o s[i]

LEMMA ChainExists ==
    ASSUME NEW T, NEW s, NEW n \in Nat, \A i \in 1..n : s[i] \in Seq(T)
    PROVE  \E F : Chain(T, s, n, F)
  <1> DEFINE Bad == {m \in Nat : m <= n /\ ~\E F : Chain(T, s, m, F)}
  <1> SUFFICES ASSUME n \in Bad PROVE FALSE
    OBVIOUS
  <1>1. PICK m \in Bad : \A k \in Bad : m <= k
    BY LeastNumber
  <1>2. m \in Nat /\ m <= n
    OBVIOUS
  <1>3. CASE m = 0
    <2>1. <<>> \in Seq(T)
      BY EmptySeq
    <2>2. Chain(T, s, 0, [i \in 0..0 |-> <<>>])
      BY <2>1 DEF Chain
    <2> QED
      BY <1>3, <2>2
  <1>4. CASE m # 0
    <2>1. m - 1 \in Nat /\ m - 1 < m /\ m - 1 <= n /\ m \in 1..n /\ m - 1 \in 0..(m - 1)
      BY <1>2, <1>4
    <2>2. PICK G : Chain(T, s, m - 1, G)
      BY <1>1, <1>2, <2>1
    <2> DEFINE F == [i \in 0..m |-> IF i = m THEN G[m - 1] \o s[m] ELSE G[i]]
    <2>3. \A i \in 0..m : i # m => i \in 0..(m - 1)
      BY <1>2
    <2>4. G[m - 1] \o s[m] \in Seq(T)
      BY <2>1, <2>2, ConcatProperties DEF Chain
    <2>5. F \in [0..m -> Seq(T)]
      BY <2>2, <2>3, <2>4 DEF Chain
    <2>6. F[0] = <<>>
      BY SMTT(60), <1>2, <1>4, <2>2 DEF Chain
    <2>7. ASSUME NEW i \in 1..m PROVE F[i] = F[i - 1] \o s[i]
      <3>1. i \in 0..m /\ i - 1 \in 0..m /\ i - 1 # m
        BY <1>2
      <3>2. F[i - 1] = G[i - 1]
        BY <3>1
      <3>3. CASE i = m
        BY <3>1, <3>2, <3>3
      <3>4. CASE i # m
        <4>1. i \in 1..(m - 1)
          BY <1>2, <3>4
        <4> QED
          BY <2>2, <3>1, <3>2, <3>4, <4>1 DEF Chain
      <3> QED
        BY <3>3, <3>4
    <2> HIDE DEF F
    <2>8. Chain(T, s, m, F)
      BY <2>5, <2>6, <2>7 DEF Chain
    <2> QED
      BY <2>8
  <1> QED
    BY <1>3, <1>4

\* The index before one that is not the first.
LEMMA Predecessor == \A n \in Nat : \A i \in 1..n : i # 1 => i - 1 \in 1..n
  OBVIOUS

\* FlattenSeq is the last of them.
LEMMA FlattenChain ==
    ASSUME NEW T, NEW s, NEW n \in Nat, s \in Seq(Seq(T)), n = Len(s)
    PROVE  \E F : Chain(T, s, n, F) /\ FlattenSeq(s) = F[n]
  <1>0. \A i \in 1..n : s[i] \in Seq(T)
    OBVIOUS
  <1>1. PICK F : Chain(T, s, n, F)
    BY <1>0, ChainExists
  <1>2. CASE n = 0
    <2>1. s = <<>>
      BY <1>2, EmptySeq
    <2>2. FlattenSeq(s) = s
      BY <1>2, Zenon DEF FlattenSeq
    <2> QED
      BY <1>1, <1>2, <2>1, <2>2 DEF Chain
  <1>3. CASE n # 0
    <2> DEFINE g == [i \in 1..n |-> F[i]]
    <2>0. \A i \in 1..n : g[i] = F[i]
      OBVIOUS
    <2>1. g = [i \in 1..n |-> IF i = 1 THEN s[i] ELSE g[i - 1] \o s[i]]
      <3>1. ASSUME NEW i \in 1..n PROVE g[i] = IF i = 1 THEN s[i] ELSE g[i - 1] \o s[i]
        <4>1. F[i] = F[i - 1] \o s[i]
          BY <1>1 DEF Chain
        <4>2. CASE i = 1
          <5>0. i - 1 = 0 /\ F[0] = <<>>
            BY <1>1, <4>2 DEF Chain
          <5>1. F[i] = <<>> \o s[i]
            BY <4>1, <5>0, Zenon
          <5>2. <<>> \o s[i] = s[i]
            BY <1>0, ConcatEmptySeq
          <5> QED
            BY <4>2, <5>1, <5>2
        <4>3. CASE i # 1
          <5>1. i - 1 \in 1..n
            BY <4>3, Predecessor, ZenonT(60)
          <5> QED
            BY <2>0, <4>1, <4>3, <5>1, Zenon
        <4> QED
          BY <4>2, <4>3
      <3> QED
        BY <3>1
    <2> HIDE DEF g
    <2> DEFINE f == CHOOSE h : h = [i \in 1..n |-> IF i = 1 THEN s[i] ELSE h[i - 1] \o s[i]]
    <2>2. f = [i \in 1..n |-> IF i = 1 THEN s[i] ELSE f[i - 1] \o s[i]]
      BY <2>1
    <2>3. FlattenSeq(s) = f[n]
      BY <1>3, Zenon DEF FlattenSeq
    <2> HIDE DEF f
    <2>4. ASSUME NEW i \in 1..n PROVE f[i] = F[i]
      <3> DEFINE Bad == {j \in Nat : j \in 1..n /\ f[j] # F[j]}
      <3> SUFFICES ASSUME i \in Bad PROVE FALSE
        OBVIOUS
      <3>1. PICK j \in Bad : \A k \in Bad : j <= k
        BY LeastNumber
      <3>2. j \in 1..n /\ f[j] # F[j]
        OBVIOUS
      <3>3. CASE j = 1
        BY <2>1, <2>2, <3>2, <3>3 DEF g
      <3>4. CASE j # 1
        <4>1. j - 1 \in 1..n /\ j - 1 \in Nat /\ j - 1 < j
          BY <3>2, <3>4
        <4>2. f[j - 1] = F[j - 1]
          BY SMTT(60), <3>1, <3>2, <4>1
        <4>3. f[j] = f[j - 1] \o s[j]
          BY <2>2, <3>2, <3>4
        <4>4. F[j] = F[j - 1] \o s[j]
          BY <1>1, <3>2 DEF Chain
        <4> QED
          BY <3>2, <4>2, <4>3, <4>4
      <3> QED
        BY <3>3, <3>4
    <2>5. n \in 1..n
      BY <1>3
    <2> QED
      BY <1>1, <2>3, <2>4, <2>5
  <1> QED
    BY <1>2, <1>3

-----------------------------------------------------------------------------
(* Replay: where the writes are in the log.                                *)

Byte == (Producers \X {1, 2}) \cup {Newline}

\* The bytes of one write, and how many they are.
Piece(i) ==
    IF disk[i].whole THEN <<<<disk[i].rec, 1>>, <<disk[i].rec, 2>>, Newline>>
    ELSE SubSeq(<<<<disk[i].rec, 1>>, <<disk[i].rec, 2>>>>, 1, cut)
Size(i) == IF disk[i].whole THEN 3 ELSE cut

LogOK == disk \in Seq(WriteT) /\ cut \in {1, 2}

LEMMA PieceFacts ==
    ASSUME LogOK, NEW i \in 1..Len(disk)
    PROVE  /\ disk[i].rec \in Producers /\ disk[i].whole \in BOOLEAN
           /\ Size(i) \in 1..3 /\ (Size(i) = 3 <=> disk[i].whole)
           /\ Piece(i) \in Seq(Byte) /\ Len(Piece(i)) = Size(i)
           /\ \A k \in 1..Size(i) : Piece(i)[k] = IF k = 3 THEN Newline ELSE <<disk[i].rec, k>>
  <1>1. disk[i].rec \in Producers /\ disk[i].whole \in BOOLEAN
    <2>1. disk[i] \in WriteT
      BY DEF LogOK
    <2> QED
      BY <2>1 DEF WriteT
  <1>2. Size(i) \in 1..3 /\ (Size(i) = 3 <=> disk[i].whole)
    BY DEF LogOK, Size
  <1>3. PICK a, b, c : /\ a = <<disk[i].rec, 1>> /\ b = <<disk[i].rec, 2>> /\ c = Newline
                       /\ a \in Byte /\ b \in Byte /\ c \in Byte
    <2>1. <<disk[i].rec, 1>> \in Byte /\ <<disk[i].rec, 2>> \in Byte /\ Newline \in Byte
      BY <1>1 DEF Byte
    <2> QED
      BY <2>1
  <1>4. CASE disk[i].whole
    <2>1. Piece(i) = <<a, b, c>> /\ Size(i) = 3
      BY <1>3, <1>4 DEF Piece, Size
    <2> HIDE DEF Byte, Newline
    <2>2. <<a, b, c>> \in Seq(Byte)
      BY <1>3
    <2> QED
      BY <1>1, <1>2, <1>3, <2>1, <2>2
  <1>5. CASE ~disk[i].whole
    <2>1. Piece(i) = SubSeq(<<a, b>>, 1, cut) /\ Size(i) = cut
      BY <1>3, <1>5 DEF Piece, Size
    <2> HIDE DEF Byte, Newline
    <2>2. PICK n \in {1, 2} : n = cut
      BY DEF LogOK
    <2>3. n \in Int /\ \A k \in 1..n : <<a, b>>[k] \in Byte
      BY <1>3
    <2>4. /\ SubSeq(<<a, b>>, 1, n) \in Seq(Byte)
          /\ Len(SubSeq(<<a, b>>, 1, n)) = (IF 1 <= n THEN n - 1 + 1 ELSE 0)
          /\ \A k \in 1..(n - 1 + 1) : SubSeq(<<a, b>>, 1, n)[k] = <<a, b>>[1 + k - 1]
      BY <2>3, SubSeqProperties
    <2>5. Piece(i) \in Seq(Byte) /\ Len(Piece(i)) = Size(i)
      BY SMTT(60), <2>1, <2>2, <2>4
    <2>6. ASSUME NEW k \in 1..Size(i) PROVE Piece(i)[k] = IF k = 3 THEN Newline ELSE <<disk[i].rec, k>>
      <3>1. k \in 1..n /\ 1 + k - 1 = k /\ k \in {1, 2} /\ k \in 1..(n - 1 + 1)
        BY <2>1, <2>2
      <3>2. Piece(i)[k] = <<a, b>>[k]
        BY <2>1, <2>2, <2>4, <3>1
      <3>3. a = <<disk[i].rec, 1>> /\ b = <<disk[i].rec, 2>>
        BY <1>3
      <3>4. CASE k = 1
        <4>1. Piece(i)[k] = a
          BY <3>2, <3>4
        <4> QED
          BY <3>3, <3>4, <4>1
      <3>5. CASE k = 2
        <4>1. Piece(i)[k] = b
          BY <3>2, <3>5
        <4> QED
          BY <3>3, <3>5, <4>1
      <3> QED
        BY <3>1, <3>4, <3>5
    <2> QED
      BY <1>1, <1>2, <2>5, <2>6
  <1> QED
    BY <1>1, <1>4, <1>5

\* o[i] is where the first i writes end in the bytes b.
Laid(o, b) ==
    /\ o \in [0..Len(disk) -> Nat] /\ o[0] = 0
    /\ \A i \in 1..Len(disk) : o[i] = o[i - 1] + Size(i)
    /\ \A i, j \in 0..Len(disk) : i < j => o[i] < o[j]
    /\ b \in Seq(Byte) /\ Len(b) = o[Len(disk)]
    /\ \A i \in 1..Len(disk) : \A k \in 1..Size(i) : b[o[i - 1] + k] = Piece(i)[k]

\* A function that grows by every step grows.
LEMMA Growing ==
    ASSUME NEW n \in Nat, NEW o \in [0..n -> Nat], \A i \in 1..n : o[i - 1] < o[i]
    PROVE  \A i, j \in 0..n : i < j => o[i] < o[j]
  <1> SUFFICES ASSUME NEW i \in 0..n, NEW l \in 0..n, i < l, ~(o[i] < o[l]) PROVE FALSE
    OBVIOUS
  <1> DEFINE Bad == {j \in Nat : j <= n /\ i < j /\ ~(o[i] < o[j])}
  <1>0. l \in Bad
    OBVIOUS
  <1>1. PICK j \in Bad : \A k \in Bad : j <= k
    BY <1>0, LeastNumber
  <1>2. j \in 1..n /\ i < j /\ ~(o[i] < o[j]) /\ j - 1 \in 0..n /\ j - 1 \in Nat /\ j - 1 < j
    OBVIOUS
  <1>3. o[j - 1] < o[j] /\ o[j - 1] \in Nat /\ o[j] \in Nat /\ o[i] \in Nat
    BY <1>2
  <1>4. CASE i = j - 1
    BY <1>2, <1>3, <1>4
  <1>5. CASE i # j - 1
    <2>1. i < j - 1
      BY <1>2, <1>5
    <2>2. o[i] < o[j - 1]
      BY <1>1, <1>2, <2>1
    <2> QED
      BY <1>2, <1>3, <2>2
  <1> QED
    BY <1>4, <1>5

LEMMA Layout ==
    ASSUME LogOK
    PROVE  \E o : Laid(o, Bytes(disk, cut))
  <1>1. PICK n \in Nat : n = Len(disk) /\ DOMAIN disk = 1..n
    BY LenProperties DEF LogOK
  <1> DEFINE s == [i \in 1..n |-> Piece(i)]
  <1>2. ASSUME NEW i \in 1..n
        PROVE  /\ s[i] = Piece(i) /\ s[i] \in Seq(Byte) /\ Len(s[i]) = Size(i) /\ Size(i) \in 1..3
    BY <1>1, PieceFacts
  <1>3. s \in Seq(Seq(Byte)) /\ Len(s) = n
    BY <1>1, <1>2
  <1>4. Bytes(disk, cut) = FlattenSeq(s)
    BY <1>1 DEF Bytes, Piece
  <1> HIDE DEF s
  <1>5. PICK F : Chain(Byte, s, n, F) /\ FlattenSeq(s) = F[n]
    BY <1>3, FlattenChain
  <1>6. \A i \in 0..n : F[i] \in Seq(Byte) /\ Len(F[i]) \in Nat
    BY <1>5 DEF Chain
  <1>7. PICK o : o = [i \in 0..n |-> Len(F[i])]
    OBVIOUS
  <1>8. o \in [0..n -> Nat] /\ o[0] = 0 /\ \A i \in 0..n : o[i] = Len(F[i])
    <2>1. F[0] = <<>> /\ 0 \in 0..n /\ Len(<<>>) = 0
      BY <1>5 DEF Chain
    <2> QED
      BY <1>6, <1>7, <2>1
  <1>9. ASSUME NEW i \in 1..n
        PROVE  /\ i - 1 \in 0..n /\ i \in 0..n
               /\ o[i] = o[i - 1] + Size(i) /\ o[i - 1] < o[i]
               /\ \A x \in 1..o[i] : F[i][x] = IF x <= o[i - 1] THEN F[i - 1][x]
                                               ELSE s[i][x - o[i - 1]]
    <2>1. i - 1 \in 0..n /\ i \in 0..n
      BY <1>1
    <2>2. F[i] = F[i - 1] \o s[i]
      BY <1>5 DEF Chain
    <2>3. /\ Len(F[i - 1] \o s[i]) = Len(F[i - 1]) + Len(s[i])
          /\ \A x \in 1..(Len(F[i - 1]) + Len(s[i])) : (F[i - 1] \o s[i])[x] =
                IF x <= Len(F[i - 1]) THEN F[i - 1][x] ELSE s[i][x - Len(F[i - 1])]
      BY ZenonT(60), <1>2, <1>6, <2>1, ConcatProperties
    <2>4. o[i] = o[i - 1] + Size(i)
      BY <1>2, <1>8, <2>1, <2>2, <2>3
    <2>5. o[i - 1] < o[i]
      BY SMTT(60), <1>2, <1>8, <2>1, <2>4
    <2> QED
      BY <1>2, <1>8, <2>1, <2>2, <2>3, <2>4, <2>5
  <1>10. \A i, j \in 0..n : i < j => o[i] < o[j]
    BY <1>8, <1>9, Growing
  <1>11. ASSUME NEW m \in 0..n
         PROVE  \A i \in 1..m : \A k \in 1..Size(i) : F[m][o[i - 1] + k] = Piece(i)[k]
    <2> DEFINE Good(l) == \A i \in 1..l : \A k \in 1..Size(i) : F[l][o[i - 1] + k] = Piece(i)[k]
               Bad == {l \in Nat : l <= n /\ ~Good(l)}
    <2> SUFFICES ASSUME m \in Bad PROVE FALSE
      OBVIOUS
    <2>1. PICK l \in Bad : \A k \in Bad : l <= k
      BY LeastNumber
    <2>2. l \in Nat /\ l <= n /\ ~Good(l)
      OBVIOUS
    <2> HIDE DEF Bad
    <2>3a. PICK i \in 1..l : \E k \in 1..Size(i) : F[l][o[i - 1] + k] # Piece(i)[k]
      BY <2>2
    <2>3. PICK k \in 1..Size(i) : F[l][o[i - 1] + k] # Piece(i)[k]
      BY <2>3a
    <2>4. i \in 1..n /\ l \in 1..n /\ l - 1 \in Nat /\ l - 1 <= n /\ l - 1 < l /\ l - 1 \in 0..n
          /\ i - 1 \in 0..n
      BY <2>2
    <2>5. /\ o[i] = o[i - 1] + Size(i) /\ Size(i) \in 1..3 /\ o[i - 1] \in Nat /\ o[i] \in Nat
          /\ o[l] \in Nat /\ o[l - 1] \in Nat /\ o[l - 1] < o[l]
      BY <1>2, <1>8, <1>9, <2>4
    <2>6. o[i - 1] + k \in 1..o[i] /\ o[i - 1] + k > o[i - 1]
      BY <2>5
    <2>7. \A x \in 1..o[l] : F[l][x] = IF x <= o[l - 1] THEN F[l - 1][x] ELSE s[l][x - o[l - 1]]
      BY <1>9, <2>4
    <2>8. CASE i = l
      <3>1. F[l][o[i - 1] + k] = s[l][(o[i - 1] + k) - o[l - 1]]
        BY <2>5, <2>6, <2>7, <2>8
      <3>2. (o[i - 1] + k) - o[l - 1] = k
        BY <2>5, <2>8
      <3> QED
        BY <1>2, <2>3, <2>4, <2>8, <3>1, <3>2
    <2>9. CASE i # l
      <3>1. i \in 1..(l - 1) /\ i \in 0..n
        BY <2>2, <2>9
      <3>2. o[i] <= o[l - 1]
        <4>1. i = l - 1 \/ i < l - 1
          BY <3>1
        <4> QED
          BY <1>10, <2>4, <2>5, <3>1, <4>1
      <3>3. F[l][o[i - 1] + k] = F[l - 1][o[i - 1] + k]
        BY <2>5, <2>6, <2>7, <3>2
      <3>4. Good(l - 1)
        BY <2>1, <2>4 DEF Bad
      <3> QED
        BY <2>3, <3>1, <3>3, <3>4
    <2> QED
      BY <2>8, <2>9
  <1>12. n \in 0..n
    BY <1>1
  <1>13. Bytes(disk, cut) = F[n] /\ F[n] \in Seq(Byte) /\ Len(F[n]) = o[n]
    BY <1>4, <1>5, <1>6, <1>8, <1>12
  <1>14. \A i \in 1..n : \A k \in 1..Size(i) : F[n][o[i - 1] + k] = Piece(i)[k]
    BY <1>11, <1>12
  <1> QED
    BY SMTT(60), <1>1, <1>8, <1>9, <1>10, <1>13, <1>14 DEF Laid

\* Where a write is, and what stands there.
LEMMA PlaceFacts ==
    ASSUME LogOK, NEW o, NEW b, Laid(o, b), NEW i \in 1..Len(disk)
    PROVE  /\ i - 1 \in 0..Len(disk) /\ o[i - 1] \in Nat /\ o[i] \in Nat /\ Len(b) \in Nat
           /\ o[i] = o[i - 1] + Size(i) /\ Size(i) \in 1..3 /\ (Size(i) = 3 <=> disk[i].whole)
           /\ o[i] <= Len(b) /\ (i = Len(disk) => o[i] = Len(b))
  <1>1. PICK n \in Nat : n = Len(disk)
    BY DEF LogOK
  <1>2. i \in 1..n /\ i - 1 \in 0..n /\ i \in 0..n /\ n \in 0..n
    BY <1>1
  <1>3. o[i - 1] \in Nat /\ o[i] \in Nat /\ o[n] \in Nat /\ Len(b) = o[n]
    BY <1>1, <1>2 DEF Laid
  <1>4. o[i] = o[i - 1] + Size(i) /\ Size(i) \in 1..3 /\ (Size(i) = 3 <=> disk[i].whole)
    BY <1>1, PieceFacts DEF Laid
  <1>5. o[i] <= o[n]
    <2>1. i = n \/ i < n
      BY <1>2
    <2>2. i < n => o[i] < o[n]
      BY <1>1, <1>2 DEF Laid
    <2> QED
      BY <1>3, <2>1, <2>2
  <1> QED
    BY <1>1, <1>2, <1>3, <1>4, <1>5

LEMMA NewlineFacts ==
    ASSUME LogOK, NEW o, NEW b, Laid(o, b), NEW i \in 1..Len(disk), NEW k \in 1..Size(i)
    PROVE  /\ o[i - 1] + k \in 1..Len(b)
           /\ k = 3 => b[o[i - 1] + k] = Newline
           /\ k # 3 => b[o[i - 1] + k] = <<disk[i].rec, k>> /\ b[o[i - 1] + k] # Newline
  <1>1. o[i - 1] + k \in 1..Len(b)
    <2>1. /\ o[i - 1] \in Nat /\ o[i] \in Nat /\ Len(b) \in Nat /\ o[i] <= Len(b)
          /\ o[i] = o[i - 1] + Size(i) /\ Size(i) \in 1..3
      BY PlaceFacts
    <2> QED
      BY SMTT(60), <2>1
  <1>2. b[o[i - 1] + k] = IF k = 3 THEN Newline ELSE <<disk[i].rec, k>>
    <2>1. b[o[i - 1] + k] = Piece(i)[k]
      BY Zenon DEF Laid
    <2>2. Piece(i)[k] = IF k = 3 THEN Newline ELSE <<disk[i].rec, k>>
      BY PieceFacts, Zenon
    <2> QED
      BY <2>1, <2>2, Zenon
  <1>3. <<disk[i].rec, k>> # Newline
    <2>1. PICK r : r = disk[i].rec
      OBVIOUS
    <2>2. Len(<<r, k>>) = 2 /\ Len(<<>>) = 0
      OBVIOUS
    <2> QED
      BY <2>1, <2>2 DEF Newline
  <1> QED
    BY <1>1, <1>2, <1>3

\* Every byte of the log belongs to a write.
LEMMA Locate ==
    ASSUME LogOK, NEW o, NEW b, Laid(o, b), NEW x \in 1..Len(b)
    PROVE  \E i \in 1..Len(disk) : \E k \in 1..Size(i) : x = o[i - 1] + k
  <1>1. PICK n \in Nat : n = Len(disk)
    BY DEF LogOK
  <1>2. o \in [0..n -> Nat] /\ o[0] = 0 /\ Len(b) = o[n] /\ o[n] \in Nat
    BY <1>1 DEF Laid
  <1> DEFINE T == {j \in Nat : j <= n /\ x <= o[j]}
  <1>3. n \in T
    BY <1>2
  <1>4. PICK i \in T : \A j \in T : i <= j
    BY <1>3, LeastNumber
  <1>5. i \in Nat /\ i <= n /\ x <= o[i]
    OBVIOUS
  <1>6. i # 0
    BY <1>2, <1>5
  <1>7. i \in 1..Len(disk) /\ i - 1 \in Nat /\ i - 1 <= n /\ i - 1 < i
    BY <1>1, <1>5, <1>6
  <1>8. ~(x <= o[i - 1])
    BY <1>4, <1>5, <1>7
  <1> HIDE DEF T
  <1>9. o[i - 1] \in Nat /\ o[i] \in Nat /\ o[i] = o[i - 1] + Size(i) /\ Size(i) \in 1..3
    BY <1>7, PlaceFacts
  <1>10. x - o[i - 1] \in 1..Size(i) /\ x = o[i - 1] + (x - o[i - 1])
    BY SMTT(60), <1>5, <1>8, <1>9
  <1> QED
    BY <1>7, <1>10

\* The lines start where a write does that is the first or follows a whole one.
LEMMA StartsAreWrites ==
    ASSUME LogOK, NEW o, NEW b, Laid(o, b), NEW x \in LineStarts(b)
    PROVE  \E i \in 1..Len(disk) : (i = 1 \/ disk[i - 1].whole) /\ x = o[i - 1] + 1
  <1>1. PICK n \in Nat : n = Len(disk)
    BY DEF LogOK
  <1>2. /\ x \in 1..Len(b) /\ (x = 1 \/ b[x - 1] = Newline) /\ o[0] = 0
        /\ Len(b) = o[n] /\ Len(b) \in Nat
    <2>1. b \in Seq(Byte) /\ o[0] = 0 /\ Len(b) = o[n]
      BY <1>1 DEF Laid
    <2> QED
      BY <2>1, LenProperties DEF LineStarts
  <1>3. CASE x = 1
    <2>1. n # 0
      BY <1>2
    <2>2. 1 \in 1..Len(disk) /\ 1 - 1 = 0
      BY <1>1, <2>1
    <2> QED
      BY <1>2, <1>3, <2>2
  <1>4. CASE x # 1
    <2>1. x - 1 \in 1..Len(b)
      BY <1>2, <1>4
    <2>2. PICK i \in 1..Len(disk) : \E k \in 1..Size(i) : x - 1 = o[i - 1] + k
      BY <2>1, Locate
    <2>3. PICK k \in 1..Size(i) : x - 1 = o[i - 1] + k
      BY <2>2
    <2>4. k = 3
      <3>1. b[o[i - 1] + k] = Newline
        BY <1>2, <1>4, <2>3
      <3>2. k # 3 => b[o[i - 1] + k] # Newline
        BY NewlineFacts
      <3> QED
        BY <2>3, <3>1, <3>2
    <2>5. disk[i].whole /\ x - 1 = o[i] /\ o[i] \in Nat /\ (i = Len(disk) => o[i] = Len(b))
      BY SMTT(60), <2>3, <2>4, PlaceFacts
    <2>6. i # Len(disk) /\ x = o[i] + 1
      BY <1>2, <2>5
    <2>7. i + 1 \in 1..Len(disk) /\ (i + 1) - 1 = i
      BY <1>1, <2>6
    <2> QED
      BY <2>5, <2>6, <2>7
  <1> QED
    BY <1>3, <1>4

LEMMA WritesAreStarts ==
    ASSUME LogOK, NEW o, NEW b, Laid(o, b), NEW i \in 1..Len(disk), i = 1 \/ disk[i - 1].whole
    PROVE  o[i - 1] + 1 \in LineStarts(b)
  <1>1. PICK n \in Nat : n = Len(disk)
    BY DEF LogOK
  <1>2. o[i - 1] + 1 \in 1..Len(b) /\ o[0] = 0 /\ b \in Seq(Byte) /\ o[i - 1] \in Nat
    <2>1. o[0] = 0 /\ b \in Seq(Byte)
      BY DEF Laid
    <2>2. PICK z \in Nat, y \in Nat, l \in Nat, h \in 1..3 :
             /\ z = o[i - 1] /\ y = o[i] /\ l = Len(b) /\ h = Size(i)
             /\ y <= l /\ y = z + h
      BY SMTT(60), PlaceFacts
    <2>3. z + 1 \in 1..l
      BY SMTT(60), <2>2
    <2> QED
      BY <2>1, <2>2, <2>3
  <1>3. DOMAIN b = 1..Len(b)
    BY <1>2, LenProperties
  <1>4. CASE i = 1
    <2>1. o[i - 1] + 1 = 1
      BY <1>2, <1>4
    <2> QED
      BY <1>2, <1>3, <2>1 DEF LineStarts
  <1>5. CASE i # 1
    <2>1. i - 1 \in 1..Len(disk) /\ disk[i - 1].whole
      BY <1>1, <1>5
    <2>2. PICK h \in 1..Len(disk) : h = i - 1
      BY <2>1
    <2>3. Size(h) = 3 /\ o[h] = o[h - 1] + 3 /\ b[o[h - 1] + 3] = Newline
      <3>1. Size(h) = 3 /\ o[h] = o[h - 1] + Size(h)
        BY <2>1, <2>2, PlaceFacts
      <3>2. PICK l \in 1..Size(h) : l = 3
        BY <3>1
      <3>3. b[o[h - 1] + l] = Newline
        BY <2>2, <3>2, NewlineFacts
      <3> QED
        BY <3>1, <3>2, <3>3
    <2>4. (o[i - 1] + 1) - 1 = o[h]
      BY <1>2, <2>2
    <2> QED
      BY <1>2, <1>3, <2>3, <2>4 DEF LineStarts
  <1> QED
    BY <1>4, <1>5

\* A line ends before the first newline, or with the log.
LEMMA LineFacts ==
    ASSUME NEW b \in Seq(Byte), NEW x \in 1..Len(b)
    PROVE  \E e \in (x - 1)..Len(b) :
               /\ e = Len(b) \/ (e < Len(b) /\ b[e + 1] = Newline)
               /\ \A y \in x..e : b[y] # Newline
               /\ Line(b, x) \in Seq(Byte) /\ Len(Line(b, x)) = e - x + 1
               /\ \A k \in 1..(e - x + 1) : Line(b, x)[k] = b[x + k - 1]
  <1>1. PICK l \in Nat : l = Len(b)
    BY LenProperties
  <1> DEFINE ends == {j \in x..Len(b) : b[j] = Newline}
             first == CHOOSE j \in ends : \A k \in ends : j <= k
             last == IF ends = {} THEN Len(b) ELSE first - 1
  <1>2. Line(b, x) = SubSeq(b, x, last)
    BY DEF Line
  <1>3. /\ last \in (x - 1)..Len(b)
        /\ last = Len(b) \/ (last < Len(b) /\ b[last + 1] = Newline)
        /\ \A y \in x..last : b[y] # Newline
    <2>1. CASE ends = {}
      BY <1>1, <2>1
    <2>2. CASE ends # {}
      <3>1. ends \in SUBSET Nat
        BY <1>1
      <3>2. \E j \in ends : \A k \in ends : j <= k
        BY <2>2, <3>1, LeastNumber
      <3>3. PICK f : f = first
        OBVIOUS
      <3>4. f \in ends /\ \A k \in ends : f <= k
        BY <3>2, <3>3
      <3>5. last = f - 1 /\ f \in x..l /\ f \in Nat /\ b[f] = Newline
        BY <1>1, <2>2, <3>3, <3>4
      <3>6. ASSUME NEW y \in x..last PROVE b[y] # Newline
        <4>1. y < f /\ y \in x..Len(b)
          BY <1>1, <3>5
        <4> QED
          BY SMTT(60), <3>4, <3>5, <4>1
      <3>7. (f - 1) + 1 = f /\ f - 1 < l /\ f - 1 \in (x - 1)..l
        BY <3>5
      <3> QED
        BY <1>1, <3>5, <3>6, <3>7
    <2> QED
      BY <2>1, <2>2
  <1> HIDE DEF last
  <1>4. PICK e \in (x - 1)..l : e = last
    BY <1>1, <1>3
  <1>5. \A y \in x..e : b[y] \in Byte
    BY <1>1, <1>4
  <1>6. x \in Int /\ e \in Int
    BY <1>1
  <1>7. /\ SubSeq(b, x, e) \in Seq(Byte)
        /\ Len(SubSeq(b, x, e)) = (IF x <= e THEN e - x + 1 ELSE 0)
        /\ \A k \in 1..(e - x + 1) : SubSeq(b, x, e)[k] = b[x + k - 1]
    BY <1>5, <1>6, SubSeqProperties
  <1>8. Len(SubSeq(b, x, e)) = e - x + 1
    BY <1>6, <1>7
  <1> QED
    BY <1>1, <1>2, <1>3, <1>4, <1>7, <1>8

\* Two sequences of two.
LEMMA PairFacts ==
    ASSUME NEW T, NEW s \in Seq(T), NEW u, NEW v
    PROVE  s = <<u, v>> <=> Len(s) = 2 /\ s[1] = u /\ s[2] = v
  <1>1. s = <<u, v>> => Len(s) = 2 /\ s[1] = u /\ s[2] = v
    OBVIOUS
  <1>2. ASSUME Len(s) = 2, s[1] = u, s[2] = v PROVE s = <<u, v>>
    <2>1. s \in [1..2 -> T] /\ DOMAIN s = 1..2
      BY <1>2, LenProperties
    <2>2. s = [k \in 1..2 |-> s[k]]
      BY <2>1
    <2>3. <<u, v>> = [k \in 1..2 |-> s[k]]
      BY <1>2
    <2> QED
      BY <2>2, <2>3
  <1> QED
    BY <1>1, <1>2

\* The lines of two bytes, and lines of more or less.
Shapes(b, l, x, u, v) ==
    /\ x + 1 <= l /\ b[x + 1] # Newline /\ (x + 1 = l \/ b[x + 2] = Newline)
           => (Line(b, x) = <<u, v>> <=> b[x] = u /\ b[x + 1] = v)
    /\ x = l => Line(b, x) # <<u, v>>
    /\ x + 2 <= l /\ b[x + 1] # Newline /\ b[x + 2] # Newline => Line(b, x) # <<u, v>>
    /\ Line(b, x) = <<u, v>> => b[x + 1] = v

LEMMA LineShapes ==
    ASSUME NEW b \in Seq(Byte), NEW l \in Nat, l = Len(b), NEW x \in 1..l, NEW u, NEW v,
           b[x] # Newline
    PROVE  Shapes(b, l, x, u, v)
  <1>1. PICK e \in (x - 1)..l :
               /\ e = l \/ (e < l /\ b[e + 1] = Newline)
               /\ \A y \in x..e : b[y] # Newline
               /\ Line(b, x) \in Seq(Byte) /\ Len(Line(b, x)) = e - x + 1
               /\ \A k \in 1..(e - x + 1) : Line(b, x)[k] = b[x + k - 1]
    BY LineFacts
  <1>2. PICK s \in Seq(Byte) : s = Line(b, x)
    BY <1>1
  <1>3. s = <<u, v>> <=> Len(s) = 2 /\ s[1] = u /\ s[2] = v
    BY PairFacts
  <1>4. s = <<u, v>> => e = x + 1
    BY <1>1, <1>2, <1>3
  <1>5. ASSUME e = x + 1 PROVE s = <<u, v>> <=> b[x] = u /\ b[x + 1] = v
    <2>1. /\ e - x + 1 = 2 /\ 1 \in 1..(e - x + 1) /\ 2 \in 1..(e - x + 1)
          /\ x + 1 - 1 = x /\ x + 2 - 1 = x + 1
      BY <1>5
    <2>2. s[1] = b[x] /\ s[2] = b[x + 1] /\ Len(s) = 2
      BY <1>1, <1>2, <2>1
    <2> QED
      BY <1>3, <2>2
  <1>6. e >= x
    <2>1. e = x - 1 => e + 1 = x /\ e < l
      OBVIOUS
    <2> QED
      BY SMTT(60), <1>1, <2>1
  <1>7. x + 1 <= l /\ b[x + 1] # Newline => e >= x + 1
    <2>1. e = x => e + 1 = x + 1
      OBVIOUS
    <2> QED
      BY <1>1, <1>6, <2>1
  <1>8. x + 1 <= l /\ b[x + 1] # Newline /\ (x + 1 = l \/ b[x + 2] = Newline) => e = x + 1
    <2>1. e >= x + 2 => x + 2 \in x..e
      OBVIOUS
    <2> QED
      BY <1>1, <1>7, <2>1
  <1>9. x + 2 <= l /\ b[x + 1] # Newline /\ b[x + 2] # Newline => e # x + 1
    <2>1. e = x + 1 => e + 1 = x + 2
      OBVIOUS
    <2> QED
      BY SMTT(60), <1>1, <2>1
  <1>10. x = l => e # x + 1
    OBVIOUS
  <1> QED
    BY <1>2, <1>4, <1>5, <1>8, <1>9, <1>10 DEF Shapes

\* The line of a write is a record when the write is whole, or the last and
\* lacks only its newline; otherwise the next write is run together with it.
LEMMA LineIsRecord ==
    ASSUME LogOK, NEW o, NEW b, Laid(o, b), NEW i \in 1..Len(disk), NEW p \in Producers
    PROVE  Line(b, o[i - 1] + 1) = <<<<p, 1>>, <<p, 2>>>>
               <=> p = disk[i].rec /\ (disk[i].whole \/ (i = Len(disk) /\ cut = 2))
  <1>1. PICK n \in Nat : n = Len(disk)
    BY DEF LogOK
  <1>2. PICK r : r = disk[i].rec
    OBVIOUS
  <1>3. PICK z \in Nat, l \in Nat : z = o[i - 1] /\ l = Len(b)
    BY PlaceFacts
  <1>4. PICK h \in 1..3 : h = Size(i)
    BY PlaceFacts
  <1>5. (h = 3 <=> disk[i].whole) /\ o[i] = z + h /\ (i = n => z + h = l) /\ z + h <= l
    BY SMTT(60), <1>1, <1>3, <1>4, PlaceFacts
  <1>6. ASSUME NEW k \in 1..h
        PROVE  /\ k = 3 => b[z + k] = Newline
               /\ k # 3 => b[z + k] = <<r, k>> /\ b[z + k] # Newline
    <2>1. k \in 1..Size(i)
      BY <1>4
    <2> QED
      BY SMTT(60), <1>2, <1>3, <2>1, NewlineFacts
  <1>7. b[z + 1] = <<r, 1>> /\ b[z + 1] # Newline
    <2>1. PICK k \in 1..h : k = 1
      OBVIOUS
    <2>2. b[z + k] = <<r, k>> /\ b[z + k] # Newline
      BY <1>6, <2>1
    <2> QED
      BY <2>1, <2>2
  <1>8. ASSUME h >= 2 PROVE b[z + 2] = <<r, 2>> /\ b[z + 2] # Newline
    <2>1. PICK k \in 1..h : k = 2
      BY <1>8
    <2>2. b[z + k] = <<r, k>> /\ b[z + k] # Newline
      BY <1>6, <2>1
    <2> QED
      BY <2>1, <2>2
  <1>9. ASSUME h = 3 PROVE b[z + 3] = Newline
    <2>1. PICK k \in 1..h : k = 3
      BY <1>9
    <2> QED
      BY <1>6, <2>1
  <1>10. PICK x \in 1..l : x = z + 1
    BY <1>5
  <1>11. x + 1 = z + 2 /\ x + 2 = z + 3
    BY <1>10
  <1> DEFINE Is == Line(b, x) = <<<<p, 1>>, <<p, 2>>>>
  <1>12. /\ x + 1 <= l /\ b[x + 1] # Newline /\ (x + 1 = l \/ b[x + 2] = Newline)
                => (Is <=> b[x] = <<p, 1>> /\ b[x + 1] = <<p, 2>>)
         /\ x = l => ~Is
         /\ x + 2 <= l /\ b[x + 1] # Newline /\ b[x + 2] # Newline => ~Is
         /\ Is => b[x + 1] = <<p, 2>>
    <2>1. b \in Seq(Byte)
      BY DEF Laid
    <2>2. l = Len(b)
      BY <1>3
    <2>3. b[x] # Newline
      BY <1>7, <1>10
    <2>4. Shapes(b, l, x, <<p, 1>>, <<p, 2>>)
      BY <2>1, <2>2, <2>3, LineShapes
    <2> QED
      BY <2>4 DEF Shapes
  <1> HIDE DEF Is
  <1>13. <<r, 1>> = <<p, 1>> /\ <<r, 2>> = <<p, 2>> <=> p = r
    OBVIOUS
  <1>14. SUFFICES Is <=> p = r /\ (disk[i].whole \/ (i = n /\ cut = 2))
    BY <1>1, <1>2, <1>3, <1>10 DEF Is
  <1>15. CASE disk[i].whole
    <2>1. h = 3 /\ x + 1 <= l
      BY <1>5, <1>10, <1>15
    <2>2. b[x] = <<r, 1>> /\ b[x + 1] = <<r, 2>> /\ b[x + 1] # Newline /\ b[x + 2] = Newline
      BY <1>7, <1>8, <1>9, <1>10, <1>11, <2>1
    <2> QED
      BY <1>12, <1>13, <1>15, <2>1, <2>2
  <1>16. CASE ~disk[i].whole
    <2>1. h = cut /\ cut \in {1, 2}
      BY <1>4, <1>16 DEF Size, LogOK
    <2>2. CASE i = n /\ h = 2
      <3>1. x + 1 = l /\ x + 1 <= l
        BY <1>5, <1>10, <2>2
      <3>2. b[x] = <<r, 1>> /\ b[x + 1] = <<r, 2>> /\ b[x + 1] # Newline
        BY <1>7, <1>8, <1>10, <1>11, <2>2
      <3> QED
        BY <1>12, <1>13, <1>16, <2>1, <2>2, <3>1, <3>2
    <2>3. CASE i = n /\ h = 1
      <3>1. x = l /\ cut # 2
        BY <1>5, <1>10, <2>1, <2>3
      <3> QED
        BY <1>12, <1>16, <3>1
    <2>4. CASE i # n
      <3>1. PICK j \in 1..Len(disk) : j = i + 1
        BY <1>1, <2>4
      <3>2. PICK t : t = disk[j].rec
        OBVIOUS
      <3>3. Size(j) \in 1..3 /\ o[j - 1] = z + h /\ o[j] = o[j - 1] + Size(j) /\ o[j] <= Len(b)
            /\ o[j] \in Nat /\ Len(b) \in Nat
        <4>1. j - 1 = i
          BY <1>1, <3>1
        <4> QED
          BY SMTT(60), <1>5, <3>1, <4>1, PlaceFacts
      <3>4. PICK k \in 1..Size(j) : k = 1
        BY <3>3
      <3>5. b[o[j - 1] + k] = <<disk[j].rec, k>> /\ b[o[j - 1] + k] # Newline
        BY <3>4, NewlineFacts
      <3>6. b[x + h] = <<t, 1>> /\ b[x + h] # Newline /\ x + h <= l
        <4>1. o[j - 1] + k = x + h
          BY <1>10, <3>3, <3>4
        <4>2. x + h <= l
          <5>1. x + h = z + h + 1 /\ z + h + 1 <= o[j]
            BY SMTT(60), <1>10, <3>3
          <5>2. PICK m \in Nat : m = o[j] /\ m <= l
            BY <1>3, <3>3
          <5> QED
            BY <5>1, <5>2
        <4>3. b[o[j - 1] + k] = <<t, 1>> /\ b[o[j - 1] + k] # Newline
          BY <3>2, <3>4, <3>5
        <4> QED
          BY <4>1, <4>2, <4>3
      <3>7. CASE h = 2
        <4>1. b[x + 1] # Newline /\ b[x + 2] # Newline /\ x + 2 <= l
          <5>1. h >= 2
            BY <3>7
          <5> QED
            BY <1>8, <1>11, <3>6, <3>7, <5>1
        <4> QED
          BY <1>12, <1>16, <2>4, <4>1
      <3>8. CASE h = 1
        <4>1. <<t, 1>> # <<p, 2>>
          OBVIOUS
        <4>2. ~Is
          BY <1>12, <3>6, <3>8, <4>1
        <4> QED
          BY <1>16, <2>4, <4>2
      <3> QED
        BY <2>1, <3>7, <3>8
    <2> QED
      BY <2>1, <2>2, <2>3, <2>4
  <1> QED
    BY <1>15, <1>16

-----------------------------------------------------------------------------
(* Replay: what is counted.                                                *)

\* The writes from the i-th on, whole or torn, counted one by one.
CountFrom(T, i, n) == Cardinality({j \in i..n : j \in T})

LEMMA SuffixCount ==
    ASSUME NEW n \in Nat, NEW T, NEW i \in 1..n
    PROVE  /\ CountFrom(T, i, n) \in Nat /\ CountFrom(T, i + 1, n) \in Nat
           /\ i \in T => CountFrom(T, i, n) = CountFrom(T, i + 1, n) + 1
           /\ i \notin T => CountFrom(T, i, n) = CountFrom(T, i + 1, n)
  <1> DEFINE A == {j \in i..n : j \in T}
             B == {j \in (i + 1)..n : j \in T}
  <1>1. IsFiniteSet(i..n) /\ IsFiniteSet((i + 1)..n)
    BY FS_Interval
  <1>2. A \in SUBSET (i..n) /\ B \in SUBSET ((i + 1)..n)
    OBVIOUS
  <1>3. IsFiniteSet(A) /\ IsFiniteSet(B)
    BY <1>1, <1>2, FS_Subset
  <1>4. i \notin B /\ A = IF i \in T THEN B \cup {i} ELSE B
    OBVIOUS
  <1> HIDE DEF A, B
  <1>5. Cardinality(A) \in Nat /\ Cardinality(B) \in Nat
    BY <1>3, FS_CardinalityType
  <1>6. Cardinality(B \cup {i}) = Cardinality(B) + 1
    BY <1>3, <1>4, FS_AddElement
  <1>7. CountFrom(T, i, n) = Cardinality(A) /\ CountFrom(T, i + 1, n) = Cardinality(B)
    BY DEF A, B, CountFrom
  <1> QED
    BY <1>4, <1>5, <1>6, <1>7

\* Behind is the distance to the end of the log.
LEMMA BehindIsDistance ==
    ASSUME LogOK, NEW o, NEW b, Laid(o, b), NEW i \in 1..Len(disk)
    PROVE  Behind(i) = Len(b) - o[i - 1]
  <1>1. PICK n \in Nat : n = Len(disk)
    BY DEF LogOK
  <1>2. PICK l \in Nat : l = Len(b) /\ o[n] = l
    BY <1>1, PlaceFacts DEF Laid
  <1>3. PICK c \in {1, 2} : c = cut
    BY DEF LogOK
  <1> DEFINE W == {j \in 1..n : disk[j].whole}
             R == {j \in 1..n : ~disk[j].whole}
             Past(h) == 3 * CountFrom(W, h, n) + c * CountFrom(R, h, n)
  <1>4. ASSUME NEW h \in 1..n PROVE Behind(h) = Past(h)
    <2>1. {j \in h..n : j \in W} = {j \in h..n : disk[j].whole}
      OBVIOUS
    <2>2. {j \in h..n : j \in R} = {j \in h..n : ~disk[j].whole}
      OBVIOUS
    <2> QED
      BY <1>1, <1>3, <2>1, <2>2 DEF Behind, CountFrom
  <1>5. ASSUME NEW h \in 1..n
        PROVE  /\ Past(h) \in Nat /\ Past(h + 1) \in Nat
               /\ Past(h) = Past(h + 1) + Size(h)
    <2> DEFINE a == CountFrom(W, h + 1, n)
               d == CountFrom(R, h + 1, n)
    <2>1. CASE disk[h].whole
      <3>1. h \in W /\ h \notin R /\ Size(h) = 3
        BY <2>1 DEF Size
      <3> HIDE DEF W, R
      <3>2. a \in Nat /\ CountFrom(W, h, n) = a + 1
        BY <3>1, SuffixCount
      <3>3. d \in Nat /\ CountFrom(R, h, n) = d
        BY <3>1, SuffixCount
      <3>4. PICK a1 \in Nat, d1 \in Nat : a1 = a /\ d1 = d
        BY <3>2, <3>3
      <3>5. Past(h) = 3 * (a1 + 1) + c * d1 /\ Past(h + 1) = 3 * a1 + c * d1
        BY <3>2, <3>3, <3>4
      <3> HIDE DEF Past, a, d
      <3>6. c * d1 \in Nat
        OBVIOUS
      <3> QED
        BY <3>1, <3>5, <3>6
    <2>2. CASE ~disk[h].whole
      <3>1. h \notin W /\ h \in R /\ Size(h) = c
        BY <1>3, <2>2 DEF Size
      <3> HIDE DEF W, R
      <3>2. a \in Nat /\ CountFrom(W, h, n) = a
        BY <3>1, SuffixCount
      <3>3. d \in Nat /\ CountFrom(R, h, n) = d + 1
        BY <3>1, SuffixCount
      <3>4. PICK a1 \in Nat, d1 \in Nat : a1 = a /\ d1 = d
        BY <3>2, <3>3
      <3>5. Past(h) = 3 * a1 + c * (d1 + 1) /\ Past(h + 1) = 3 * a1 + c * d1
        BY <3>2, <3>3, <3>4
      <3> HIDE DEF Past, a, d
      <3>6. c * (d1 + 1) = c * d1 + c /\ c * d1 \in Nat
        OBVIOUS
      <3> QED
        BY <3>1, <3>5, <3>6
    <2> QED
      BY <2>1, <2>2
  <1>6. Past(n + 1) = 0
    <2>1. \A T : {j \in (n + 1)..n : j \in T} = {}
      OBVIOUS
    <2>2. \A T : CountFrom(T, n + 1, n) = 0
      BY <2>1, FS_EmptySet DEF CountFrom
    <2>3. CountFrom(W, n + 1, n) = 0 /\ CountFrom(R, n + 1, n) = 0
      BY <2>2
    <2> QED
      BY <2>3
  <1> HIDE DEF Past
  <1> DEFINE Bad == {m \in Nat : m <= n /\ Past((n - m) + 1) # l - o[n - m]}
  <1>7. Bad = {}
    <2> SUFFICES ASSUME Bad # {} PROVE FALSE
      OBVIOUS
    <2>1. PICK m \in Bad : \A k \in Bad : m <= k
      BY LeastNumber
    <2>2. m \in Nat /\ m <= n /\ Past((n - m) + 1) # l - o[n - m]
      OBVIOUS
    <2> HIDE DEF Bad
    <2>3. m # 0
      <3>1. m = 0 => n - m = n /\ (n - m) + 1 = n + 1
        OBVIOUS
      <3> QED
        BY <1>2, <1>6, <2>2, <3>1
    <2>4. m - 1 \in Nat /\ m - 1 <= n /\ m - 1 < m
      BY <2>2, <2>3
    <2>5. PICK h \in 1..Len(disk) : h = (n - m) + 1
      BY <1>1, <2>2, <2>3
    <2>6. Past((n - (m - 1)) + 1) = l - o[n - (m - 1)]
      <3>1. m - 1 \notin Bad
        BY <2>1, <2>2, <2>4
      <3> QED
        BY <2>4, <3>1 DEF Bad
    <2>7. n - (m - 1) = h /\ h - 1 = n - m /\ h \in 1..n
      BY <1>1, <2>2, <2>5
    <2>8. Past(h + 1) = l - o[h]
      BY <2>6, <2>7
    <2>9. o[h] = o[h - 1] + Size(h) /\ o[h - 1] \in Nat /\ o[h] \in Nat /\ Size(h) \in 1..3
      BY PlaceFacts
    <2>10. Past(h) = Past(h + 1) + Size(h)
      BY <1>5, <2>7
    <2>11. Past(h) # l - o[h - 1]
      BY <2>2, <2>5, <2>7
    <2>12. PICK u \in Nat, v \in Nat, w \in 1..3 : u = o[h - 1] /\ v = o[h] /\ w = Size(h)
      BY <2>9
    <2>13. Past(h) = (l - v) + w /\ v = u + w
      BY <2>8, <2>9, <2>10, <2>12
    <2>14. (l - v) + w = l - u
      BY <2>12, <2>13, SMTT(60)
    <2> QED
      BY <2>11, <2>12, <2>13, <2>14
  <1>8. PICK m \in Nat : m <= n /\ (n - m) + 1 = i /\ n - m = i - 1
    <2>1. n - i + 1 \in Nat /\ n - i + 1 <= n /\ (n - (n - i + 1)) + 1 = i /\ n - (n - i + 1) = i - 1
      BY <1>1
    <2> QED
      BY <2>1
  <1>9. Past(i) = l - o[i - 1]
    BY <1>7, <1>8
  <1> QED
    BY <1>1, <1>2, <1>4, <1>9

\* No two writes begin at the same byte.
LEMMA PlacesDiffer ==
    ASSUME LogOK, NEW o, NEW b, Laid(o, b), NEW i \in 1..Len(disk), NEW j \in 1..Len(disk),
           o[i - 1] + 1 = o[j - 1] + 1
    PROVE  i = j
  <1>1. PICK n \in Nat : n = Len(disk)
    BY DEF LogOK
  <1>2. PICK h \in 0..n, k \in 0..n : h = i - 1 /\ k = j - 1
    BY <1>1
  <1>3. o[h] \in Nat /\ o[k] \in Nat /\ o[h] = o[k]
    <2>1. o[i - 1] \in Nat /\ o[j - 1] \in Nat
      BY PlaceFacts
    <2> QED
      BY SMTT(60), <1>2, <2>1
  <1>4. (h < k => o[h] < o[k]) /\ (k < h => o[k] < o[h])
    BY <1>1 DEF Laid
  <1>5. h = k
    BY <1>3, <1>4
  <1> QED
    BY <1>1, <1>2, <1>5

\* Which writes begin a line of the window.
LEMMA WindowWrites ==
    ASSUME LogOK, NEW o, NEW b, Laid(o, b), NEW i \in 1..Len(disk), window \in Nat
    PROVE  o[i - 1] + 1 \in Window(b, window)
               <=> (i = 1 \/ disk[i - 1].whole) /\ (window = 0 \/ Behind(i) <= window)
  <1>1. PICK z \in Nat, l \in Nat, w \in Nat : z = o[i - 1] /\ l = Len(b) /\ w = window
    BY PlaceFacts
  <1>2. Behind(i) = l - z
    BY <1>1, BehindIsDistance
  <1>3. z + 1 \in LineStarts(b) <=> i = 1 \/ disk[i - 1].whole
    <2>1. ASSUME z + 1 \in LineStarts(b) PROVE i = 1 \/ disk[i - 1].whole
      <3>1. PICK j \in 1..Len(disk) : (j = 1 \/ disk[j - 1].whole) /\ z + 1 = o[j - 1] + 1
        BY <2>1, StartsAreWrites
      <3>2. o[i - 1] + 1 = o[j - 1] + 1
        BY <1>1, <3>1
      <3>3. i = j
        BY <3>2, PlacesDiffer
      <3> QED
        BY <3>1, <3>3
    <2>2. ASSUME i = 1 \/ disk[i - 1].whole PROVE z + 1 \in LineStarts(b)
      BY <1>1, <2>2, WritesAreStarts
    <2> QED
      BY <2>1, <2>2
  <1>4. z + 1 \in Window(b, w) <=> z + 1 \in LineStarts(b) /\ (w = 0 \/ l - w <= 0 \/ z + 1 > l - w)
    BY <1>1 DEF Window
  <1>5. (w = 0 \/ l - w <= 0 \/ z + 1 > l - w) <=> (w = 0 \/ l - z <= w)
    OBVIOUS
  <1> QED
    BY <1>1, <1>2, <1>3, <1>4, <1>5

\* The replay counts a line for every legible write of this hour in the window.
LEMMA CountedWrites ==
    ASSUME LogOK, window \in Nat
    PROVE  Cardinality(Counted(Bytes(disk, cut), window))
               = Cardinality({i \in DOMAIN disk : Legible(i) /\ stamp[disk[i].rec] = hour
                                                  /\ (window = 0 \/ Behind(i) <= window)})
  <1> DEFINE S == {i \in DOMAIN disk : Legible(i) /\ stamp[disk[i].rec] = hour
                                       /\ (window = 0 \/ Behind(i) <= window)}
  <1>1. PICK n \in Nat : n = Len(disk) /\ DOMAIN disk = 1..n
    BY LenProperties DEF LogOK
  <1>2. PICK b : b = Bytes(disk, cut)
    OBVIOUS
  <1>3. PICK o : Laid(o, b)
    BY <1>2, Layout
  <1> DEFINE f == [i \in S |-> o[i - 1] + 1]
             C == Counted(b, window)
  <1>4. ASSUME NEW i \in 1..n PROVE o[i - 1] + 1 \in C <=> i \in S
    <2>1. i \in 1..Len(disk) /\ i \in DOMAIN disk
      BY <1>1
    <2>2. disk[i].rec \in Producers
      BY <2>1, PieceFacts
    <2>3. o[i - 1] + 1 \in Window(b, window)
               <=> (i = 1 \/ disk[i - 1].whole) /\ (window = 0 \/ Behind(i) <= window)
      BY <1>3, <2>1, WindowWrites
    <2>4. (\E p \in Producers : /\ Line(b, o[i - 1] + 1) = <<<<p, 1>>, <<p, 2>>>>
                                /\ stamp[p] = hour)
               <=> (disk[i].whole \/ (i = Len(disk) /\ cut = 2)) /\ stamp[disk[i].rec] = hour
      <3>1. \A p \in Producers : Line(b, o[i - 1] + 1) = <<<<p, 1>>, <<p, 2>>>>
               <=> p = disk[i].rec /\ (disk[i].whole \/ (i = Len(disk) /\ cut = 2))
        BY <1>3, <2>1, LineIsRecord
      <3> QED
        BY <2>2, <3>1
    <2>5. o[i - 1] + 1 \in C
              <=> /\ o[i - 1] + 1 \in Window(b, window)
                  /\ \E p \in Producers : Line(b, o[i - 1] + 1) = <<<<p, 1>>, <<p, 2>>>>
                                          /\ stamp[p] = hour
      BY DEF Counted
    <2>6. i \in S <=> /\ i = 1 \/ disk[i - 1].whole
                      /\ disk[i].whole \/ (i = Len(disk) /\ cut = 2)
                      /\ stamp[disk[i].rec] = hour /\ (window = 0 \/ Behind(i) <= window)
      BY <2>1 DEF Legible
    <2> HIDE DEF C, S
    <2> QED
      BY <2>3, <2>4, <2>5, <2>6
  <1>5. ASSUME NEW x \in C PROVE \E i \in 1..n : x = o[i - 1] + 1
    <2>1. x \in LineStarts(b)
      BY DEF Counted, Window
    <2> QED
      BY <1>1, <1>3, <2>1, StartsAreWrites
  <1>6. S \in SUBSET (1..n) /\ IsFiniteSet(S)
    <2>1. S \in SUBSET (1..n)
      BY <1>1
    <2> HIDE DEF S
    <2>2. IsFiniteSet(1..n)
      BY FS_Interval
    <2> QED
      BY <2>1, <2>2, FS_Subset
  <1> HIDE DEF S, C
  <1>7. f \in [S -> C]
    BY <1>4, <1>6
  <1>8. \A i, j \in S : f[i] = f[j] => i = j
    <2> SUFFICES ASSUME NEW i \in S, NEW j \in S, f[i] = f[j] PROVE i = j
      OBVIOUS
    <2>1. o[i - 1] + 1 = o[j - 1] + 1 /\ i \in 1..Len(disk) /\ j \in 1..Len(disk)
      BY <1>1, <1>6
    <2> QED
      BY <1>3, <2>1, PlacesDiffer
  <1>9. \A x \in C : \E i \in S : f[i] = x
    BY <1>4, <1>5
  <1>10. f \in Bijection(S, C)
    BY <1>7, <1>8, <1>9 DEF Bijection, Injection, Surjection, IsInjective
  <1>11. ExistsBijection(S, C)
    BY <1>10 DEF ExistsBijection
  <1>12. Cardinality(C) = Cardinality(S)
    BY <1>6, <1>11, FS_Bijection
  <1> QED
    BY <1>2, <1>12 DEF S, C

\* What a process that has come back has found, and counted.
ReplayInv ==
    phase = "back" =>
        /\ LogOK /\ window \in Nat
        /\ used = Replayed(answer) * Cardinality(Counted(Bytes(disk, cut), window))

\* The log a new process finds is made of writes.
LEMMA RestartKeepsReplay ==
    ASSUME NEW log \in Seq(WriteT), NEW n \in {1, 2}, Restart(log, n)
    PROVE  ReplayInv'
  <1>1. LogOK' /\ window' \in Nat
    BY UsageLogAssumption DEF Restart, LogOK, WriteT
  <1>2. /\ answer' = answer /\ stamp' = stamp /\ hour' = hour /\ disk' = log /\ cut' = n
        /\ used' = Replayed(answer) * Cardinality(Counted(Bytes(log, n), window'))
    BY DEF Restart
  <1>3. (Replayed(answer) * Cardinality(Counted(Bytes(disk, cut), window)))'
            = Replayed(answer) * Cardinality(Counted(Bytes(log, n), window'))
    BY <1>2 DEF Counted
  <1> QED
    BY <1>1, <1>2, <1>3 DEF ReplayInv

LEMMA ReplayStep == WriterInv /\ ReplayInv /\ [LogNext]_allVars => ReplayInv'
  <1> SUFFICES ASSUME WriterInv, ReplayInv, [LogNext]_allVars PROVE ReplayInv'
    OBVIOUS
  <1>1. file \in Seq(WriteT) /\ synced \in 0..Len(file)
    BY DEF WriterInv, Records, Stages
  <1>2. ASSUME phase = "up", phase' = phase PROVE ReplayInv'
    BY <1>2 DEF ReplayInv
  <1>3. ASSUME NEW p \in Producers, Account(p) \/ Submit(p) PROVE ReplayInv'
    BY <1>2, <1>3 DEF Account, Submit, logVars
  <1>4. CASE phase = "up" /\ (Consume \/ Close) /\ UNCHANGED logVars
    BY <1>2, <1>4 DEF logVars
  <1>5. CASE HourPasses
    BY <1>2, <1>5 DEF HourPasses
  <1>6. CASE Shutdown
    BY <1>1, <1>6, RestartKeepsReplay DEF Shutdown
  <1>7. CASE Crash
    <2>1. PICK len \in synced..Len(file), torn \in BOOLEAN, n \in {1, 2} :
              Restart([i \in 1..len |-> IF torn /\ i = len THEN [file[i] EXCEPT !.whole = FALSE]
                                        ELSE file[i]], n)
      BY <1>7 DEF Crash
    <2> DEFINE log == [i \in 1..len |-> IF torn /\ i = len THEN [file[i] EXCEPT !.whole = FALSE]
                                        ELSE file[i]]
    <2>2. ASSUME NEW i \in 1..len PROVE log[i] \in WriteT
      <3>1. file[i] \in WriteT
        BY <1>1
      <3> QED
        BY <3>1 DEF WriteT
    <2>3. log \in Seq(WriteT)
      BY SMTT(60), <1>1, <2>2
    <2> HIDE DEF log
    <2>4. Restart(log, n)
      BY SMTT(60), <2>1 DEF log
    <2> QED
      BY <2>3, <2>4, RestartKeepsReplay
  <1>8. CASE UNCHANGED allVars
    BY <1>8 DEF allVars, logVars, ReplayInv, LogOK, Counted, Line, Window, LineStarts
  <1> QED
    BY <1>3, <1>4, <1>5, <1>6, <1>7, <1>8 DEF LogNext

\* What a restarted process counts is what the log says (Replay, scanBounded,
\* replayLine): the writes of this hour in the window that are whole, or the
\* last and lack only their newline, and start a line.  For every log that a
\* shutdown or a crash can leave, wherever the window begins.
THEOREM ReplayIsExact == LogSpec => []ReplayMatchesLog
  <1>1. LogInit => ReplayInv
    BY DEF LogInit, ReplayInv
  <1>2. LogSpec => []WriterInv
    BY LogImplementsWriter, WriterInductive, PTL
  <1>3. ReplayInv => ReplayMatchesLog
    BY CountedWrites DEF ReplayInv, ReplayMatchesLog
  <1> QED
    BY <1>1, <1>2, <1>3, ReplayStep, PTL DEF LogSpec

-----------------------------------------------------------------------------
(* A clean restart.                                                        *)

\* The clock and its readings: a record is stamped after its request is
\* settled and before it is submitted.  A consumer that has exited holds none.
ClockInv ==
    /\ hour \in Nat
    /\ settled \in [Producers -> Int] /\ stamp \in [Producers -> Int]
    /\ \A p \in Producers : settled[p] <= hour /\ stamp[p] <= hour
    /\ \A p \in Producers : stamp[p] # -1 => settled[p] # -1 /\ settled[p] <= stamp[p]
    /\ \A p \in Producers : pc[p] # "new" => stamp[p] # -1
    /\ run = "exited" => cur = {}

LEMMA ClockStep == WriterInv /\ ClockInv /\ [LogNext]_allVars => ClockInv'
  <1> SUFFICES ASSUME WriterInv, ClockInv, [LogNext]_allVars PROVE ClockInv'
    OBVIOUS
  <1>0. pc \in [Producers -> {"new", "checked", "done"}]
    BY DEF WriterInv, Records
  <1>1. ASSUME NEW p \in Producers, Account(p) PROVE ClockInv'
    <2>1. pc' = pc /\ run' = run /\ cur' = cur /\ hour' = hour
      BY <1>1 DEF Account, vars
    <2>2. CASE settled[p] = -1 /\ settled' = [settled EXCEPT ![p] = hour] /\ stamp' = stamp
      <3>1. /\ settled' \in [Producers -> Int] /\ settled'[p] = hour
            /\ \A r \in Producers : r # p => settled'[r] = settled[r]
        BY <2>2 DEF ClockInv
      <3>2. stamp[p] = -1
        BY <2>2 DEF ClockInv
      <3> QED
        BY <2>1, <2>2, <3>1, <3>2 DEF ClockInv
    <2>3. CASE settled[p] # -1 /\ stamp' = [stamp EXCEPT ![p] = hour] /\ settled' = settled
      <3>1. /\ stamp' \in [Producers -> Int] /\ stamp'[p] = hour
            /\ \A r \in Producers : r # p => stamp'[r] = stamp[r]
        BY <2>3 DEF ClockInv
      <3>2. hour # -1
        BY DEF ClockInv
      <3> QED
        BY <2>1, <2>3, <3>1, <3>2 DEF ClockInv
    <2> QED
      BY <1>1, <2>2, <2>3 DEF Account
  <1>2. ASSUME NEW p \in Producers, Submit(p) PROVE ClockInv'
    <2>1. stamp[p] # -1 /\ UNCHANGED <<hour, settled, stamp, run, cur>>
      BY <1>2 DEF Submit, logVars, Enqueue, CheckClosed, Send
    <2>2. \A r \in Producers : r # p => pc'[r] = pc[r]
      BY <1>0, <1>2 DEF Submit, Enqueue, CheckClosed, Send
    <2> QED
      BY <2>1, <2>2 DEF ClockInv
  <1>3. CASE phase = "up" /\ (Consume \/ Close) /\ UNCHANGED logVars
    <2>1. UNCHANGED <<hour, settled, stamp, pc>>
      BY <1>3 DEF logVars, Consume, Close, Receive, NoticeStop, Write, Tick, Finish, CloseMark,
                  CloseStop, CloseAwait, CloseCount, CloseReturn
    <2>2. run' = "exited" => cur' = {}
      <3>1. CASE Consume
        BY <3>1 DEF Consume, Receive, NoticeStop, Write, Tick, Finish, done
      <3>2. CASE Close
        <4>1. run' = run /\ cur' = cur
          BY <3>2 DEF Close, CloseMark, CloseStop, CloseAwait, CloseCount, CloseReturn
        <4> QED
          BY <4>1 DEF ClockInv
      <3> QED
        BY <1>3, <3>1, <3>2
    <2> QED
      BY <2>1, <2>2 DEF ClockInv
  <1>4. CASE HourPasses
    <2>1. hour' = hour + 1 /\ UNCHANGED <<settled, stamp, pc, run, cur>>
      BY <1>4 DEF HourPasses, vars
    <2>2. hour' \in Nat /\ hour <= hour'
      BY <2>1 DEF ClockInv
    <2>3. \A p \in Producers : settled[p] <= hour' /\ stamp[p] <= hour'
      BY <2>1, <2>2 DEF ClockInv
    <2> QED
      BY <2>1, <2>2, <2>3 DEF ClockInv
  <1>5. CASE Shutdown \/ Crash
    <2>1. UNCHANGED <<hour, settled, stamp, pc, run, cur>>
      BY <1>5 DEF Shutdown, Crash, Restart, vars
    <2> QED
      BY <2>1 DEF ClockInv
  <1>6. CASE UNCHANGED allVars
    BY <1>6 DEF allVars, vars, logVars, ClockInv
  <1> QED
    BY <1>1, <1>2, <1>3, <1>4, <1>5, <1>6 DEF LogNext

\* What is charged is at least nothing, and no less is replayed.
LEMMA ChargeFacts ==
    ASSUME NEW a \in Answers
    PROVE  Charge(a) \in Nat /\ Replayed(a) \in Nat /\ Charge(a) <= Replayed(a)
  <1>1. /\ a.ok \in BOOLEAN /\ a.usage \in RawUsage /\ a.nested \in RawUsage
        /\ Reservation \in Nat /\ MaxUsage \in Nat
    BY UsageLogAssumption
  <1>2. \A v \in Int : ClampUsage(v) \in Nat
    BY <1>1 DEF ClampUsage
  <1>3. ASSUME NEW raw \in RawUsage
        PROVE  FromUsageJSON(raw).total \in Nat
    <2>1. raw.in \in Int /\ raw.out \in Int /\ raw.total \in Int
      BY DEF RawUsage
    <2>2. PICK u \in Nat, v \in Nat, w \in Nat :
              u = ClampUsage(raw.in) /\ v = ClampUsage(raw.out) /\ w = ClampUsage(raw.total)
      BY <1>2, <2>1
    <2> QED
      BY <2>2 DEF FromUsageJSON, NoUsage
  <1>4. ParseUsage(a).total \in Nat
    BY <1>1, <1>3 DEF ParseUsage
  <1>5. PICK t \in Nat : t = ParseUsage(a).total
    BY <1>4
  <1>6. Charge(a) \in Nat
    BY <1>1, <1>5 DEF Charge
  <1> QED
    BY <1>5, <1>6 DEF Replayed

\* Products of naturals grow with their factors.
LEMMA ProductGrows ==
    ASSUME NEW a \in Nat, NEW b \in Nat, NEW c \in Nat, NEW d \in Nat, a <= b, c <= d
    PROVE  a * c <= b * d
  <1>1. PICK u \in Nat, v \in Nat : b = a + u /\ d = c + v
    <2>1. b - a \in Nat /\ d - c \in Nat /\ b = a + (b - a) /\ d = c + (d - c)
      OBVIOUS
    <2> QED
      BY <2>1
  <1>2. a * c \in Nat /\ a * v \in Nat /\ u * c \in Nat /\ u * v \in Nat
    OBVIOUS
  <1>3. (a + u) * (c + v) = a * c + a * v + u * c + u * v
    OBVIOUS
  <1> QED
    BY <1>1, <1>2, <1>3

\* When nothing was dropped and nothing waits, every call that has ended has
\* its record in the log, and every write is whole.
LEMMA CleanLog ==
    ASSUME WriterInv, ClockInv, close = "returned", dropped = 0, q = <<>>
    PROVE  /\ \A p \in Ended : \E i \in DOMAIN file : file[i].rec = p
           /\ \A i \in DOMAIN file : file[i].whole
  <1>1. cur = {} /\ Cardinality(cur) = 0 /\ Len(q) = 0
    BY FS_EmptySet DEF WriterInv, Stages, ClockInv
  <1>2. IsFiniteSet(Ended)
    BY WriterAssumption, FS_Subset DEF Ended
  <1>3. Written \in SUBSET Ended /\ IsFiniteSet(Written)
    <2>1. Written \subseteq Logged /\ Logged \subseteq Ended
      BY DEF Written, Logged, WriterInv, Records
    <2> QED
      BY <1>2, <2>1, FS_Subset
  <1>4. Cardinality(Ended) = Cardinality(Written)
    <2>1. Cardinality(Written) \in Nat
      BY <1>3, FS_CardinalityType
    <2>2. Cardinality(Ended) = Len(q) + Cardinality(cur) + Cardinality(Written) + dropped
      BY DEF WriterInv, Records
    <2> QED
      BY <1>1, <2>1, <2>2
  <1>5. Ended = Written
    BY <1>2, <1>3, <1>4, FS_Subset
  <1>6. ASSUME NEW i \in DOMAIN file PROVE file[i].whole
    <2>1. file[i].rec \in Written
      BY <1>5 DEF Logged, WriterInv, Records
    <2>2. PICK j \in DOMAIN file : file[j].whole /\ file[j].rec = file[i].rec
      BY <2>1 DEF Written
    <2>3. i = j
      BY <2>2 DEF WriterInv, Records
    <2> QED
      BY <2>2, <2>3
  <1>7. \A p \in Ended : \E i \in DOMAIN file : file[i].rec = p
    BY <1>5 DEF Written
  <1> QED
    BY <1>6, <1>7

\* So the replay finds a line for each of this hour's requests.
LEMMA CleanCount ==
    ASSUME WriterInv, ClockInv, LogOK, window \in Nat, disk = file, close = "returned",
           dropped = 0, q = <<>>, FitsWindow,
           \A p \in Producers : settled[p] # -1 => pc[p] = "done"
    PROVE  /\ Cardinality({p \in Producers : settled[p] = hour}) \in Nat
           /\ Cardinality({i \in DOMAIN disk : Legible(i) /\ stamp[disk[i].rec] = hour
                               /\ (window = 0 \/ Behind(i) <= window)}) \in Nat
           /\ Cardinality({p \in Producers : settled[p] = hour})
                  <= Cardinality({i \in DOMAIN disk : Legible(i) /\ stamp[disk[i].rec] = hour
                                      /\ (window = 0 \/ Behind(i) <= window)})
  <1> DEFINE S == {i \in DOMAIN disk : Legible(i) /\ stamp[disk[i].rec] = hour
                                       /\ (window = 0 \/ Behind(i) <= window)}
             P == {p \in Producers : settled[p] = hour}
  <1>1. PICK n \in Nat : n = Len(disk) /\ DOMAIN disk = 1..n
    BY LenProperties DEF LogOK
  <1>2. (\A p \in Ended : \E i \in 1..n : disk[i].rec = p) /\ \A i \in 1..n : disk[i].whole
    BY <1>1, CleanLog
  <1>3. PICK w \in Nat : w = window
    OBVIOUS
  <1>4. ASSUME NEW i \in 1..n PROVE Legible(i) /\ (w = 0 \/ Behind(i) <= w)
    <2>1. Legible(i)
      <3>1. i = 1 \/ i - 1 \in 1..n
        OBVIOUS
      <3> QED
        BY <1>2, <3>1 DEF Legible
    <2>2. {j \in i..n : disk[j].whole} = i..n /\ {j \in i..n : ~disk[j].whole} = {}
      BY <1>2
    <2>3. Cardinality(i..n) = n - i + 1
      BY FS_Interval
    <2>4. PICK c \in {1, 2} : c = cut
      BY DEF LogOK
    <2>5. Behind(i) = 3 * Cardinality(i..n) + c * Cardinality({})
      BY <1>1, <2>2, <2>4 DEF Behind
    <2>6. Behind(i) = 3 * (n - i + 1) + c * 0
      BY <2>3, <2>5, FS_EmptySet
    <2>7. Behind(i) <= 3 * n
      BY <2>6
    <2>8. w = 0 \/ 3 * n <= w
      BY <1>1, <1>3 DEF FitsWindow
    <2>9. PICK m \in Int : m = Behind(i)
      BY <2>6
    <2> QED
      BY <2>1, <2>7, <2>8, <2>9
  <1>5. ASSUME NEW p \in P PROVE \E i \in S : disk[i].rec = p
    <2>1. p \in Producers /\ settled[p] # -1 /\ settled[p] = hour
      BY DEF ClockInv
    <2>2. pc[p] = "done"
      BY <2>1
    <2>3. p \in Ended
      BY <2>1, <2>2 DEF Ended
    <2>4. stamp[p] = hour
      <3>1. stamp[p] # -1
        BY <2>1, <2>2 DEF ClockInv
      <3>2. settled[p] <= stamp[p] /\ stamp[p] <= hour /\ stamp[p] \in Int /\ hour \in Nat
        BY <2>1, <3>1 DEF ClockInv
      <3> QED
        BY <2>1, <3>2
    <2>5. PICK i \in 1..n : disk[i].rec = p
      BY <1>2, <2>3
    <2>6. i \in S
      BY <1>1, <1>3, <1>4, <2>4, <2>5
    <2> QED
      BY <2>5, <2>6
  <1>6. S \in SUBSET (1..n) /\ P \in SUBSET Producers
    BY <1>1
  <1> HIDE DEF S, P
  <1>7. IsFiniteSet(S) /\ IsFiniteSet(P)
    <2>1. IsFiniteSet(1..n) /\ IsFiniteSet(Producers)
      BY FS_Interval, WriterAssumption
    <2> QED
      BY <1>6, <2>1, FS_Subset
  <1> DEFINE f == [p \in P |-> CHOOSE i \in S : disk[i].rec = p]
  <1>8. ASSUME NEW p \in P PROVE f[p] \in S /\ disk[f[p]].rec = p
    BY <1>5
  <1> HIDE DEF f
  <1>9. f \in [P -> S]
    BY <1>8 DEF f
  <1>10. f \in Injection(P, S)
    BY <1>8, <1>9 DEF Injection, IsInjective
  <1>11. Cardinality(P) <= Cardinality(S)
    BY <1>7, <1>10, FS_Injection
  <1>12. Cardinality(P) \in Nat /\ Cardinality(S) \in Nat
    BY <1>7, FS_CardinalityType
  <1> QED
    BY <1>11, <1>12 DEF S, P

AnswerOK == answer \in Answers

\* A clean restart does not hand out quota: what was settled this hour is
\* counted again, for every answer the backend may give and every window the
\* log fits in.
THEOREM CleanRestartIsExact == LogSpec => []CleanRestartKeepsQuota
  <1>1. LogInit => ClockInv /\ AnswerOK /\ ReplayInv
    BY DEF LogInit, Init, ClockInv, AnswerOK, ReplayInv
  <1>2. AnswerOK /\ [LogNext]_allVars => AnswerOK'
    BY DEF AnswerOK, LogNext, allVars, logVars, Account, Submit, HourPasses, Shutdown, Crash, Restart
  <1>3. LogSpec => []WriterInv
    BY LogImplementsWriter, WriterInductive, PTL
  <1>4. WriterInv /\ ClockInv /\ ReplayInv /\ AnswerOK => CleanRestartKeepsQuota
    <2> SUFFICES ASSUME WriterInv, ClockInv, ReplayInv, AnswerOK,
                        phase = "back", disk = file, close = "returned", dropped = 0, FitsWindow,
                        q = <<>>, \A p \in Producers : settled[p] # -1 => pc[p] = "done"
                 PROVE  used >= Charge(answer) * Cardinality({p \in Producers : settled[p] = hour})
      BY DEF CleanRestartKeepsQuota
    <2> DEFINE c == Cardinality({p \in Producers : settled[p] = hour})
               d == Cardinality({i \in DOMAIN disk : Legible(i) /\ stamp[disk[i].rec] = hour
                                     /\ (window = 0 \/ Behind(i) <= window)})
    <2>1. LogOK /\ window \in Nat
      BY DEF ReplayInv
    <2>2. used = Replayed(answer) * d
      BY <2>1, CountedWrites DEF ReplayInv
    <2>3. c \in Nat /\ d \in Nat /\ c <= d
      BY <2>1, CleanCount
    <2> HIDE DEF c, d
    <2>4. Charge(answer) \in Nat /\ Replayed(answer) \in Nat /\ Charge(answer) <= Replayed(answer)
      BY ChargeFacts DEF AnswerOK
    <2>5. Charge(answer) * c <= Replayed(answer) * d
      BY <2>3, <2>4, ProductGrows
    <2>6. used >= Charge(answer) * c
      <3>1. PICK u \in Nat, v \in Nat : u = Charge(answer) * c /\ v = Replayed(answer) * d
        BY <2>3, <2>4
      <3> QED
        BY <2>2, <2>5, <3>1
    <2> QED
      BY <2>6 DEF c
  <1> QED
    BY <1>1, <1>2, <1>3, <1>4, ClockStep, ReplayStep, PTL DEF LogSpec
=============================================================================
