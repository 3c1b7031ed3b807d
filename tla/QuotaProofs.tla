---------------------------- MODULE QuotaProofs ----------------------------
(***************************************************************************)
(* Proofs about Quota, for every number of slots, every limit, reservation *)
(* and charge, and every behaviour of the clock.                           *)
(***************************************************************************)
EXTENDS Quota, FiniteSetTheorems, TLAPS

-----------------------------------------------------------------------------
(* Arithmetic and counting.                                                *)

\* The day of an hour of the model begins at an hour of the model.
LEMMA DayKeyInHours ==
    ASSUME NEW now \in Hours
    PROVE  DayKey(now) \in Hours
  <1>1. now \in Nat /\ HoursPerDay \in Nat \ {0} /\ MaxHour \in Nat
    BY QuotaAssumption DEF Hours
  <1>2. now % HoursPerDay \in Nat /\ now % HoursPerDay <= now
    BY <1>1
  <1> QED
    BY <1>1, <1>2 DEF DayKey, Hours

\* satAdd stays in int64, never loses what was there and adds no more than it
\* is given.
LEMMA SatAddFacts ==
    ASSUME NEW a \in 0..MaxInt64, NEW b \in 0..MaxCharge
    PROVE  /\ SatAdd(a, b) \in 0..MaxInt64
           /\ SatAdd(a, b) >= a
           /\ SatAdd(a, b) <= a + b
           /\ SatAdd(a, b) = MaxInt64 \/ SatAdd(a, b) = a + b
  BY QuotaAssumption DEF SatAdd

\* What recording a settlement does to the history.
LEMMA RecordFacts ==
    ASSUME NEW spent \in [Hours -> 0..MaxInt64], NEW key \in Hours,
           NEW tokens \in 0..MaxCharge
    PROVE  /\ Record(spent, key, tokens) \in [Hours -> 0..MaxInt64]
           /\ \A h \in Hours \ {key} : Record(spent, key, tokens)[h] = spent[h]
           /\ Record(spent, key, tokens)[key] <= MaxInt64
           /\ Record(spent, key, tokens)[key] <= spent[key] + tokens
  BY QuotaAssumption DEF Record

\* A share more or less of the overshoot.
LEMMA Shares ==
    ASSUME NEW n \in Nat
    PROVE  /\ n * MaxCharge \in Nat
           /\ (n + 1) * MaxCharge = n * MaxCharge + MaxCharge
           /\ \A m \in Nat : m <= n => m * MaxCharge <= n * MaxCharge
  <1>1. MaxCharge \in Nat
    BY QuotaAssumption
  <1> QED
    BY <1>1

\* Sets of slots are finite and no larger than the key's bound.
LEMMA SlotFacts ==
    ASSUME NEW S, S \subseteq Slots
    PROVE  /\ IsFiniteSet(S)
           /\ Cardinality(S) \in Nat
           /\ Cardinality(Slots) \in Nat
           /\ Cardinality(S) <= Cardinality(Slots)
           /\ \A r \in S : Cardinality(S) = Cardinality(S \ {r}) + 1
  <1>1. IsFiniteSet(Slots)
    BY QuotaAssumption
  <1>2. IsFiniteSet(S) /\ Cardinality(S) <= Cardinality(Slots)
    BY <1>1, FS_Subset
  <1>3. Cardinality(S) \in Nat /\ Cardinality(Slots) \in Nat
    BY <1>1, <1>2, FS_CardinalityType
  <1>4. ASSUME NEW r \in S PROVE Cardinality(S) = Cardinality(S \ {r}) + 1
    <2>1. Cardinality(S \ {r}) = Cardinality(S) - 1
      BY <1>2, FS_RemoveElement
    <2> QED
      BY <1>3, <2>1
  <1> QED
    BY <1>2, <1>3, <1>4

-----------------------------------------------------------------------------
(* What stateFor does to a window.                                         *)

\* One window, by its two fields before and after.
Rolled(key, count, key2, count2, now) ==
    /\ key2 >= key
    /\ key2 >= now
    /\ key2 = key => count2 = count
    /\ key2 # key => count2 = 0
    /\ count2 = 0 \/ count2 = count

\* stateFor rolls each window forward or leaves it alone.
LEMMA StateForFacts ==
    ASSUME NEW s \in Windows, NEW now \in Hours, NEW w, w = StateFor(s, now)
    PROVE  /\ w \in Windows
           /\ w.live
           /\ s.live => /\ Rolled(s.hourKey, s.hour, w.hourKey, w.hour, now)
                        /\ Rolled(s.dayKey, s.day, w.dayKey, w.day, DayKey(now))
           /\ ~s.live => /\ w.hourKey = now /\ w.hour = 0
                         /\ w.dayKey = DayKey(now) /\ w.day = 0
  <1>1. DayKey(now) \in Hours /\ HourKey(now) = now
    BY DayKeyInHours DEF HourKey
  <1>2. /\ s.hourKey \in Hours /\ s.dayKey \in Hours
        /\ s.hour \in 0..MaxInt64 /\ s.day \in 0..MaxInt64 /\ 0 \in 0..MaxInt64
    BY QuotaAssumption DEF Windows
  <1>3. /\ now \in Int /\ DayKey(now) \in Int
        /\ s.hourKey \in Int /\ s.dayKey \in Int
    BY <1>1, <1>2, QuotaAssumption DEF Hours
  <1>4. CASE ~s.live
    BY <1>1, <1>2, <1>4 DEF StateFor, Windows
  <1>5. CASE s.live
    <2>1. w = [live    |-> TRUE,
               hourKey |-> IF now > s.hourKey THEN now ELSE s.hourKey,
               hour    |-> IF now > s.hourKey THEN 0 ELSE s.hour,
               dayKey  |-> IF DayKey(now) > s.dayKey THEN DayKey(now) ELSE s.dayKey,
               day     |-> IF DayKey(now) > s.dayKey THEN 0 ELSE s.day]
      BY <1>1, <1>5 DEF StateFor
    <2>2. w \in Windows /\ w.live
      BY <1>1, <1>2, <2>1 DEF Windows
    <2>3. Rolled(s.hourKey, s.hour, w.hourKey, w.hour, now)
      BY <1>3, <2>1 DEF Rolled
    <2>4. Rolled(s.dayKey, s.day, w.dayKey, w.day, DayKey(now))
      BY <1>3, <2>1 DEF Rolled
    <2> QED
      BY <1>5, <2>2, <2>3, <2>4
  <1> QED
    BY <1>4, <1>5

\* Rolling a window keeps its counter at or above its history.
LEMMA RollCovers ==
    ASSUME NEW key \in Hours, NEW key2 \in Hours, NEW now \in Hours,
           NEW count \in 0..MaxInt64, NEW count2 \in 0..MaxInt64,
           NEW spent \in [Hours -> 0..MaxInt64],
           Covers(key, count, spent), Rolled(key, count, key2, count2, now)
    PROVE  Covers(key2, count2, spent)
  <1>1. key \in Int /\ key2 \in Int /\ \A h \in Hours : h \in Int
    BY QuotaAssumption DEF Hours
  <1>2. CASE key2 = key
    BY <1>2 DEF Covers, Rolled
  <1>3. CASE key2 # key
    <2>1. key2 > key /\ count2 = 0
      BY <1>1, <1>3 DEF Rolled
    <2>2. spent[key2] = 0
      BY <2>1 DEF Covers
    <2>3. \A h \in Hours : h > key2 => h > key
      BY <1>1, <2>1
    <2> QED
      BY <2>1, <2>2, <2>3 DEF Covers
  <1> QED
    BY <1>2, <1>3

\* So does a settlement stamped in or before the current period.
LEMMA SettleCovers ==
    ASSUME NEW key \in Hours, NEW now \in Hours, NEW count \in 0..MaxInt64,
           NEW spent \in [Hours -> 0..MaxInt64], NEW tokens \in 0..MaxCharge,
           Covers(key, count, spent), key >= now
    PROVE  Covers(key, SatAdd(count, tokens), Record(spent, now, tokens))
  <1> DEFINE after == Record(spent, now, tokens)
             total == SatAdd(count, tokens)
  <1>1. /\ key \in Int /\ now \in Int /\ \A h \in Hours : h \in Int
        /\ spent[key] \in Int /\ spent[now] \in Int /\ count \in Int /\ tokens \in Int
        /\ MaxInt64 \in Int
    BY QuotaAssumption DEF Hours
  <1>2. /\ \A h \in Hours \ {now} : after[h] = spent[h]
        /\ after[now] <= MaxInt64
        /\ after[now] <= spent[now] + tokens
        /\ after[now] \in Int
    BY RecordFacts
  <1>3. /\ total \in Int /\ total >= count
        /\ total = MaxInt64 \/ total = count + tokens
    BY SatAddFacts
  <1> HIDE DEF after, total
  <1>4. \A h \in Hours : h > key => after[h] = 0
    BY <1>1, <1>2 DEF Covers
  <1>5. total >= after[key]
    <2>1. CASE key = now
      BY <1>1, <1>2, <1>3, <2>1 DEF Covers
    <2>2. CASE key # now
      BY <1>1, <1>2, <1>3, <2>2 DEF Covers
    <2> QED
      BY <2>1, <2>2
  <1> QED
    BY <1>4, <1>5 DEF Covers, after, total

\* After stateFor both windows cover their histories and reach the sampled
\* time.
LEMMA StateForCovers ==
    ASSUME NEW s \in Windows, NEW now \in Hours, NEW w, w = StateFor(s, now),
           NEW hours \in [Hours -> 0..MaxInt64], NEW days \in [Hours -> 0..MaxInt64],
           HistoryOK(s, hours, days)
    PROVE  /\ Covers(w.hourKey, w.hour, hours)
           /\ Covers(w.dayKey, w.day, days)
           /\ w.hourKey >= now
           /\ w.dayKey >= DayKey(now)
  <1>1. /\ DayKey(now) \in Hours
        /\ s.hourKey \in Hours /\ s.dayKey \in Hours
        /\ s.hour \in 0..MaxInt64 /\ s.day \in 0..MaxInt64
    BY DayKeyInHours DEF Windows
  <1>2. w \in Windows
    BY StateForFacts
  <1>3. /\ w.hourKey \in Hours /\ w.dayKey \in Hours
        /\ w.hour \in 0..MaxInt64 /\ w.day \in 0..MaxInt64
    BY <1>2 DEF Windows
  <1>4. CASE s.live
    <2>1. /\ Rolled(s.hourKey, s.hour, w.hourKey, w.hour, now)
          /\ Rolled(s.dayKey, s.day, w.dayKey, w.day, DayKey(now))
      BY <1>4, StateForFacts
    <2>2. Covers(s.hourKey, s.hour, hours) /\ Covers(s.dayKey, s.day, days)
      BY <1>4 DEF HistoryOK
    <2>3. Covers(w.hourKey, w.hour, hours)
      BY <1>1, <1>3, <2>1, <2>2, RollCovers
    <2>4. Covers(w.dayKey, w.day, days)
      BY <1>1, <1>3, <2>1, <2>2, RollCovers
    <2> QED
      BY <2>1, <2>3, <2>4 DEF Rolled
  <1>5. CASE ~s.live
    <2>1. /\ w.hourKey = now /\ w.hour = 0
          /\ w.dayKey = DayKey(now) /\ w.day = 0
      BY <1>5, StateForFacts
    <2>2. \A h \in Hours : hours[h] = 0 /\ days[h] = 0
      BY <1>5 DEF HistoryOK
    <2>3. now \in Int /\ DayKey(now) \in Int
      BY <1>1, QuotaAssumption DEF Hours
    <2> QED
      BY <1>1, <2>1, <2>2, <2>3 DEF Covers
  <1> QED
    BY <1>4, <1>5

-----------------------------------------------------------------------------
(* The overshoot of one window.                                            *)

\* A window that is kept or reset, with the same requests outstanding.
LEMMA RollReserved ==
    ASSUME NEW limit \in Nat, NEW count \in Nat, NEW count2 \in Nat,
           NEW out, out \subseteq Slots, Reserved(limit, count, out),
           count2 = 0 \/ count2 = count
    PROVE  Reserved(limit, count2, out)
  <1>1. /\ Cardinality(out) \in Nat /\ Cardinality(Slots) \in Nat
        /\ Cardinality(out) <= Cardinality(Slots)
    BY SlotFacts
  <1>2. /\ Cardinality(out) * MaxCharge \in Nat /\ Overshoot \in Nat
        /\ Cardinality(out) * MaxCharge <= Overshoot
        /\ MinReservation \in Nat
    BY <1>1, Shares, QuotaAssumption DEF Overshoot
  <1> DEFINE shares == Cardinality(out) * MaxCharge
  <1>3. shares \in Nat /\ shares <= Overshoot
    BY <1>2
  <1>4. limit > 0 => IF MinReservation <= limit
                     THEN count + MinReservation + shares <= limit + Overshoot
                     ELSE count = 0 /\ out = {}
    BY DEF Reserved
  <1> HIDE DEF shares
  <1>5. limit > 0 => IF MinReservation <= limit
                     THEN count2 + MinReservation + shares <= limit + Overshoot
                     ELSE count2 = 0 /\ out = {}
    BY <1>2, <1>3, <1>4
  <1> QED
    BY <1>5 DEF Reserved, shares

\* A request admitted with room for its reservation: every slot may be
\* outstanding.
LEMMA AdmitReserved ==
    ASSUME NEW limit \in Nat, NEW count \in Nat, NEW reservation \in Reservations,
           NEW out, out \subseteq Slots, ~Over(count, reservation, limit)
    PROVE  Reserved(limit, count, out)
  <1>1. /\ Cardinality(out) \in Nat /\ Cardinality(Slots) \in Nat
        /\ Cardinality(out) <= Cardinality(Slots)
    BY SlotFacts
  <1>2. /\ Cardinality(out) * MaxCharge \in Nat /\ Overshoot \in Nat
        /\ Cardinality(out) * MaxCharge <= Overshoot
    BY <1>1, Shares DEF Overshoot
  <1>3. MinReservation \in Nat /\ reservation \in Nat /\ MinReservation <= reservation
    BY QuotaAssumption
  <1>4. limit > 0 => MinReservation <= limit /\ count + MinReservation <= limit
    BY <1>3 DEF Over
  <1> DEFINE shares == Cardinality(out) * MaxCharge
  <1>5. shares \in Nat /\ shares <= Overshoot
    BY <1>2
  <1> HIDE DEF shares
  <1>6. limit > 0 =>
           MinReservation <= limit /\ count + MinReservation + shares <= limit + Overshoot
    BY <1>2, <1>3, <1>4, <1>5
  <1> QED
    BY <1>6 DEF Reserved, shares

\* A request that settles gives up its share and adds at most that much.
LEMMA SettleReserved ==
    ASSUME NEW limit \in Nat, NEW count \in 0..MaxInt64, NEW tokens \in 0..MaxCharge,
           NEW out, out \subseteq Slots, NEW r \in out, Reserved(limit, count, out)
    PROVE  /\ Reserved(limit, SatAdd(count, tokens), out \ {r})
           /\ Reserved(limit, count, out \ {r})
  <1> DEFINE n == Cardinality(out \ {r})
             total == SatAdd(count, tokens)
  <1>1. /\ n \in Nat /\ Cardinality(Slots) \in Nat
        /\ Cardinality(out) = n + 1
    <2>1. out \ {r} \subseteq Slots
      OBVIOUS
    <2> QED
      BY <2>1, SlotFacts
  <1>2. /\ n * MaxCharge \in Nat /\ Overshoot \in Nat /\ MaxCharge \in Nat
        /\ Cardinality(out) * MaxCharge = n * MaxCharge + MaxCharge
    BY <1>1, Shares, QuotaAssumption DEF Overshoot
  <1>3. total \in Nat /\ count \in Nat /\ tokens \in Nat
        /\ total <= count + tokens /\ tokens <= MaxCharge
    BY SatAddFacts, QuotaAssumption
  <1> DEFINE share == n * MaxCharge
             shares == Cardinality(out) * MaxCharge
  <1>4. /\ limit > 0 /\ MinReservation <= limit =>
              count + MinReservation + shares <= limit + Overshoot
        /\ limit > 0 => MinReservation <= limit
    BY DEF Reserved
  <1>5. /\ share \in Nat /\ shares = share + MaxCharge /\ MinReservation \in Nat
    BY <1>2, QuotaAssumption
  <1> HIDE DEF total, share, shares
  <1>6. limit > 0 => /\ MinReservation <= limit
                     /\ total + MinReservation + share <= limit + Overshoot
                     /\ count + MinReservation + share <= limit + Overshoot
    BY <1>2, <1>3, <1>4, <1>5
  <1> QED
    BY <1>6 DEF Reserved, total, share

-----------------------------------------------------------------------------
(* The inductive invariant.                                                *)

\* Limits are numbers.
LEMMA LimitTypes ==
    ASSUME QuotaTypeOK
    PROVE  limits.hour \in Nat /\ limits.day \in Nat
  <1>1. limits \in [hour : 0..MaxInt64, day : 0..MaxInt64]
    BY QuotaAssumption DEF QuotaTypeOK
  <1> QED
    BY <1>1, QuotaAssumption

\* Counters are numbers in int64.
LEMMA WindowTypes ==
    ASSUME QuotaTypeOK
    PROVE  /\ st.hour \in Nat /\ st.hour \in 0..MaxInt64
           /\ st.day \in Nat /\ st.day \in 0..MaxInt64
  BY QuotaAssumption DEF QuotaTypeOK, Windows

\* A key that has not been used satisfies the inductive invariant.
LEMMA InitInductive ==
    ASSUME QuotaInit
    PROVE  IInv
  <1>1. 0 \in Hours /\ 0 \in 0..MaxInt64
    BY QuotaAssumption DEF Hours
  <1>2. QuotaTypeOK
    BY <1>1 DEF QuotaInit, QuotaTypeOK, Windows
  <1>3. HistoryOK(st, hourSpent, daySpent)
    BY DEF QuotaInit, HistoryOK
  <1>4. st.hour = 0 /\ st.day = 0 /\ Outstanding \subseteq Slots
    BY DEF QuotaInit, Outstanding
  <1>5. Outstanding = {}
    BY DEF QuotaInit, Outstanding
  <1>6. Cardinality(Outstanding) = 0
    BY <1>5, FS_EmptySet
  <1>7. Cardinality(Slots) \in Nat
    BY <1>4, SlotFacts
  <1>8. Overshoot \in Nat /\ 0 * MaxCharge = 0
    BY <1>7, Shares, QuotaAssumption DEF Overshoot
  <1>9. Reserved(limits.hour, st.hour, Outstanding) /\ Reserved(limits.day, st.day, Outstanding)
    BY <1>2, <1>4, <1>5, <1>6, <1>8, LimitTypes, QuotaAssumption DEF Reserved
  <1> QED
    BY <1>2, <1>3, <1>9 DEF IInv

\* Quota.Admit.
LEMMA AdmitInductive ==
    ASSUME IInv, NEW r \in Slots, Admit(r)
    PROVE  IInv'
  <1>1. /\ QuotaTypeOK /\ st \in Windows /\ stamp[r] \in Hours
        /\ hourSpent \in [Hours -> 0..MaxInt64] /\ daySpent \in [Hours -> 0..MaxInt64]
        /\ HistoryOK(st, hourSpent, daySpent)
        /\ limits.hour \in Nat /\ limits.day \in Nat /\ st.hour \in Nat /\ st.day \in Nat
        /\ Outstanding \subseteq Slots
    BY LimitTypes, WindowTypes DEF IInv, QuotaTypeOK, Outstanding
  <1>2. UNCHANGED <<clock, limits, stamp, hourSpent, daySpent>>
    BY DEF Admit
  <1>3. Outstanding' \subseteq Slots
    BY DEF Outstanding
  <1>4. phase[r] = "admitting" /\ phase \in [Slots -> {"idle", "admitting", "serving", "settling"}]
    BY <1>1 DEF Admit, QuotaTypeOK
  <1>5. CASE Unlimited /\ st' = st /\ phase' = [phase EXCEPT ![r] = "serving"]
    <2>1. QuotaTypeOK'
      BY <1>1, <1>2, <1>4, <1>5 DEF QuotaTypeOK
    <2>2. HistoryOK(st, hourSpent, daySpent)'
      BY <1>1, <1>2, <1>5 DEF HistoryOK, Covers
    <2>3. (limits.hour = 0 /\ limits.day = 0)'
      BY <1>2, <1>5 DEF Unlimited
    <2> QED
      BY <2>1, <2>2, <2>3 DEF IInv, Reserved
  <1>6. CASE /\ ~Unlimited
             /\ st' = StateFor(st, stamp[r])
             /\ \E reservation \in Reservations :
                   phase' = [phase EXCEPT ![r] =
                             IF \/ Over(st'.hour, reservation, limits.hour)
                                \/ Over(st'.day, reservation, limits.day)
                             THEN "idle" ELSE "serving"]
    <2>1. PICK reservation \in Reservations :
             phase' = [phase EXCEPT ![r] = IF \/ Over(st'.hour, reservation, limits.hour)
                                        \/ Over(st'.day, reservation, limits.day)
                                     THEN "idle" ELSE "serving"]
      BY <1>6
    <2>2. reservation \in Nat
      BY <2>1, QuotaAssumption
    <2>3. st' \in Windows /\ st'.live
      BY <1>1, <1>6, StateForFacts
    <2>4. QuotaTypeOK'
      BY <1>1, <1>2, <1>4, <2>1, <2>3 DEF QuotaTypeOK
    <2>5. /\ Covers(st'.hourKey, st'.hour, hourSpent)
          /\ Covers(st'.dayKey, st'.day, daySpent)
      BY <1>1, <1>6, StateForCovers
    <2>6. HistoryOK(st, hourSpent, daySpent)'
      BY <1>2, <2>3, <2>5 DEF HistoryOK, Covers
    <2>7. st'.hour \in Nat /\ st'.day \in Nat
      BY <2>3, QuotaAssumption DEF Windows
    <2>8. CASE Over(st'.hour, reservation, limits.hour) \/ Over(st'.day, reservation, limits.day)
      <3>1. Outstanding' = Outstanding
        BY <1>4, <2>1, <2>8 DEF Outstanding
      <3>2. /\ st'.hour = 0 \/ st'.hour = st.hour
            /\ st'.day = 0 \/ st'.day = st.day
        BY <1>1, <1>6, StateForFacts DEF Rolled
      <3>3. /\ Reserved(limits.hour, st'.hour, Outstanding)
            /\ Reserved(limits.day, st'.day, Outstanding)
        BY <1>1, <2>7, <3>2, RollReserved DEF IInv
      <3> QED
        BY <1>2, <2>4, <2>6, <3>1, <3>3 DEF IInv, Reserved, Overshoot
    <2>9. CASE ~Over(st'.hour, reservation, limits.hour) /\ ~Over(st'.day, reservation, limits.day)
      <3>1. /\ Reserved(limits.hour, st'.hour, Outstanding')
            /\ Reserved(limits.day, st'.day, Outstanding')
        BY <1>1, <1>3, <2>1, <2>7, <2>9, AdmitReserved
      <3> QED
        BY <1>2, <2>4, <2>6, <3>1 DEF IInv, Reserved, Overshoot
    <2> QED
      BY <2>8, <2>9
  <1> QED
    BY <1>5, <1>6 DEF Admit

\* Quota.Settle.
LEMMA SettleInductive ==
    ASSUME IInv, NEW r \in Slots, Settle(r)
    PROVE  IInv'
  <1>1. /\ QuotaTypeOK /\ st \in Windows /\ stamp[r] \in Hours
        /\ hourSpent \in [Hours -> 0..MaxInt64] /\ daySpent \in [Hours -> 0..MaxInt64]
        /\ HistoryOK(st, hourSpent, daySpent)
        /\ limits.hour \in Nat /\ limits.day \in Nat
        /\ st.hour \in Nat /\ st.day \in Nat
        /\ st.hour \in 0..MaxInt64 /\ st.day \in 0..MaxInt64
        /\ Outstanding \subseteq Slots
    BY LimitTypes, WindowTypes DEF IInv, QuotaTypeOK, Outstanding
  <1>2. /\ UNCHANGED <<clock, limits, stamp>>
        /\ phase[r] = "settling" /\ phase' = [phase EXCEPT ![r] = "idle"]
        /\ phase \in [Slots -> {"idle", "admitting", "serving", "settling"}]
    BY <1>1 DEF Settle, QuotaTypeOK
  <1>3. r \in Outstanding /\ Outstanding' = Outstanding \ {r}
    BY <1>2 DEF Outstanding
  <1>4. Reserved(limits.hour, st.hour, Outstanding) /\ Reserved(limits.day, st.day, Outstanding)
    BY DEF IInv
  <1>5. CASE UNCHANGED <<st, hourSpent, daySpent>>
    <2>1. QuotaTypeOK'
      BY <1>1, <1>2, <1>5 DEF QuotaTypeOK
    <2>2. HistoryOK(st, hourSpent, daySpent)'
      BY <1>1, <1>5 DEF HistoryOK, Covers
    <2>3. 0 \in 0..MaxCharge
      BY QuotaAssumption
    <2>4. /\ Reserved(limits.hour, st.hour, Outstanding \ {r})
          /\ Reserved(limits.day, st.day, Outstanding \ {r})
      BY <1>1, <1>3, <1>4, <2>3, SettleReserved
    <2> QED
      BY <1>2, <1>3, <1>5, <2>1, <2>2, <2>4 DEF IInv, Reserved, Overshoot
  <1>6. ASSUME NEW tokens \in 0..MaxCharge, NEW w, w = StateFor(st, stamp[r]),
               st' = [w EXCEPT !.hour = SatAdd(w.hour, tokens),
                               !.day = SatAdd(w.day, tokens)],
               hourSpent' = Record(hourSpent, stamp[r], tokens),
               daySpent' = Record(daySpent, DayKey(stamp[r]), tokens)
        PROVE  IInv'
    <2>1. w \in Windows /\ w.live
      BY <1>1, <1>6, StateForFacts
    <2>2. /\ w.hourKey \in Hours /\ w.dayKey \in Hours
          /\ w.hour \in 0..MaxInt64 /\ w.day \in 0..MaxInt64
          /\ w.hour \in Nat /\ w.day \in Nat
          /\ DayKey(stamp[r]) \in Hours
      BY <1>1, <2>1, DayKeyInHours, QuotaAssumption DEF Windows
    <2>3. SatAdd(w.hour, tokens) \in 0..MaxInt64 /\ SatAdd(w.day, tokens) \in 0..MaxInt64
      BY <2>2, SatAddFacts
    <2>4. /\ st'.hourKey = w.hourKey /\ st'.hour = SatAdd(w.hour, tokens)
          /\ st'.dayKey = w.dayKey /\ st'.day = SatAdd(w.day, tokens)
          /\ st' \in Windows
      BY <1>6, <2>1, <2>3 DEF Windows
    <2>5. st'.live
      BY <1>6, <2>1 DEF Windows
    <2>6. hourSpent' \in [Hours -> 0..MaxInt64] /\ daySpent' \in [Hours -> 0..MaxInt64]
      BY <1>1, <1>6, <2>2, RecordFacts
    <2>7. QuotaTypeOK'
      BY <1>1, <1>2, <2>4, <2>6 DEF QuotaTypeOK
    <2>8. /\ Covers(w.hourKey, w.hour, hourSpent) /\ w.hourKey >= stamp[r]
          /\ Covers(w.dayKey, w.day, daySpent) /\ w.dayKey >= DayKey(stamp[r])
      BY <1>1, <1>6, StateForCovers
    <2>9. /\ Covers(w.hourKey, SatAdd(w.hour, tokens), Record(hourSpent, stamp[r], tokens))
          /\ Covers(w.dayKey, SatAdd(w.day, tokens), Record(daySpent, DayKey(stamp[r]), tokens))
      BY <1>1, <2>2, <2>8, SettleCovers
    <2>10. HistoryOK(st, hourSpent, daySpent)'
      BY <1>6, <2>4, <2>5, <2>9 DEF HistoryOK, Covers
    <2>11. /\ w.hour = 0 \/ w.hour = st.hour
           /\ w.day = 0 \/ w.day = st.day
      BY <1>1, <1>6, StateForFacts DEF Rolled
    <2>12. /\ Reserved(limits.hour, w.hour, Outstanding)
           /\ Reserved(limits.day, w.day, Outstanding)
      BY SMTT(60), <1>1, <1>4, <2>2, <2>11, RollReserved
    <2>13. /\ Reserved(limits.hour, SatAdd(w.hour, tokens), Outstanding \ {r})
           /\ Reserved(limits.day, SatAdd(w.day, tokens), Outstanding \ {r})
      BY <1>1, <1>3, <2>2, <2>12, SettleReserved
    <2> QED
      BY <1>2, <1>3, <2>4, <2>7, <2>10, <2>13 DEF IInv, Reserved, Overshoot
  <1>7. PICK tokens \in 0..MaxCharge :
           \/ UNCHANGED <<st, hourSpent, daySpent>>
           \/ LET s == StateFor(st, stamp[r])
              IN  /\ st' = [s EXCEPT !.hour = SatAdd(s.hour, tokens),
                                     !.day = SatAdd(s.day, tokens)]
                  /\ hourSpent' = Record(hourSpent, HourKey(stamp[r]), tokens)
                  /\ daySpent' = Record(daySpent, DayKey(stamp[r]), tokens)
    BY DEF Settle
  <1> QED
    BY <1>5, <1>6, <1>7 DEF HourKey

\* A step that touches neither a window nor who is outstanding.
LEMMA StutterInductive ==
    ASSUME IInv, UNCHANGED <<limits, st, hourSpent, daySpent>>, QuotaTypeOK',
           Outstanding' = Outstanding
    PROVE  IInv'
  <1>1. HistoryOK(st, hourSpent, daySpent)'
    BY DEF IInv, HistoryOK, Covers
  <1>2. (/\ Reserved(limits.hour, st.hour, Outstanding)
         /\ Reserved(limits.day, st.day, Outstanding))'
    BY DEF IInv, Reserved, Overshoot
  <1> QED
    BY <1>1, <1>2 DEF IInv

\* Every step of Quota, an idle one included, keeps the invariant.
LEMMA NextInductive ==
    ASSUME IInv, [QuotaNext]_quotaVars
    PROVE  IInv'
  <1>1. QuotaTypeOK
    BY DEF IInv
  <1>2. ASSUME NEW h \in Hours, ClockMoves(h) PROVE IInv'
    <2>1. QuotaTypeOK' /\ Outstanding' = Outstanding
      BY <1>1, <1>2 DEF ClockMoves, QuotaTypeOK, Outstanding
    <2> QED
      BY <1>2, <2>1, StutterInductive DEF ClockMoves
  <1>3. ASSUME NEW r \in Slots, SampleAdmit(r) PROVE IInv'
    <2>1. QuotaTypeOK' /\ Outstanding' = Outstanding
      BY <1>1, <1>3 DEF SampleAdmit, QuotaTypeOK, Outstanding
    <2> QED
      BY <1>3, <2>1, StutterInductive DEF SampleAdmit
  <1>4. ASSUME NEW r \in Slots, SampleSettle(r) PROVE IInv'
    <2>1. QuotaTypeOK' /\ Outstanding' = Outstanding
      BY <1>1, <1>4 DEF SampleSettle, QuotaTypeOK, Outstanding
    <2> QED
      BY <1>4, <2>1, StutterInductive DEF SampleSettle
  <1>5. CASE UNCHANGED quotaVars
    <2>1. QuotaTypeOK' /\ Outstanding' = Outstanding
      BY <1>1, <1>5 DEF quotaVars, QuotaTypeOK, Outstanding
    <2> QED
      BY <1>5, <2>1, StutterInductive DEF quotaVars
  <1> QED
    BY <1>2, <1>3, <1>4, <1>5, AdmitInductive, SettleInductive DEF QuotaNext

\* In every state of every behaviour nothing was settled in a window still to
\* come, and every outstanding request has its share of the overshoot free.
THEOREM InductiveInvariant == QuotaSpec => []IInv
  <1>1. QuotaInit => IInv
    BY InitInductive
  <1>2. IInv /\ [QuotaNext]_quotaVars => IInv'
    BY NextInductive
  <1> QED
    BY <1>1, <1>2, PTL DEF QuotaSpec

-----------------------------------------------------------------------------
(* The properties.                                                         *)

\* The state of the quota is always well formed; in particular no counter of
\* a window (satAdd) leaves its int64 range.
THEOREM TypeCorrect == QuotaSpec => []QuotaTypeOK
  <1>1. IInv => QuotaTypeOK
    BY DEF IInv
  <1> QED
    BY <1>1, InductiveInvariant, PTL

\* Whatever the clock does and in whatever order callers sample it and take
\* the lock, stateFor never forgets tokens of a current window.
THEOREM QuotaNeverUndercounts == QuotaSpec => []NeverUndercounts
  <1>1. IInv => NeverUndercounts
    BY DEF IInv, HistoryOK, Covers, NeverUndercounts
  <1> QED
    BY <1>1, InductiveInvariant, PTL

\* Admit's lookahead ends every window a reservation short of its limit plus
\* what the key's slots can settle, and at zero when none fits.
THEOREM OvershootIsBounded == QuotaSpec => []OvershootBounded
  <1>1. ASSUME IInv PROVE OvershootBounded
    <2>1. QuotaTypeOK /\ Outstanding \subseteq Slots
      BY <1>1 DEF IInv, Outstanding
    <2>2. Cardinality(Outstanding) \in Nat /\ Cardinality(Slots) \in Nat
      BY <2>1, SlotFacts
    <2>3. Cardinality(Outstanding) * MaxCharge \in Nat /\ Overshoot \in Nat
      BY <2>2, Shares DEF Overshoot
    <2>4. /\ limits.hour \in Nat /\ limits.day \in Nat
          /\ st.hour \in Nat /\ st.day \in Nat
      BY <2>1, LimitTypes, WindowTypes
    <2> QED
      BY <1>1, <2>3, <2>4, QuotaAssumption DEF IInv, Reserved, Bounded, OvershootBounded
  <1> QED
    BY <1>1, InductiveInvariant, PTL

\* stateFor never moves a window back and Settle never lowers a counter.
THEOREM WindowsAdvance == QuotaSpec => WindowsOnlyAdvance
  <1> DEFINE Advance ==
        st.live =>
            /\ st'.live
            /\ st'.hourKey >= st.hourKey
            /\ st'.dayKey >= st.dayKey
            /\ st'.hourKey = st.hourKey => st'.hour >= st.hour
            /\ st'.dayKey = st.dayKey => st'.day >= st.day
  <1>1. ASSUME QuotaTypeOK, [QuotaNext]_quotaVars, st.live PROVE Advance
    <2>1. /\ st.hourKey \in Int /\ st.dayKey \in Int
          /\ st.hour \in Int /\ st.day \in Int
      BY <1>1, QuotaAssumption DEF QuotaTypeOK, Windows, Hours
    <2>2. CASE st' = st
      BY <1>1, <2>1, <2>2
    <2>3. ASSUME NEW r \in Slots, st' = StateFor(st, stamp[r]) PROVE Advance
      <3>1. /\ st'.live
            /\ Rolled(st.hourKey, st.hour, st'.hourKey, st'.hour, stamp[r])
            /\ Rolled(st.dayKey, st.day, st'.dayKey, st'.day, DayKey(stamp[r]))
        BY SMTT(60), <1>1, <2>3, StateForFacts DEF QuotaTypeOK
      <3> QED
        BY <2>1, <3>1 DEF Rolled
    <2>4. ASSUME NEW r \in Slots, Settle(r) PROVE Advance
      <3>1. PICK tokens \in 0..MaxCharge :
               \/ st' = st
               \/ LET s == StateFor(st, stamp[r])
                  IN  st' = [s EXCEPT !.hour = SatAdd(s.hour, tokens),
                                      !.day = SatAdd(s.day, tokens)]
        BY <2>4 DEF Settle
      <3>2. ASSUME NEW w, w = StateFor(st, stamp[r]),
                   st' = [w EXCEPT !.hour = SatAdd(w.hour, tokens),
                                   !.day = SatAdd(w.day, tokens)]
            PROVE  Advance
        <4>1. /\ w \in Windows /\ w.live
              /\ Rolled(st.hourKey, st.hour, w.hourKey, w.hour, stamp[r])
              /\ Rolled(st.dayKey, st.day, w.dayKey, w.day, DayKey(stamp[r]))
          BY <1>1, <3>2, StateForFacts DEF QuotaTypeOK
        <4>2. /\ w.hour \in 0..MaxInt64 /\ w.day \in 0..MaxInt64
              /\ w.hour \in Int /\ w.day \in Int
              /\ w.hourKey \in Int /\ w.dayKey \in Int
          BY <4>1, QuotaAssumption DEF Windows, Hours
        <4>3. /\ SatAdd(w.hour, tokens) >= w.hour /\ SatAdd(w.hour, tokens) \in Int
              /\ SatAdd(w.day, tokens) >= w.day /\ SatAdd(w.day, tokens) \in Int
          BY <4>2, SatAddFacts
        <4>4. /\ st'.hourKey = w.hourKey /\ st'.hour = SatAdd(w.hour, tokens)
              /\ st'.dayKey = w.dayKey /\ st'.day = SatAdd(w.day, tokens)
          BY <3>2, <4>1 DEF Windows
        <4>5. st'.live
          BY <3>2, <4>1 DEF Windows
        <4> QED
          BY <2>1, <4>1, <4>2, <4>3, <4>4, <4>5 DEF Rolled
      <3> QED
        BY <2>2, <3>1, <3>2
    <2> QED
      BY <1>1, <2>2, <2>3, <2>4
         DEF QuotaNext, quotaVars, ClockMoves, SampleAdmit, Admit, SampleSettle
  <1>2. QuotaTypeOK /\ [QuotaNext]_quotaVars => [Advance]_quotaVars
    BY <1>1
  <1> QED
    BY <1>2, TypeCorrect, PTL DEF QuotaSpec, WindowsOnlyAdvance
=============================================================================
