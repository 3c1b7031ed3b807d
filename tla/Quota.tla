-------------------------------- MODULE Quota --------------------------------
(***************************************************************************)
(* The fixed-window token quota of one key: Quota.Admit, Quota.Settle and  *)
(* Quota.stateFor of internal/accounting/quota.go, called by proxy.prepare *)
(* and proxy.account.                                                      *)
(*                                                                         *)
(* A caller samples time.Now() first and only then contends for the lock,  *)
(* so the two are separate steps and the clock may move, or another caller *)
(* overtake, between them.  The reservation that Admit compares is not     *)
(* recorded: any number of admitted requests may be outstanding.  Slots    *)
(* are those of the key's concurrent_requests bound.                       *)
(*                                                                         *)
(* What a request settles is what the backend reported, prompt tokens      *)
(* included, or the reservation when it reported nothing.                  *)
(*                                                                         *)
(* Time is counted in hours; HoursPerDay hours make a day.  time.Now is    *)
(* the wall clock, which the operator or NTP may also set back.  Token     *)
(* counters are int64 with saturating addition up to MaxInt64.             *)
(*                                                                         *)
(* Routes that name a response instead of a model are never admitted and   *)
(* never settle (no usage is taken from them), so they have no part here.  *)
(***************************************************************************)
EXTENDS Naturals, FiniteSets

CONSTANTS
    Slots,         \* in-flight slots of the key
    WindowLimits,  \* possible settings [hour : Nat, day : Nat]; 0 is unlimited
    Reservations,  \* what Admit may look ahead by: the model's cap or the setting
    MinReservation, \* no reservation is less
    MaxCharge,     \* bound on what one request settles
    HoursPerDay,   \* 24
    MaxHour,       \* bound on the clock
    MaxInt64       \* largest value of a counter

ASSUME QuotaAssumption ==
    /\ IsFiniteSet(Slots)
    /\ WindowLimits \subseteq [hour : 0..MaxInt64, day : 0..MaxInt64]
    /\ Reservations \subseteq MinReservation..MaxCharge
    /\ MinReservation \in Nat
    /\ MaxCharge \in Nat
    /\ HoursPerDay \in Nat \ {0}
    /\ MaxHour \in Nat
    /\ MaxInt64 \in Nat
    /\ MaxCharge <= MaxInt64

VARIABLES
    clock,      \* the wall clock, in hours
    limits,     \* the key's configured windows
    st,         \* the key's keyQuota; live is FALSE until first use
    phase,      \* idle, admitting, serving or settling
    stamp,      \* the time each caller has sampled
    hourSpent,  \* tokens settled, by hour of their sample (history)
    daySpent    \* tokens settled, by day of their sample (history)

quotaVars == <<clock, limits, st, phase, stamp, hourSpent, daySpent>>

Hours == 0..MaxHour
HourKey(now) == now
DayKey(now) == now - (now % HoursPerDay)

Windows == [live : BOOLEAN, hourKey : Hours, hour : 0..MaxInt64,
            dayKey : Hours, day : 0..MaxInt64]

QuotaTypeOK ==
    /\ clock \in Hours
    /\ limits \in WindowLimits
    /\ st \in Windows
    /\ phase \in [Slots -> {"idle", "admitting", "serving", "settling"}]
    /\ stamp \in [Slots -> Hours]
    /\ hourSpent \in [Hours -> 0..MaxInt64]
    /\ daySpent \in [Hours -> 0..MaxInt64]

QuotaInit ==
    /\ clock = 0
    /\ limits \in WindowLimits
    /\ st = [live |-> FALSE, hourKey |-> 0, hour |-> 0, dayKey |-> 0, day |-> 0]
    /\ phase = [r \in Slots |-> "idle"]
    /\ stamp = [r \in Slots |-> 0]
    /\ hourSpent = [h \in Hours |-> 0]
    /\ daySpent = [h \in Hours |-> 0]

-----------------------------------------------------------------------------
(* The operations on the window state.                                     *)

\* satAdd for the addends Settle passes (tokens > 0).
SatAdd(a, b) == IF a > MaxInt64 - b THEN MaxInt64 ELSE a + b

\* A window that has rolled starts from zero; an earlier time never rolls it.
StateFor(s, now) ==
    IF ~s.live
    THEN [live |-> TRUE, hourKey |-> HourKey(now), hour |-> 0,
          dayKey |-> DayKey(now), day |-> 0]
    ELSE [live    |-> TRUE,
          hourKey |-> IF HourKey(now) > s.hourKey THEN HourKey(now) ELSE s.hourKey,
          hour    |-> IF HourKey(now) > s.hourKey THEN 0 ELSE s.hour,
          dayKey  |-> IF DayKey(now) > s.dayKey THEN DayKey(now) ELSE s.dayKey,
          day     |-> IF DayKey(now) > s.dayKey THEN 0 ELSE s.day]

\* Mutant: the lookahead has the wrong sign.
OverWrongSign(settled, reservation, limit) ==
    limit > 0 /\ (reservation > limit \/ settled > limit + reservation)

\* settled + reservation > limit, in the form that cannot overflow.
Over(settled, reservation, limit) ==
    limit > 0 /\ (reservation > limit \/ settled > limit - reservation)

Unlimited == limits.hour = 0 /\ limits.day = 0

-----------------------------------------------------------------------------
\* The history is only compared up to saturation.
Record(spent, key, tokens) ==
    [spent EXCEPT ![key] = IF @ + tokens > MaxInt64 THEN MaxInt64 ELSE @ + tokens]

\* Time passes, or the clock is set.
ClockMoves(h) ==
    /\ clock' = h
    /\ UNCHANGED <<limits, st, phase, stamp, hourSpent, daySpent>>

\* prepare evaluates time.Now(), the argument of Admit.
SampleAdmit(r) ==
    /\ phase[r] = "idle"
    /\ phase' = [phase EXCEPT ![r] = "admitting"]
    /\ stamp' = [stamp EXCEPT ![r] = clock]
    /\ UNCHANGED <<clock, limits, st, hourSpent, daySpent>>

\* Quota.Admit under the lock: refused requests end here.
Admit(r) ==
    /\ phase[r] = "admitting"
    /\ \/ /\ Unlimited
          /\ phase' = [phase EXCEPT ![r] = "serving"]
          /\ UNCHANGED st
       \/ /\ ~Unlimited
          /\ st' = StateFor(st, stamp[r])
          /\ \E reservation \in Reservations :
                phase' = [phase EXCEPT ![r] =
                          IF \/ Over(st'.hour, reservation, limits.hour)
                             \/ Over(st'.day, reservation, limits.day)
                          THEN "idle" ELSE "serving"]
    /\ UNCHANGED <<clock, limits, stamp, hourSpent, daySpent>>

\* account evaluates time.Now(), the argument of Settle.
SampleSettle(r) ==
    /\ phase[r] = "serving"
    /\ phase' = [phase EXCEPT ![r] = "settling"]
    /\ stamp' = [stamp EXCEPT ![r] = clock]
    /\ UNCHANGED <<clock, limits, st, hourSpent, daySpent>>

\* Mutant: a settle stamped before the current hour is thrown away.
SettleDropsLate(r) ==
    /\ phase[r] = "settling"
    /\ phase' = [phase EXCEPT ![r] = "idle"]
    /\ \E tokens \in 1..MaxCharge :
          LET s == StateFor(st, stamp[r])
              late == HourKey(stamp[r]) < s.hourKey
          IN  /\ st' = [s EXCEPT !.hour = IF late THEN @ ELSE SatAdd(@, tokens),
                                 !.day = IF late THEN @ ELSE SatAdd(@, tokens)]
              /\ hourSpent' = Record(hourSpent, HourKey(stamp[r]), tokens)
              /\ daySpent' = Record(daySpent, DayKey(stamp[r]), tokens)
    /\ UNCHANGED <<clock, limits, stamp>>

\* Quota.Settle under the lock; account does not call it for nothing.
Settle(r) ==
    /\ phase[r] = "settling"
    /\ phase' = [phase EXCEPT ![r] = "idle"]
    /\ \E tokens \in 0..MaxCharge :
          \/ /\ tokens = 0
             /\ UNCHANGED <<st, hourSpent, daySpent>>
          \/ /\ tokens > 0
             /\ LET s == StateFor(st, stamp[r])
                IN  st' = [s EXCEPT !.hour = SatAdd(s.hour, tokens),
                                    !.day = SatAdd(s.day, tokens)]
             /\ hourSpent' = Record(hourSpent, HourKey(stamp[r]), tokens)
             /\ daySpent' = Record(daySpent, DayKey(stamp[r]), tokens)
    /\ UNCHANGED <<clock, limits, stamp>>

QuotaNext ==
    \/ \E h \in Hours : ClockMoves(h)
    \/ \E r \in Slots : SampleAdmit(r) \/ Admit(r) \/ SampleSettle(r) \/ Settle(r)

QuotaSpec == QuotaInit /\ [][QuotaNext]_quotaVars

-----------------------------------------------------------------------------
(* Properties.                                                             *)

\* The current windows never hold less than what was settled in them: no
\* order of samples and locks, and no change of the clock, hands out a fresh
\* quota (quota.go:117-132).
NeverUndercounts ==
    st.live => /\ st.hour >= hourSpent[st.hourKey]
               /\ st.day >= daySpent[st.dayKey]

\* Windows only ever advance, and within one window the counter only grows:
\* what Admit has seen of a window stays seen (quota.go:117-132).
WindowsOnlyAdvance ==
    [][st.live =>
          /\ st'.live
          /\ st'.hourKey >= st.hourKey
          /\ st'.dayKey >= st.dayKey
          /\ st'.hourKey = st.hourKey => st'.hour >= st.hour
          /\ st'.dayKey = st.dayKey => st'.day >= st.day]_quotaVars

\* What every slot of the key can settle together.
Overshoot == Cardinality(Slots) * MaxCharge

\* One window: nothing is admitted when no reservation fits its limit.
Bounded(limit, count) ==
    limit > 0 =>
        IF MinReservation <= limit THEN count + MinReservation <= limit + Overshoot
                                   ELSE count = 0

\* The lookahead is not a hold, so requests admitted together settle past the
\* limit.  At the last admission there was room for a reservation, and from
\* then on only what is in flight settles, requests admitted in an earlier
\* window included: the counter ends a reservation short of the limit plus
\* what the key's slots can settle (quota.go:57-87).
OvershootBounded == Bounded(limits.hour, st.hour) /\ Bounded(limits.day, st.day)

\* The comment on Admit: N requests admitted concurrently "can collectively
\* settle up to N x reservation past the limit", the N of the key's slots
\* (quota.go:62-66).  It is false: nothing makes a request settle no more
\* than its reservation.
OvershootWithinReservations ==
    limits.hour > 0 =>
        \E reservation \in Reservations :
            st.hour <= limits.hour + Cardinality(Slots) * reservation

-----------------------------------------------------------------------------
(* The inductive invariant: nothing was settled in a window still to come, *)
(* and every request that may yet settle has its share of the overshoot    *)
(* kept free.                                                              *)

\* One window against its history: the counter covers what was settled in the
\* current period, and nothing was settled in a later one.
Covers(key, count, spent) ==
    /\ count >= spent[key]
    /\ \A h \in Hours : h > key => spent[h] = 0

\* Both windows against their histories, before the first use too.
HistoryOK(s, hours, days) ==
    /\ s.live => Covers(s.hourKey, s.hour, hours) /\ Covers(s.dayKey, s.day, days)
    /\ ~s.live => \A h \in Hours : hours[h] = 0 /\ days[h] = 0

Outstanding == {r \in Slots : phase[r] \in {"serving", "settling"}}

\* One window's overshoot, less the shares of the requests in out.
Reserved(limit, count, out) ==
    limit > 0 =>
        IF MinReservation <= limit
        THEN count + MinReservation + Cardinality(out) * MaxCharge <= limit + Overshoot
        ELSE count = 0 /\ out = {}

IInv ==
    /\ QuotaTypeOK
    /\ HistoryOK(st, hourSpent, daySpent)
    /\ Reserved(limits.hour, st.hour, Outstanding)
    /\ Reserved(limits.day, st.day, Outstanding)
=============================================================================
