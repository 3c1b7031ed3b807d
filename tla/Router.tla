------------------------------- MODULE Router -------------------------------
(***************************************************************************)
(* Selection of a replica and passive health (internal/routing/router.go). *)
(* One public model is modelled: models share only the health table, and   *)
(* OthersReport is what requests for other models do to it.                *)
(*                                                                         *)
(* Select reads the health table replica by replica, then takes its turn   *)
(* in the rotation under another lock, so a request's candidates may be    *)
(* out of date, and other requests may have picked, when it picks.         *)
(* Replicas are numbered by their place in the configuration.  Time is     *)
(* counted in units of healthBaseCooldown, and a cooldown by what is left  *)
(* of it.                                                                  *)
(***************************************************************************)
EXTENDS Integers, Sequences, FiniteSetsExt

CONSTANTS
    Attempts,      \* concurrent requests for the model
    Weight,        \* weights of the replicas, a sequence
    Strategies,    \* strategies the model may be configured with
    MaxLoad,       \* bound on what inflight reports
    Streaks,       \* how long the first replica has been failing at the start
    Lengths,       \* the lengths of streaks that are explored
    ShiftCap,      \* healthShiftCap
    MaxCooldown,   \* healthMaxCooldown, in units of the base
    WidthShift     \* the base shifted further than this overflows

ASSUME RouterAssumption ==
    /\ Weight \in Seq(Nat \ {0}) /\ Len(Weight) > 0
    /\ WidthShift \in Nat /\ ShiftCap \in 0..WidthShift /\ MaxCooldown \in Nat \ {0}
    /\ Streaks \subseteq Nat

Replicas == 1..Len(Weight)

\* The sum of f over the replicas, and of the weights of C.
Total(f) ==
    LET sum[k \in 0..Len(Weight)] == IF k = 0 THEN 0 ELSE sum[k - 1] + f[k]
    IN sum[Len(Weight)]
TotalWeight(C) == Total([i \in Replicas |-> IF i \in C THEN Weight[i] ELSE 0])

VARIABLES
    strategy,
    rr, current,    \* the shared counter, modulo the replicas; wrrState
    streak, until,  \* health, per replica
    step, tried, cands, sent,  \* each request: where it is, its exclude list,
                               \* its candidates and its pick
    skipped         \* history: for each replica, in how many of the last picks
                    \* it was a candidate all along and was passed over

health == <<streak, until>>
rotation == <<rr, current, skipped>>
routerVars == <<strategy, rotation, health, step, tried, cands, sent>>

RouterInit ==
    /\ strategy \in Strategies
    /\ rr = 0 /\ current = [i \in Replicas |-> 0]
    /\ \E n \in Streaks : streak = [i \in Replicas |-> IF i = 1 THEN n ELSE 0]
    /\ until = [i \in Replicas |-> 0]
    /\ step = [a \in Attempts |-> "select"]
    /\ tried = [a \in Attempts |-> {}] /\ cands = [a \in Attempts |-> {}]
    /\ sent = [a \in Attempts |-> 0]
    /\ skipped = [i \in Replicas |-> 0]

-----------------------------------------------------------------------------
(* Passive health *)

\* Go's shift: what does not fit the word is gone.
PowerOfTwo[n \in Nat] == IF n = 0 THEN 1 ELSE 2 * PowerOfTwo[n - 1]
Shifted(n) == IF n > WidthShift THEN 0 ELSE PowerOfTwo[n]

\* Mutant: the shift is not capped.
CooldownUncapped(n) == Min({Shifted(n - 1), MaxCooldown})

Cooldown(n) == Min({Shifted(Min({n - 1, ShiftCap})), MaxCooldown})

RecordFailure(i) ==
    /\ streak[i] + 1 \in Lengths
    /\ streak' = [streak EXCEPT ![i] = @ + 1]
    /\ until' = [until EXCEPT ![i] = Cooldown(streak[i] + 1)]

RecordSuccess(i) ==
    /\ streak' = [streak EXCEPT ![i] = 0]
    /\ until' = [until EXCEPT ![i] = 0]

Unavailable(i) == until[i] > 0

-----------------------------------------------------------------------------
(* Select *)

\* The candidates, in one look at the health table.
Filter(a) ==
    /\ step[a] = "select"
    /\ cands' = [cands EXCEPT ![a] = {i \in Replicas : i \notin tried[a] /\ ~Unavailable(i)}]
    /\ step' = [step EXCEPT ![a] = "pick"]
    /\ UNCHANGED <<strategy, rotation, health, tried, sent>>

\* ErrNoEligibleBackend: the request goes on with what it tried last or fails.
NoneEligible(a) ==
    /\ step[a] = "pick" /\ cands[a] = {}
    /\ step' = [step EXCEPT ![a] = "select"] /\ tried' = [tried EXCEPT ![a] = {}]
    /\ UNCHANGED <<strategy, rotation, health, cands, sent>>

\* The first of C that is at least as good as the others.
Best(C, better(_, _)) ==
    Min({i \in C : \A j \in C : ~better(j, i)})

\* Mutant: the counter indexes the candidates.
RingIndexed(C) ==
    CHOOSE i \in C : Cardinality({j \in C : j < i}) = rr % Cardinality(C)

\* Round robin: from the counter on, round the whole ring, the first candidate.
Ring(C) ==
    LET place(i) == (i - 1 - rr) % Len(Weight)
    IN Best(C, LAMBDA i, j : place(i) < place(j))

\* nextWRR.
Raised(C) == [i \in Replicas |-> IF i \in C THEN current[i] + Weight[i] ELSE current[i]]
NextWRR(C) == Best(C, LAMBDA i, j : Raised(C)[i] > Raised(C)[j])

\* The scores are compared with the division multiplied out.
Least(C, load) == Best(C, LAMBDA i, j : load[i] < load[j])
LeastWeighted(C, load) ==
    Best(C, LAMBDA i, j : (load[i] + 1) * Weight[j] < (load[j] + 1) * Weight[i])

Loads == [Replicas -> 0..MaxLoad]
Loaded(C) ==
    CASE strategy = "single" -> {Min(C)}
      [] strategy = "least-inflight" -> {Least(C, l) : l \in Loads}
      [] strategy = "weighted-least-inflight" -> {LeastWeighted(C, l) : l \in Loads}
      [] OTHER -> {}

\* What skipped becomes when i is picked out of C; only the rotations keep it.
Passed(C, i) ==
    [j \in Replicas |-> IF j \in C \ {i} THEN skipped[j] + 1 ELSE 0]

Send(a, i) ==
    /\ step[a] = "pick" /\ cands[a] # {}
    /\ sent' = [sent EXCEPT ![a] = i]
    /\ step' = [step EXCEPT ![a] = "sent"] /\ cands' = [cands EXCEPT ![a] = {}]
    /\ UNCHANGED <<strategy, health, tried>>

PickRing(a) ==
    /\ strategy = "round-robin" /\ step[a] = "pick" /\ cands[a] # {}
    /\ LET i == Ring(cands[a]) IN Send(a, i) /\ skipped' = Passed(cands[a], i)
    /\ rr' = (rr + 1) % Len(Weight)
    /\ UNCHANGED current

PickWeighted(a) ==
    /\ strategy = "weighted-round-robin" /\ step[a] = "pick" /\ cands[a] # {}
    /\ LET i == NextWRR(cands[a])
       IN /\ Send(a, i) /\ skipped' = Passed(cands[a], i)
          /\ current' = [Raised(cands[a]) EXCEPT ![i] = @ - TotalWeight(cands[a])]
    /\ UNCHANGED rr

PickLoaded(a) ==
    /\ cands[a] # {}
    /\ \E i \in Loaded(cands[a]) : Send(a, i)
    /\ UNCHANGED rotation

-----------------------------------------------------------------------------
(* What becomes of the attempt *)

\* The backend is tried no more: whether it could not be reached or refused.
Retry(a) ==
    /\ step[a] = "sent"
    /\ tried' = [tried EXCEPT ![a] = @ \union {sent[a]}]
    /\ sent' = [sent EXCEPT ![a] = 0] /\ step' = [step EXCEPT ![a] = "select"]
    /\ UNCHANGED <<strategy, rotation, cands>>

ConnectFails(a) == step[a] = "sent" /\ RecordFailure(sent[a]) /\ Retry(a)
Rejected(a) == Retry(a) /\ UNCHANGED health

\* An answer; the next request starts with nothing excluded.
Answered(a) ==
    /\ step[a] = "sent"
    /\ RecordSuccess(sent[a])
    /\ tried' = [tried EXCEPT ![a] = {}]
    /\ sent' = [sent EXCEPT ![a] = 0] /\ step' = [step EXCEPT ![a] = "select"]
    /\ UNCHANGED <<strategy, rotation, cands>>

OthersReport(i) ==
    /\ RecordFailure(i) \/ RecordSuccess(i)
    /\ UNCHANGED <<strategy, rotation, step, tried, cands, sent>>

\* Ages every cooldown.
HealthTick ==
    /\ \E i \in Replicas : until[i] > 0
    /\ until' = [i \in Replicas |-> IF until[i] > 0 THEN until[i] - 1 ELSE 0]
    /\ UNCHANGED <<strategy, rotation, streak, step, tried, cands, sent>>

RouterNext ==
    \/ \E a \in Attempts :
          \/ Filter(a) \/ NoneEligible(a)
          \/ PickRing(a) \/ PickWeighted(a) \/ PickLoaded(a)
          \/ ConnectFails(a) \/ Rejected(a) \/ Answered(a)
    \/ \E i \in Replicas : OthersReport(i)
    \/ HealthTick

RouterSpec == RouterInit /\ [][RouterNext]_routerVars

-----------------------------------------------------------------------------
(***************************************************************************)
(* No replica starves in a rotation (Select, nextWRR): one that is a       *)
(* candidate of as many picks in a row as the ring is long, or as its      *)
(* weight takes to make up for the deepest debt and the highest credit     *)
(* that n replicas can run up, has been picked, although the candidates of *)
(* the picks, failures and retries differ.                                 *)
(***************************************************************************)
Heaviest == Max({Weight[i] : i \in Replicas})

NoReplicaStarves ==
    \A i \in Replicas :
        IF strategy = "round-robin" THEN skipped[i] < Len(Weight)
        ELSE skipped[i] * Weight[i] <= 2 * (Len(Weight) - 1) * Heaviest

(***************************************************************************)
(* A failure never shortens a cooldown (recordFailure): however long the   *)
(* streak, the backend is left alone for at least the base time and for no *)
(* less than what was left.                                                *)
(***************************************************************************)
FailureExtendsCooldown ==
    [][\A i \in Replicas :
          streak'[i] > streak[i] => until'[i] >= 1 /\ until'[i] >= until[i]]_routerVars
=============================================================================
