--------------------------- MODULE DispatchProofs ---------------------------
(***************************************************************************)
(* Proofs about where a request goes: Dispatch, for every number of        *)
(* requests and backends and every retry budget, and Affinity, for every   *)
(* number of keys, responses and concurrent requests and every bound.      *)
(***************************************************************************)
EXTENDS Dispatch, Affinity, FiniteSetTheorems, TLAPS

-----------------------------------------------------------------------------
(* Dispatch.                                                               *)

Active == {"idle", "loop", "backoff", "forward"}

\* Every failed attempt has an error and a backend, and no backend was tried
\* without one; an attempt that is made is within the budget, and a pinned
\* request has met no backend but its own.
Attempts(r) ==
    /\ attempt[r] > 0 => lastErr[r] \in Errors /\ lastFailed[r] \in Backends
    /\ attempt[r] = 0 => tried[r] = {}
    /\ at[r] = "idle" => lastFailed[r] = None
    /\ pinned[r] # None => lastFailed[r] \in {None, pinned[r]}
    /\ at[r] \in {"backoff", "forward"} => /\ target[r] \in Backends
                                           /\ attempt[r] < MaxAttempts
                                           /\ pinned[r] # None => target[r] = pinned[r]

\* What is remembered of a Retry-After belongs to the last failure, and it is
\* forwarded only with the answer.
Hints(r) ==
    /\ retryAfter[r] # None => lastErr[r] = "rate_limited" /\ lastFailed[r] = retryAfter[r]
    /\ after[r] # None => /\ at[r] = "done" /\ status[r] = 429
                          /\ lastErr[r] = "rate_limited" /\ lastFailed[r] = after[r]

\* One call of Forward for each attempt, and an answer at the end, which is 499
\* only for a client that has gone.
Answered(r) ==
    /\ at[r] \in Active => sends[r] = attempt[r]
    /\ sends[r] <= MaxAttempts
    /\ at[r] = "done" => status[r] # 0
    /\ status[r] = 499 => r \in departed

RequestInv(r) == Attempts(r) /\ Hints(r) /\ Answered(r)

DispatchInv == DispatchTypeOK /\ \A r \in Handlers : RequestInv(r)

\* Every error class has an answer; it is never 499, and a 429 only of a 429.
LEMMA ResponseFacts ==
    ASSUME NEW err \in Errors, NEW code \in Response(err)
    PROVE  /\ code \in Statuses \ {0, 499}
           /\ err = "rate_limited" => code = 429
  BY DEF Errors, Response, Statuses, BodyErrors, TargetErrors, PrepareErrors

\* The backend of the next attempt is a backend.
LEMMA TargetsFacts ==
    ASSUME DispatchInv, NEW r \in Handlers, NEW b \in Targets(r)
    PROVE  b \in Backends /\ (pinned[r] # None => b = pinned[r])
  <1>1. pinned[r] \in Backends \cup {None} /\ lastFailed[r] \in Backends \cup {None}
    BY DEF DispatchInv, DispatchTypeOK
  <1>2. CASE pinned[r] # None
    BY <1>1, <1>2 DEF Targets
  <1>3. CASE pinned[r] = None
    BY <1>1, <1>3 DEF Targets, Candidates
  <1> QED
    BY <1>2, <1>3

\* Up to the loop nothing was tried.
LEMMA BeginKeeps ==
    ASSUME DispatchInv, NEW r \in Handlers, Begin(r)
    PROVE  DispatchInv'
  <1>1. DispatchTypeOK'
    BY DEF DispatchInv, DispatchTypeOK, Begin, Return, Move, shared, Statuses
  <1>2. ASSUME NEW q \in Handlers PROVE RequestInv(q)'
    BY DEF DispatchInv, DispatchTypeOK, RequestInv, Attempts, Hints, Answered, Active,
       Begin, Return, Move, shared, BodyErrors, TargetErrors, PrepareErrors
  <1> QED
    BY <1>1, <1>2 DEF DispatchInv

\* The head of the loop: the client is gone, or the next backend is chosen.
LEMMA SelectKeeps ==
    ASSUME DispatchInv, NEW r \in Handlers,
           LoopCanceled(r) \/ SelectTarget(r) \/ NoBackend(r) \/ Backoff(r)
    PROVE  DispatchInv'
  <1>1. CASE LoopCanceled(r) \/ NoBackend(r)
    <2>1. DispatchTypeOK'
      BY <1>1 DEF DispatchInv, DispatchTypeOK, LoopCanceled, NoBackend, Return, Move, local,
                  shared, Statuses
    <2>2. ASSUME NEW q \in Handlers PROVE RequestInv(q)'
      BY <1>1 DEF DispatchInv, DispatchTypeOK, RequestInv, Attempts, Hints, Answered, Active,
         LoopCanceled, NoBackend, Return, Move, local, shared
    <2> QED
      BY <2>1, <2>2 DEF DispatchInv
  <1>2. CASE SelectTarget(r)
    <2>1. PICK b \in Targets(r) :
            /\ target' = [target EXCEPT ![r] = b]
            /\ Move(r, IF attempt[r] > 0 /\ b = lastFailed[r] THEN "backoff" ELSE "forward")
      BY <1>2 DEF SelectTarget
    <2>2. b \in Backends /\ (pinned[r] # None => b = pinned[r])
      BY TargetsFacts
    <2>3. DispatchTypeOK'
      BY <1>2, <2>1, <2>2 DEF DispatchInv, DispatchTypeOK, SelectTarget, Move, shared
    <2>4. ASSUME NEW q \in Handlers PROVE RequestInv(q)'
      BY <1>2, <2>1, <2>2 DEF DispatchInv, DispatchTypeOK, RequestInv, Attempts, Hints,
                              Answered, Active, SelectTarget, Move, shared
    <2> QED
      BY <2>3, <2>4 DEF DispatchInv
  <1>3. CASE Backoff(r)
    <2>1. DispatchTypeOK'
      BY <1>3 DEF DispatchInv, DispatchTypeOK, Backoff, Return, Move, local, shared, Statuses
    <2>2. ASSUME NEW q \in Handlers PROVE RequestInv(q)'
      BY <1>3 DEF DispatchInv, DispatchTypeOK, RequestInv, Attempts, Hints, Answered, Active,
         Backoff, Return, Move, local, shared
    <2> QED
      BY <2>1, <2>2 DEF DispatchInv
  <1> QED
    BY <1>1, <1>2, <1>3

\* An attempt that succeeds, or whose client is gone.
LEMMA ForwardKeeps ==
    ASSUME DispatchInv, NEW r \in Handlers, ForwardSucceeds(r) \/ ForwardCanceled(r)
    PROVE  DispatchInv'
  <1>1. DispatchTypeOK'
    BY DEF DispatchInv, DispatchTypeOK, ForwardSucceeds, ForwardCanceled, Return, Move, Sent,
       RecordSuccess, local, shared, Statuses
  <1>2. ASSUME NEW q \in Handlers PROVE RequestInv(q)'
    BY DispatchAssumption DEF DispatchInv, DispatchTypeOK, RequestInv, Attempts, Hints,
                              Answered, Active, ForwardSucceeds, ForwardCanceled, Return, Move,
                              Sent, local, shared
  <1> QED
    BY <1>1, <1>2 DEF DispatchInv

\* What the loop remembers of a failed attempt of r.
LEMMA RememberFacts ==
    ASSUME DispatchInv, NEW r \in Handlers, NEW err \in Errors,
           at[r] = "forward", Remember(r, err)
    PROVE  /\ lastErr' = [lastErr EXCEPT ![r] = err]
           /\ lastFailed' = [lastFailed EXCEPT ![r] = target[r]]
           /\ \E b \in Backends \cup {None} :
                 /\ retryAfter' = [retryAfter EXCEPT ![r] = b]
                 /\ b # None => err = "rate_limited" /\ b = target[r]
           /\ target[r] \in Backends
  BY DEF DispatchInv, RequestInv, Attempts, DispatchTypeOK, Remember, RetryAfter

\* A failure that may be retried.
LEMMA RetryableKeeps ==
    ASSUME DispatchInv, NEW r \in Handlers, ForwardRetryable(r)
    PROVE  DispatchInv'
  <1>1. PICK err \in Errors :
          /\ at[r] = "forward" /\ Remember(r, err) /\ Sent(r) /\ Move(r, "loop")
          /\ cooling' \in {cooling, cooling \cup {target[r]}}
          /\ tried' = [tried EXCEPT ![r] = @ \cup {target[r]}]
          /\ attempt' = [attempt EXCEPT ![r] = @ + 1]
          /\ UNCHANGED <<pinned, target, status, after, departed, draining, drained>>
    BY DEF ForwardRetryable, RecordFailure
  <1>2. PICK b \in Backends \cup {None} :
          /\ retryAfter' = [retryAfter EXCEPT ![r] = b]
          /\ b # None => err = "rate_limited" /\ b = target[r]
    BY <1>1, RememberFacts
  <1>3. /\ lastErr' = [lastErr EXCEPT ![r] = err]
        /\ lastFailed' = [lastFailed EXCEPT ![r] = target[r]]
        /\ target[r] \in Backends
    BY <1>1, RememberFacts
  <1>4. attempt[r] < MaxAttempts
    BY <1>1 DEF DispatchInv, RequestInv, Attempts
  <1>5. DispatchTypeOK'
    BY <1>1, <1>2, <1>3, <1>4, DispatchAssumption DEF DispatchInv, DispatchTypeOK, Move, Sent
  <1>6. ASSUME NEW q \in Handlers PROVE RequestInv(q)'
    BY <1>1, <1>2, <1>3, <1>4, DispatchAssumption
       DEF DispatchInv, DispatchTypeOK, RequestInv, Attempts, Hints, Answered, Active, Move, Sent
  <1> QED
    BY <1>5, <1>6 DEF DispatchInv

\* A failure that ends the loop carries no Retry-After.
LEMMA TerminalKeeps ==
    ASSUME DispatchInv, NEW r \in Handlers, ForwardTerminal(r)
    PROVE  DispatchInv'
  <1>1. PICK err \in Errors :
          /\ at[r] = "forward" /\ Remember(r, err) /\ Sent(r) /\ ~Retryable(err)
          /\ FailWith(r, err, retryAfter'[r])
          /\ UNCHANGED <<pinned, attempt, tried, target, shared>>
    BY DEF ForwardTerminal
  <1>2. PICK b \in Backends \cup {None} :
          /\ retryAfter' = [retryAfter EXCEPT ![r] = b]
          /\ b # None => err = "rate_limited" /\ b = target[r]
    BY <1>1, RememberFacts
  <1>3. /\ lastErr' = [lastErr EXCEPT ![r] = err]
        /\ lastFailed' = [lastFailed EXCEPT ![r] = target[r]]
        /\ target[r] \in Backends
    BY <1>1, RememberFacts
  <1>4. PICK code \in Statuses \ {0, 499} :
          /\ at' = [at EXCEPT ![r] = "done"] /\ status' = [status EXCEPT ![r] = code]
    <2>1. PICK code \in Response(err) : Return(r, code)
      BY <1>1 DEF FailWith
    <2>2. code \in Statuses \ {0, 499}
      BY ResponseFacts
    <2> QED
      BY ZenonT(60), <2>1, <2>2 DEF Return, Move
  <1>5. after' = [after EXCEPT ![r] = None]
    BY ZenonT(60), <1>1 DEF FailWith, Retryable
  <1>6. DispatchTypeOK'
    BY <1>1, <1>2, <1>3, <1>4, <1>5 DEF DispatchInv, DispatchTypeOK, Sent, shared
  <1>7. ASSUME NEW q \in Handlers PROVE RequestInv(q)'
    BY <1>1, <1>2, <1>3, <1>4, <1>5, DispatchAssumption
       DEF DispatchInv, DispatchTypeOK, RequestInv, Attempts, Hints, Answered, Active, Sent, shared
  <1> QED
    BY <1>6, <1>7 DEF DispatchInv

\* The budget is exhausted: the last failure is answered, with its Retry-After.
LEMMA ExhaustedKeeps ==
    ASSUME DispatchInv, NEW r \in Handlers, LoopExhausted(r)
    PROVE  DispatchInv'
  <1>1. /\ at[r] = "loop" /\ lastErr[r] \in Errors
        /\ FailWith(r, lastErr[r], retryAfter[r]) /\ UNCHANGED <<local, shared, sends>>
    BY DispatchAssumption DEF DispatchInv, RequestInv, Attempts, DispatchTypeOK, LoopExhausted
  <1>2. PICK code \in Response(lastErr[r]) :
          at' = [at EXCEPT ![r] = "done"] /\ status' = [status EXCEPT ![r] = code]
    BY <1>1 DEF FailWith, Return, Move
  <1>3. code \in Statuses \ {0, 499} /\ (lastErr[r] = "rate_limited" => code = 429)
    BY <1>1, ResponseFacts
  <1>4. after' = [after EXCEPT ![r] = IF lastErr[r] = "rate_limited" THEN retryAfter[r] ELSE None]
    BY <1>1 DEF FailWith
  <1>5. DispatchTypeOK'
    BY <1>1, <1>2, <1>3, <1>4 DEF DispatchInv, DispatchTypeOK, local, shared
  <1>6. ASSUME NEW q \in Handlers PROVE RequestInv(q)'
    BY <1>1, <1>2, <1>3, <1>4
       DEF DispatchInv, DispatchTypeOK, RequestInv, Attempts, Hints, Answered, Active, local, shared
  <1> QED
    BY <1>5, <1>6 DEF DispatchInv

\* The relay, and what others do.
LEMMA OthersKeep ==
    ASSUME DispatchInv,
           \/ \E r \in Handlers : Relay(r) \/ ClientGoes(r)
           \/ \E b \in Backends : OthersFail(b) \/ CooldownEnds(b) \/ DrainClient(b)
           \/ BeginDraining
           \/ UNCHANGED dispatchVars
    PROVE  DispatchInv'
  <1>1. ASSUME NEW r \in Handlers, Relay(r) \/ ClientGoes(r) PROVE DispatchInv'
    <2>1. DispatchTypeOK'
      BY <1>1 DEF DispatchInv, DispatchTypeOK, Relay, ClientGoes, Return, Move, local, shared,
                  Statuses
    <2>2. ASSUME NEW q \in Handlers PROVE RequestInv(q)'
      BY <1>1 DEF DispatchInv, DispatchTypeOK, RequestInv, Attempts, Hints, Answered, Active,
         Relay, ClientGoes, Return, Move, local, shared
    <2> QED
      BY <2>1, <2>2 DEF DispatchInv
  <1>2. ASSUME \/ \E b \in Backends : OthersFail(b) \/ CooldownEnds(b) \/ DrainClient(b)
               \/ BeginDraining \/ UNCHANGED dispatchVars
        PROVE  DispatchInv'
    <2>1. UNCHANGED <<at, local, status, after, departed, sends>>
      BY <1>2 DEF OthersFail, CooldownEnds, DrainClient, BeginDraining, dispatchVars, local
    <2>2. DispatchTypeOK'
      BY ZenonT(60), <1>2, <2>1 DEF DispatchInv, DispatchTypeOK, OthersFail, CooldownEnds,
                                    DrainClient, BeginDraining, RecordFailure, dispatchVars, local
    <2>3. ASSUME NEW q \in Handlers PROVE RequestInv(q)'
      BY <2>1 DEF DispatchInv, RequestInv, Attempts, Hints, Answered, local
    <2> QED
      BY <2>2, <2>3 DEF DispatchInv
  <1> QED
    BY <1>1, <1>2

\* The bookkeeping of dispatch is consistent in every reachable state.
THEOREM DispatchInductive == DispatchSpec => []DispatchInv
  <1>1. DispatchInit => DispatchInv
    <2> SUFFICES ASSUME DispatchInit PROVE DispatchInv
      OBVIOUS
    <2>1. DispatchTypeOK
      <3>1. 0 \in 0..MaxAttempts /\ 0 \in Statuses
        BY DispatchAssumption DEF Statuses
      <3> QED
        BY <3>1 DEF DispatchInit, DispatchTypeOK
    <2>2. ASSUME NEW q \in Handlers PROVE RequestInv(q)
      BY DispatchAssumption DEF DispatchInit, RequestInv, Attempts, Hints, Answered
    <2> QED
      BY <2>1, <2>2 DEF DispatchInv
  <1>2. DispatchInv /\ [DispatchNext]_dispatchVars => DispatchInv'
    BY BeginKeeps, SelectKeeps, ForwardKeeps, RetryableKeeps, TerminalKeeps, ExhaustedKeeps,
       OthersKeep DEF DispatchNext, Step
  <1> QED
    BY <1>1, <1>2, PTL DEF DispatchSpec

\* A forwarded Retry-After is that of the error the client sees.
THEOREM RetryAfterBelongs == DispatchSpec => []RetryAfterOfFinalError
  <1>1. DispatchInv => RetryAfterOfFinalError
    BY DEF DispatchInv, RequestInv, Hints, RetryAfterOfFinalError
  <1> QED
    BY <1>1, DispatchInductive, PTL

\* What a request's outcome may be: dispatch never calls Forward more often than
\* max_attempts allows, retries and fallbacks together, and never returns
\* without an answer, which is 499 only for a client that has gone.  This is
\* what DispatchEnds says of the end that it shows to be reached.
OutcomeOK ==
    \A r \in Handlers :
        /\ sends[r] <= MaxAttempts
        /\ at[r] = "done" => status[r] # 0
        /\ status[r] = 499 => r \in departed

\* The budget holds for every number of backends and every history of their
\* health (proxy.go:308-310).
THEOREM OutcomeIsSound == DispatchSpec => []OutcomeOK
  <1>1. DispatchInv => OutcomeOK
    BY DEF DispatchInv, RequestInv, Answered, OutcomeOK
  <1> QED
    BY <1>1, DispatchInductive, PTL

\* One step of RepeatsAreTheLastResort.
Repeats ==
    \A r \in Handlers :
        at[r] = "loop" /\ at'[r] \in {"backoff", "forward"} /\ target'[r] \in tried[r]
            => /\ at'[r] = "backoff"
               /\ pinned[r] # None \/ Backends \subseteq tried[r] \cup cooling

\* Only SelectTarget takes a request from the loop to an attempt.
LEMMA OnlySelectTarget ==
    ASSUME DispatchInv, NEW r \in Handlers, [DispatchNext]_dispatchVars,
           at[r] = "loop", at'[r] \in {"backoff", "forward"}
    PROVE  SelectTarget(r)
  <1>1. ASSUME NEW q \in Handlers, q # r, Begin(q) \/ Step(q) PROVE at'[r] = at[r]
    BY <1>1 DEF Begin, Step, LoopCanceled, SelectTarget, NoBackend, LoopExhausted, Backoff,
       ForwardSucceeds, ForwardCanceled, ForwardRetryable, ForwardTerminal, Relay, FailWith,
       Return, Move, DispatchInv, DispatchTypeOK
  <1>2. ASSUME Begin(r) \/ Step(r) PROVE SelectTarget(r)
    BY <1>2 DEF Begin, Step, LoopCanceled, NoBackend, LoopExhausted, Backoff,
       ForwardSucceeds, ForwardCanceled, ForwardRetryable, ForwardTerminal, Relay, FailWith,
       Return, Move, DispatchInv, DispatchTypeOK
  <1>3. ASSUME \/ \E q \in Handlers : ClientGoes(q)
               \/ \E b \in Backends : OthersFail(b) \/ CooldownEnds(b) \/ DrainClient(b)
               \/ BeginDraining \/ UNCHANGED dispatchVars
        PROVE  at'[r] = at[r]
    BY <1>3 DEF ClientGoes, OthersFail, CooldownEnds, DrainClient, BeginDraining, dispatchVars
  <1> QED
    BY <1>1, <1>2, <1>3 DEF DispatchNext

\* A backend that already failed this request is repeated only when nothing
\* else is eligible or the request is pinned, and only after the backoff.
THEOREM RepeatsLast == DispatchSpec => RepeatsAreTheLastResort
  <1>1. ASSUME DispatchInv, [DispatchNext]_dispatchVars PROVE Repeats
    <2> SUFFICES ASSUME NEW r \in Handlers,
                        at[r] = "loop", at'[r] \in {"backoff", "forward"}, target'[r] \in tried[r]
                 PROVE  /\ at'[r] = "backoff"
                        /\ pinned[r] # None \/ Backends \subseteq tried[r] \cup cooling
      BY DEF Repeats
    <2>1. SelectTarget(r)
      BY <1>1, OnlySelectTarget
    <2>2. PICK b \in Targets(r) :
            /\ target' = [target EXCEPT ![r] = b]
            /\ Move(r, IF attempt[r] > 0 /\ b = lastFailed[r] THEN "backoff" ELSE "forward")
      BY <2>1 DEF SelectTarget
    <2>3. b \in tried[r] /\ attempt[r] > 0
      BY <1>1, <2>2 DEF DispatchInv, RequestInv, Attempts, DispatchTypeOK
    <2>4. b = lastFailed[r]
      BY <1>1, <2>2, <2>3, DispatchAssumption
         DEF Targets, Candidates, DispatchInv, RequestInv, Attempts, DispatchTypeOK
    <2>5. pinned[r] # None \/ Backends \subseteq tried[r] \cup cooling
      BY <2>2, <2>3 DEF Targets, Candidates
    <2> QED
      BY <1>1, <2>2, <2>3, <2>4, <2>5 DEF Move, DispatchInv, DispatchTypeOK
  <1>2. DispatchInv /\ [DispatchNext]_dispatchVars => [Repeats]_dispatchVars
    BY <1>1
  <1> QED
    BY <1>2, DispatchInductive, PTL DEF DispatchSpec, RepeatsAreTheLastResort, Repeats

-----------------------------------------------------------------------------
(* How far a request has to go.                                            *)

\* An upper bound on the steps of dispatch until it returns: three for every
\* attempt that is left.
Left(l, a) ==
    CASE l = "idle" -> 3 * MaxAttempts + 4
      [] l = "loop" -> 3 * (MaxAttempts - a) + 3
      [] l = "backoff" -> 3 * (MaxAttempts - a) + 2
      [] l = "forward" -> 3 * (MaxAttempts - a) + 1
      [] l = "relay" -> 1
      [] l = "done" -> 0

StepsLeft(r) == Left(at[r], attempt[r])

\* The safety half of DispatchEnds (proxy.go:308-518): every step of dispatch
\* takes the request nearer its end, and nothing takes it back, whatever other
\* requests, clients, cooldowns and drains do; so it ends within three steps
\* for each of its max_attempts, retries and fallbacks together.
RequestsOnlyAdvance ==
    [][\A r \in Handlers :
          /\ Begin(r) \/ Step(r) => StepsLeft(r)' < StepsLeft(r)
          /\ StepsLeft(r)' <= StepsLeft(r)]_dispatchVars

\* When the attempts are used up there is an error to answer with
\* (proxy.go:505-518 relies on lastErr, which the loop has to have set).
ExhaustedHasAnswer ==
    \A r \in Handlers :
        at[r] = "loop" /\ attempt[r] >= MaxAttempts
            => lastErr[r] \in Errors /\ Response(lastErr[r]) # {}

LEMMA StepsAreBounded ==
    ASSUME NEW l \in {"idle", "loop", "backoff", "forward", "relay", "done"},
           NEW a \in 0..MaxAttempts
    PROVE  Left(l, a) \in Nat
  <1>1. MaxAttempts \in Nat \ {0}
    BY DispatchAssumption
  <1>2. PICK m \in Nat : m = MaxAttempts - a
    BY <1>1
  <1> QED
    BY <1>1, <1>2 DEF Left

LEMMA StepAdvances ==
    ASSUME DispatchInv, NEW r \in Handlers, Begin(r) \/ Step(r)
    PROVE  StepsLeft(r)' < StepsLeft(r)
  <1>0. /\ at \in [Handlers -> {"idle", "loop", "backoff", "forward", "relay", "done"}]
        /\ attempt \in [Handlers -> 0..MaxAttempts] /\ MaxAttempts \in Nat \ {0}
        /\ at[r] \in {"backoff", "forward"} => attempt[r] < MaxAttempts
    BY DispatchAssumption DEF DispatchInv, DispatchTypeOK, RequestInv, Attempts
  <1>1. PICK a \in 0..MaxAttempts, m \in Nat : a = attempt[r] /\ m = MaxAttempts - a
    BY <1>0
  <1> USE <1>0 DEF Return, Move
  <1>2. CASE Begin(r)
    <2>1. at[r] = "idle" /\ at'[r] \in {"loop", "done"} /\ attempt' = attempt
      BY <1>2 DEF Begin
    <2> QED
      BY <1>1, <2>1 DEF StepsLeft, Left
  <1>3. CASE at'[r] = "done" /\ at[r] \notin {"idle", "done"}
    BY <1>1, <1>3 DEF StepsLeft, Left
  <1>4. CASE SelectTarget(r) \/ (Backoff(r) /\ at'[r] # "done")
    <2>1. /\ attempt' = attempt
          /\ \/ at[r] = "loop" /\ at'[r] \in {"backoff", "forward"}
             \/ at[r] = "backoff" /\ at'[r] = "forward"
      BY <1>4 DEF SelectTarget, Backoff, local
    <2> QED
      BY <1>1, <2>1 DEF StepsLeft, Left
  <1>5. CASE ForwardSucceeds(r)
    <2>1. at[r] = "forward" /\ at'[r] = "relay" /\ m > 0
      BY <1>1, <1>5 DEF ForwardSucceeds
    <2> QED
      BY <1>1, <2>1 DEF StepsLeft, Left
  <1>6. CASE ForwardRetryable(r)
    <2>1. at[r] = "forward" /\ at'[r] = "loop" /\ attempt'[r] = a + 1
      BY <1>1, <1>6 DEF ForwardRetryable
    <2> QED
      BY <1>1, <2>1 DEF StepsLeft, Left
  <1>7. CASE \/ LoopCanceled(r) \/ NoBackend(r) \/ LoopExhausted(r)
             \/ (Backoff(r) /\ at'[r] = "done")
             \/ ForwardCanceled(r) \/ ForwardTerminal(r) \/ Relay(r)
    <2>1. at'[r] = "done" /\ at[r] \notin {"idle", "done"}
      BY <1>7 DEF LoopCanceled, NoBackend, LoopExhausted, Backoff, ForwardCanceled,
                  ForwardTerminal, Relay, FailWith
    <2> QED
      BY <1>3, <2>1
  <1> QED
    BY <1>2, <1>4, <1>5, <1>6, <1>7 DEF Step

\* A step of somebody else leaves the place of a request alone.
LEMMA OthersLeaveIt ==
    ASSUME DispatchInv, NEW r \in Handlers, [DispatchNext]_dispatchVars, ~(Begin(r) \/ Step(r))
    PROVE  at'[r] = at[r] /\ attempt'[r] = attempt[r]
  <1>0. at \in [Handlers -> {"idle", "loop", "backoff", "forward", "relay", "done"}]
        /\ attempt \in [Handlers -> 0..MaxAttempts]
    BY DEF DispatchInv, DispatchTypeOK
  <1> USE <1>0 DEF Return, Move, local
  <1>1. ASSUME NEW q \in Handlers, q # r, Begin(q) \/ Step(q)
        PROVE  at'[r] = at[r] /\ attempt'[r] = attempt[r]
    <2>1. CASE Begin(q) \/ LoopCanceled(q) \/ SelectTarget(q) \/ NoBackend(q) \/ LoopExhausted(q)
      BY <1>1, <2>1 DEF Begin, LoopCanceled, SelectTarget, NoBackend, LoopExhausted, FailWith
    <2>2. CASE Backoff(q) \/ ForwardSucceeds(q) \/ ForwardCanceled(q) \/ Relay(q)
      BY <1>1, <2>2 DEF Backoff, ForwardSucceeds, ForwardCanceled, Relay
    <2>3. CASE ForwardRetryable(q) \/ ForwardTerminal(q)
      BY <1>1, <2>3 DEF ForwardRetryable, ForwardTerminal, FailWith
    <2> QED
      BY <1>1, <2>1, <2>2, <2>3 DEF Step
  <1>2. ASSUME \/ \E q \in Handlers : ClientGoes(q)
               \/ \E b \in Backends : OthersFail(b) \/ CooldownEnds(b) \/ DrainClient(b)
               \/ BeginDraining \/ UNCHANGED dispatchVars
        PROVE  at' = at /\ attempt' = attempt
    BY <1>2 DEF ClientGoes, OthersFail, CooldownEnds, DrainClient, BeginDraining, dispatchVars
  <1> QED
    BY <1>1, <1>2 DEF DispatchNext

\* For any number of requests and backends, any budget and any history of
\* their health, a request only advances.
THEOREM RequestsAdvance == DispatchSpec => RequestsOnlyAdvance
  <1>1. ASSUME DispatchInv, DispatchInv', [DispatchNext]_dispatchVars, NEW r \in Handlers
        PROVE  /\ Begin(r) \/ Step(r) => StepsLeft(r)' < StepsLeft(r)
               /\ StepsLeft(r)' <= StepsLeft(r)
    <2>1. StepsLeft(r) \in Nat
      BY SMTT(60), <1>1, StepsAreBounded DEF DispatchInv, DispatchTypeOK, StepsLeft
    <2>2. StepsLeft(r)' \in Nat
      BY <1>1, StepsAreBounded DEF DispatchInv, DispatchTypeOK, StepsLeft
    <2>3. CASE Begin(r) \/ Step(r)
      BY <1>1, <2>1, <2>2, <2>3, StepAdvances
    <2>4. CASE ~(Begin(r) \/ Step(r))
      <3>1. StepsLeft(r)' = StepsLeft(r)
        BY <1>1, <2>4, OthersLeaveIt DEF StepsLeft
      <3> QED
        BY <2>1, <2>4, <3>1
    <2> QED
      BY <2>3, <2>4
  <1>2. DispatchInv /\ DispatchInv' /\ [DispatchNext]_dispatchVars =>
           \A r \in Handlers : /\ Begin(r) \/ Step(r) => StepsLeft(r)' < StepsLeft(r)
                               /\ StepsLeft(r)' <= StepsLeft(r)
    BY <1>1
  <1> QED
    BY <1>2, DispatchInductive, PTL DEF DispatchSpec, RequestsOnlyAdvance

\* The epilogue of dispatch is never reached without an error.
THEOREM EpilogueAnswers == DispatchSpec => []ExhaustedHasAnswer
  <1>1. DispatchInv => ExhaustedHasAnswer
    <2> SUFFICES ASSUME DispatchInv, NEW r \in Handlers, attempt[r] >= MaxAttempts
                 PROVE  lastErr[r] \in Errors /\ Response(lastErr[r]) # {}
      BY DEF ExhaustedHasAnswer
    <2>1. attempt[r] > 0
      BY DispatchAssumption DEF DispatchInv, DispatchTypeOK
    <2>2. lastErr[r] \in Errors
      BY <2>1 DEF DispatchInv, RequestInv, Attempts
    <2>3. \A e \in Errors : Response(e) # {}
      BY DEF Errors, Response
    <2> QED
      BY <2>2, <2>3
  <1> QED
    BY <1>1, DispatchInductive, PTL

-----------------------------------------------------------------------------
(* The table of response owners.                                           *)

\* An entry is filed under the key that created it, a request that was sent to
\* an owner got there through an entry of its own, and a clock reading is never
\* ahead of the clock.
OwnersInv ==
    /\ clock \in Nat
    /\ \A k \in DOMAIN table : table[k].by = k[1] /\ table[k].expiry \in Nat
    /\ DOMAIN call = Calls
    /\ \A c \in Calls :
          /\ call[c].at \in {"fetch", "relay"} => call[c].by = call[c].user
          /\ call[c].at \in {"get", "put"} => call[c].now \in Nat /\ call[c].now <= clock

\* The table is finite and within its bound.
BoundInv == IsFiniteSet(DOMAIN table) /\ Cardinality(DOMAIN table) <= MaxEntries

\* What is left without some entries.
LEMMA WithoutFacts ==
    ASSUME NEW S
    PROVE  /\ DOMAIN Without(S) = DOMAIN table \ S
           /\ \A k \in DOMAIN table \ S : Without(S)[k] = table[k]
  BY DEF Without, Restrict

\* evictLocked deletes entries of the table, nothing when there is room and
\* something when there is none.
LEMMA EvictedFacts ==
    ASSUME NEW now, NEW S \in Evicted(now)
    PROVE  /\ S \subseteq DOMAIN table
           /\ Cardinality(DOMAIN table) < MaxEntries => S = {}
           /\ ~(Cardinality(DOMAIN table) < MaxEntries) => S # {}
  <1> DEFINE gone == {k \in DOMAIN table : Expired(table[k], now)}
             live == DOMAIN table \ gone
             probes == IF Cardinality(live) >= Probe THEN kSubset(Probe, live)
                       ELSE IF gone = {} THEN {live} ELSE {}
             oldest(P) == {k \in P : \A j \in P : table[k].expiry <= table[j].expiry}
  <1>1. CASE Cardinality(DOMAIN table) < MaxEntries
    BY <1>1 DEF Evicted
  <1>2. CASE ~(Cardinality(DOMAIN table) < MaxEntries)
    <2>1. S \in {{k} : k \in UNION {oldest(P) : P \in probes}} \union ({gone} \ {{}})
      BY <1>2 DEF Evicted
    <2>2. \A P \in probes : P \subseteq DOMAIN table
      BY DEF kSubset
    <2>3. \A P \in probes : oldest(P) \subseteq DOMAIN table
      BY <2>2
    <2>4. CASE S \in {gone} \ {{}}
      BY <1>2, <2>4
    <2>5. CASE S \in {{k} : k \in UNION {oldest(P) : P \in probes}}
      <3> HIDE DEF probes, oldest
      <3> QED
        BY <1>2, <2>3, <2>5
    <2> QED
      BY <2>1, <2>4, <2>5
  <1> QED
    BY <1>1, <1>2

\* Removing entries, and then adding one, in numbers.
LEMMA TableSize ==
    ASSUME NEW D, IsFiniteSet(D), Cardinality(D) <= MaxEntries, NEW S, S \subseteq D, NEW k,
           Cardinality(D) < MaxEntries \/ S # {}
    PROVE  /\ IsFiniteSet((D \ S) \cup {k})
           /\ Cardinality((D \ S) \cup {k}) <= MaxEntries
  <1>0. MaxEntries \in Nat /\ Cardinality(D) \in Nat
    BY AffinityAssumption, FS_CardinalityType
  <1>1. IsFiniteSet(D \ S) /\ Cardinality(D \ S) \in Nat /\ Cardinality(D \ S) <= Cardinality(D)
    BY FS_Subset, FS_CardinalityType
  <1>2. Cardinality(D \ S) < MaxEntries
    <2>1. CASE S = {}
      BY <1>0, <1>1, <2>1
    <2>2. ASSUME NEW j \in S PROVE Cardinality(D \ S) < Cardinality(D)
      <3>1. /\ IsFiniteSet(D \ {j}) /\ Cardinality(D \ {j}) = Cardinality(D) - 1
        BY FS_RemoveElement
      <3>2. Cardinality(D \ S) <= Cardinality(D \ {j})
        BY <3>1, FS_Subset
      <3> QED
        BY <1>0, <1>1, <3>1, <3>2
    <2> QED
      BY <1>0, <1>1, <2>1, <2>2
  <1>3. /\ IsFiniteSet((D \ S) \cup {k})
        /\ Cardinality((D \ S) \cup {k}) \in {Cardinality(D \ S), Cardinality(D \ S) + 1}
    BY <1>1, FS_AddElement
  <1> QED
    BY <1>0, <1>1, <1>2, <1>3

\* What Put does to the table.
LEMMA PutFacts ==
    ASSUME NEW c \in Calls, Put(c)
    PROVE  \E S \in Evicted(call[c].now) :
             LET k == <<call[c].user, call[c].resp>>
                 v == [owner |-> call[c].owner, model |-> call[c].model,
                       expiry |-> call[c].now + TTL, by |-> call[c].user]
             IN /\ DOMAIN table' = (DOMAIN table \ S) \cup {k}
                /\ \A j \in DOMAIN table' : table'[j] = IF j = k THEN v ELSE table[j]
  <1> DEFINE k == <<call[c].user, call[c].resp>>
             v == [owner |-> call[c].owner, model |-> call[c].model,
                   expiry |-> call[c].now + TTL, by |-> call[c].user]
  <1>1. PICK S \in Evicted(call[c].now) :
          table' = [j \in DOMAIN Without(S) \union {k} |-> IF j = k THEN v ELSE table[j]]
    BY DEF Put
  <1>2. DOMAIN Without(S) = DOMAIN table \ S
    BY WithoutFacts
  <1> HIDE DEF k, v
  <1>3. /\ DOMAIN table' = (DOMAIN table \ S) \cup {k}
        /\ \A j \in DOMAIN table' : table'[j] = IF j = k THEN v ELSE table[j]
    BY <1>1, <1>2
  <1> QED
    BY <1>3 DEF k, v

\* What Get does to the table.
LEMMA GetFacts ==
    ASSUME NEW c \in Calls, Get(c)
    PROVE  LET S == GetDrops(call[c].user, call[c].resp, call[c].now)
           IN /\ DOMAIN table' = DOMAIN table \ S
              /\ \A j \in DOMAIN table' : table'[j] = table[j]
  <1> DEFINE S == GetDrops(call[c].user, call[c].resp, call[c].now)
  <1>1. table' = Without(S)
    BY DEF Get
  <1> HIDE DEF S
  <1>2. DOMAIN table' = DOMAIN table \ S /\ \A j \in DOMAIN table' : table'[j] = table[j]
    BY SMTT(60), <1>1, WithoutFacts
  <1> QED
    BY <1>2 DEF S

\* Steps of the requests keep the owners right.
LEMMA OwnersStep ==
    ASSUME OwnersInv, NEW c \in Calls, Arrive(c) \/ Get(c) \/ Capture(c) \/ Put(c) \/ Leave(c)
    PROVE  OwnersInv'
  <1>1. CASE Arrive(c)
    BY <1>1 DEF OwnersInv, Arrive
  <1>2. CASE Get(c)
    <2>1. \A k \in DOMAIN table' : table'[k].by = k[1] /\ table'[k].expiry \in Nat
      BY <1>2, GetFacts DEF OwnersInv
    <2>2. \A k \in Found(call[c].user, call[c].resp, call[c].now) : table[k].by = call[c].user
      BY DEF OwnersInv, Found
    <2> QED
      BY <1>2, <2>1, <2>2 DEF OwnersInv, Get, Idle
  <1>3. CASE Capture(c)
    BY <1>3 DEF OwnersInv, Capture
  <1>4. CASE Put(c)
    <2>1. \A k \in DOMAIN table' : table'[k].by = k[1] /\ table'[k].expiry \in Nat
      <3>1. call[c].now + TTL \in Nat
        BY <1>4, AffinityAssumption DEF OwnersInv, Put
      <3>2. ASSUME NEW j \in DOMAIN table'
            PROVE  \/ /\ j = <<call[c].user, call[c].resp>>
                      /\ table'[j].by = call[c].user /\ table'[j].expiry = call[c].now + TTL
                   \/ j \in DOMAIN table /\ table'[j] = table[j]
        <4> DEFINE k == <<call[c].user, call[c].resp>>
                   v == [owner |-> call[c].owner, model |-> call[c].model,
                         expiry |-> call[c].now + TTL, by |-> call[c].user]
        <4>1. PICK S \in Evicted(call[c].now) :
                /\ DOMAIN table' = (DOMAIN table \ S) \cup {k}
                /\ \A i \in DOMAIN table' : table'[i] = IF i = k THEN v ELSE table[i]
          BY <1>4, PutFacts
        <4>2. v.by = call[c].user /\ v.expiry = call[c].now + TTL
          OBVIOUS
        <4> HIDE DEF v
        <4> QED
          BY <3>2, <4>1, <4>2
      <3> QED
        BY <3>1, <3>2 DEF OwnersInv
    <2> QED
      BY <1>4, <2>1 DEF OwnersInv, Put, Idle
  <1>5. CASE Leave(c)
    BY <1>5 DEF OwnersInv, Leave, Idle
  <1> QED
    BY <1>1, <1>2, <1>3, <1>4, <1>5

\* They keep the table within its bound.
LEMMA BoundStep ==
    ASSUME BoundInv, NEW c \in Calls, Arrive(c) \/ Get(c) \/ Capture(c) \/ Put(c) \/ Leave(c)
    PROVE  BoundInv'
  <1>1. CASE table' = table
    BY <1>1 DEF BoundInv
  <1>2. CASE Get(c)
    <2>1. DOMAIN table' \subseteq DOMAIN table
      BY <1>2, GetFacts
    <2>2. IsFiniteSet(DOMAIN table') /\ Cardinality(DOMAIN table') <= Cardinality(DOMAIN table)
      BY <2>1, FS_Subset DEF BoundInv
    <2> QED
      BY <2>2, FS_CardinalityType, AffinityAssumption DEF BoundInv
  <1>3. CASE Put(c)
    <2>1. PICK S \in Evicted(call[c].now) :
            DOMAIN table' = (DOMAIN table \ S) \cup {<<call[c].user, call[c].resp>>}
      BY <1>3, PutFacts
    <2>2. S \subseteq DOMAIN table /\ (Cardinality(DOMAIN table) < MaxEntries \/ S # {})
      BY EvictedFacts
    <2>3. /\ IsFiniteSet((DOMAIN table \ S) \cup {<<call[c].user, call[c].resp>>})
          /\ Cardinality((DOMAIN table \ S) \cup {<<call[c].user, call[c].resp>>}) <= MaxEntries
      BY <2>2, TableSize DEF BoundInv
    <2> QED
      BY <2>1, <2>3 DEF BoundInv
  <1> QED
    BY <1>1, <1>2, <1>3 DEF Arrive, Capture, Leave

\* Both hold in every reachable state.
THEOREM AffinityInductive == AffinitySpec => [](OwnersInv /\ BoundInv)
  <1>1. AffinityInit => OwnersInv /\ BoundInv
    <2> SUFFICES ASSUME AffinityInit PROVE OwnersInv /\ BoundInv
      OBVIOUS
    <2>1. DOMAIN table = {}
      BY DEF AffinityInit
    <2>2. BoundInv
      BY <2>1, FS_EmptySet, AffinityAssumption DEF BoundInv
    <2>3. OwnersInv
      BY <2>1 DEF AffinityInit, OwnersInv, Idle
    <2> QED
      BY <2>2, <2>3
  <1>2. OwnersInv /\ BoundInv /\ [AffinityNext]_affinityVars => OwnersInv' /\ BoundInv'
    <2> SUFFICES ASSUME OwnersInv, BoundInv, [AffinityNext]_affinityVars
                 PROVE  OwnersInv' /\ BoundInv'
      OBVIOUS
    <2>1. CASE ReloadStore \/ AffinityTick \/ UNCHANGED affinityVars
      BY <2>1 DEF OwnersInv, BoundInv, ReloadStore, AffinityTick, affinityVars
    <2> QED
      BY <2>1, OwnersStep, BoundStep DEF AffinityNext
  <1> QED
    BY <1>1, <1>2, PTL DEF AffinitySpec

\* Another key's response is never reached, whoever knows its id, whatever was
\* evicted, expired or stored again meanwhile (resolveTarget).
THEOREM OwnersArePrivate == AffinitySpec => []PinnedToOwner
  <1>1. OwnersInv => PinnedToOwner
    BY DEF OwnersInv, PinnedToOwner
  <1> QED
    BY <1>1, AffinityInductive, PTL

\* Eviction makes room and no more (evictLocked, Get).
THEOREM EvictionExact == AffinitySpec => EvictionIsExact
  <1> DEFINE Exact ==
        /\ Cardinality(DOMAIN table') <= MaxEntries
        /\ \A k \in DOMAIN table :
              k \notin DOMAIN table' /\ ~Expired(table[k], clock)
                  => Cardinality(DOMAIN table) = MaxEntries
  <1>1. ASSUME OwnersInv, BoundInv, BoundInv', [AffinityNext]_affinityVars PROVE Exact
    <2>1. Cardinality(DOMAIN table') <= MaxEntries
      BY <1>1 DEF BoundInv
    <2>2. CASE table' = table
      BY <2>1, <2>2
    <2>3. ASSUME NEW c \in Calls, Get(c) PROVE Exact
      <3>1. ASSUME NEW k \in DOMAIN table, k \notin DOMAIN table' PROVE Expired(table[k], clock)
        <4>1. Expired(table[k], call[c].now)
          BY <2>3, <3>1, GetFacts DEF GetDrops
        <4>2. /\ call[c].now \in Nat /\ call[c].now <= clock
              /\ clock \in Nat /\ table[k].expiry \in Nat
          BY <1>1, <2>3 DEF OwnersInv, Get
        <4> QED
          BY <4>1, <4>2 DEF Expired
      <3> QED
        BY <2>1, <3>1
    <2>4. ASSUME NEW c \in Calls, Put(c) PROVE Exact
      <3>1. PICK S \in Evicted(call[c].now) :
              DOMAIN table' = (DOMAIN table \ S) \cup {<<call[c].user, call[c].resp>>}
        BY <2>4, PutFacts
      <3>2. Cardinality(DOMAIN table) < MaxEntries => S = {}
        BY EvictedFacts
      <3>3. Cardinality(DOMAIN table) \in Nat /\ MaxEntries \in Nat
        BY <1>1, FS_CardinalityType, AffinityAssumption DEF BoundInv
      <3>4. ASSUME NEW k \in DOMAIN table, k \notin DOMAIN table'
            PROVE  Cardinality(DOMAIN table) = MaxEntries
        <4>1. S # {}
          BY <3>1, <3>4
        <4> QED
          BY <1>1, <3>2, <3>3, <4>1 DEF BoundInv
      <3> QED
        BY <2>1, <3>4
    <2> QED
      BY <1>1, <2>2, <2>3, <2>4
         DEF AffinityNext, Arrive, Capture, Leave, ReloadStore, AffinityTick, affinityVars
  <1>2. OwnersInv /\ BoundInv /\ BoundInv' /\ [AffinityNext]_affinityVars => [Exact]_affinityVars
    BY <1>1
  <1> QED
    BY <1>2, AffinityInductive, PTL DEF AffinitySpec, EvictionIsExact
=============================================================================
