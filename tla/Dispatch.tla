------------------------------ MODULE Dispatch ------------------------------
(***************************************************************************)
(* One request's way through the proxy: dispatch of                        *)
(* internal/proxy/proxy.go with its bounded retry and fallback loop, the   *)
(* error classes of internal/proxy/errors.go, and the passive health state *)
(* of internal/routing/router.go that all requests share.                  *)
(*                                                                         *)
(* The strategies only differ in which candidate they pick, so Select is a *)
(* choice among the candidates.  A cooldown's length is abstracted: a      *)
(* cooling backend becomes selectable again at some time.  What happens    *)
(* inside Forward is the business of Admission; here it is one step with   *)
(* one of its outcomes.                                                    *)
(***************************************************************************)
EXTENDS Naturals, FiniteSets

CONSTANTS
    Handlers,     \* concurrent calls of dispatch, one request each
    Backends,     \* the replicas behind the public model
    MaxAttempts,  \* retry.max_attempts, clamped to at least 1
    None          \* no backend

ASSUME DispatchAssumption ==
    /\ IsFiniteSet(Handlers) /\ IsFiniteSet(Backends)
    /\ Backends # {}
    /\ MaxAttempts \in Nat \ {0}
    /\ None \notin Backends

VARIABLES
    at,          \* idle, loop, backoff, forward, relay or done
    pinned,      \* fixedBackend: the owner of a response, or None
    attempt,     \* the loop variable
    tried,       \* backends whose attempt failed and may be retried
    target,      \* backendName of the attempt
    lastErr,     \* class of the last failed attempt, or "none"
    lastFailed,  \* its backend
    retryAfter,  \* whose Retry-After lastRetryAfter holds, or None
    status,      \* what the client got: 0, an HTTP status, or 499
    after,       \* whose Retry-After was forwarded to the client, or None
    departed,    \* requests whose client has gone
    cooling,     \* backends in cooldown
    draining,    \* p.draining
    drained,     \* backends whose client has been drained
    sends        \* calls of Forward made for each request (history)

dispatchVars == <<at, pinned, attempt, tried, target, lastErr, lastFailed, retryAfter,
                  status, after, departed, cooling, draining, drained, sends>>

local == <<pinned, attempt, tried, target, lastErr, lastFailed, retryAfter>>
shared == <<departed, cooling, draining, drained>>

\* The classes of failed attempts that dispatch tells apart.
Errors == {"connect", "rate_limited", "unavailable", "queue", "draining", "terminal"}

\* What refuses a request before the loop: readBody, resolveTarget (shape of
\* the request, access, type of the model, owner of a response) and prepare
\* (output cap and quota).
BodyErrors == {400, 413, 415, 503}
TargetErrors == {400, 404}
PrepareErrors == {400, 429}

\* What a client or the request log may see; 200 stands for a relayed answer.
Statuses == {0, 200, 499, 500, 502, 503, 504}
                \cup BodyErrors \cup TargetErrors \cup PrepareErrors

DispatchTypeOK ==
    /\ at \in [Handlers -> {"idle", "loop", "backoff", "forward", "relay", "done"}]
    /\ pinned \in [Handlers -> Backends \cup {None}]
    /\ attempt \in [Handlers -> 0..MaxAttempts]
    /\ tried \in [Handlers -> SUBSET Backends]
    /\ target \in [Handlers -> Backends \cup {None}]
    /\ lastErr \in [Handlers -> Errors \cup {"none"}]
    /\ lastFailed \in [Handlers -> Backends \cup {None}]
    /\ retryAfter \in [Handlers -> Backends \cup {None}]
    /\ status \in [Handlers -> Statuses]
    /\ after \in [Handlers -> Backends \cup {None}]
    /\ departed \in SUBSET Handlers
    /\ cooling \in SUBSET Backends
    /\ draining \in BOOLEAN
    /\ drained \in SUBSET Backends
    /\ sends \in [Handlers -> Nat]

DispatchInit ==
    /\ at = [r \in Handlers |-> "idle"]
    /\ pinned = [r \in Handlers |-> None]
    /\ attempt = [r \in Handlers |-> 0]
    /\ tried = [r \in Handlers |-> {}]
    /\ target = [r \in Handlers |-> None]
    /\ lastErr = [r \in Handlers |-> "none"]
    /\ lastFailed = [r \in Handlers |-> None]
    /\ retryAfter = [r \in Handlers |-> None]
    /\ status = [r \in Handlers |-> 0]
    /\ after = [r \in Handlers |-> None]
    /\ departed = {}
    /\ cooling = {}
    /\ draining = FALSE
    /\ drained = {}
    /\ sends = [r \in Handlers |-> 0]

-----------------------------------------------------------------------------
(* Error classes.                                                          *)

\* classifyBackendError.  connect stands for ErrConnect and ErrDialTimeout;
\* unavailable for 502, 503 and 504; queue for ErrQueueFull and
\* ErrQueueTimeout; terminal for everything that is neither retried nor
\* tells the client to come back.
Retryable(err) == err \in {"connect", "rate_limited", "unavailable", "queue"}
PoisonsHealth(err) == err = "connect"

\* The status of the sanitised response; a terminal error is a rejection, a
\* failure, a policy violation or a timeout of the upstream.
Response(err) ==
    CASE err = "rate_limited" -> {429}
      [] err = "connect" -> {502, 504}
      [] err = "unavailable" -> {502}
      [] err \in {"queue", "draining"} -> {503}
      [] err = "terminal" -> {400, 500, 502, 504}

-----------------------------------------------------------------------------
(* dispatch.                                                               *)

Move(r, label) == at' = [at EXCEPT ![r] = label]

\* dispatch returns with this outcome; the deferred accounting runs.
Return(r, code) ==
    /\ Move(r, "done")
    /\ status' = [status EXCEPT ![r] = code]

\* Up to the loop: the drain check, then body, target, caps and quota, each
\* of which may refuse the request.
Begin(r) ==
    /\ at[r] = "idle"
    /\ \/ /\ draining
          /\ Return(r, 503)
          /\ UNCHANGED pinned
       \/ /\ ~draining
          /\ \E code \in BodyErrors \cup TargetErrors \cup PrepareErrors : Return(r, code)
          /\ UNCHANGED pinned
       \/ /\ ~draining
          /\ \E b \in Backends \cup {None} : pinned' = [pinned EXCEPT ![r] = b]
          /\ Move(r, "loop")
          /\ UNCHANGED status
    /\ UNCHANGED <<attempt, tried, target, lastErr, lastFailed, retryAfter, after, shared, sends>>

\* The client is found gone at the head of the loop.
LoopCanceled(r) ==
    /\ at[r] = "loop"
    /\ attempt[r] < MaxAttempts
    /\ r \in departed
    /\ Return(r, 499)
    /\ UNCHANGED <<local, after, shared, sends>>

\* Select's candidates: not tried by this request and not in cooldown.  Here all
\* are asked at once; the code asks one after the other, and may combine what
\* held at two moments.
Candidates(r) == Backends \ (tried[r] \cup cooling)

\* Mutant: exclusions are forgotten.
TargetsForgetTried(r) ==
    IF pinned[r] # None THEN {pinned[r]}
    ELSE IF Backends \ cooling # {} THEN Backends \ cooling
    ELSE {lastFailed[r]} \ {None}

\* The backend of the next attempt: the pinned one, else a candidate, else
\* the last failure in place.  Empty only if nothing was tried yet.
Targets(r) ==
    IF pinned[r] # None THEN {pinned[r]}
    ELSE IF Candidates(r) # {} THEN Candidates(r)
    ELSE {lastFailed[r]} \ {None}

\* Selection, and whether the attempt has to wait first.
SelectTarget(r) ==
    /\ at[r] = "loop"
    /\ attempt[r] < MaxAttempts
    /\ r \notin departed
    /\ \E b \in Targets(r) :
          /\ target' = [target EXCEPT ![r] = b]
          /\ Move(r, IF attempt[r] > 0 /\ b = lastFailed[r] THEN "backoff" ELSE "forward")
    /\ UNCHANGED <<pinned, attempt, tried, lastErr, lastFailed, retryAfter, status, after,
                   shared, sends>>

\* Nothing to select on the first attempt.
NoBackend(r) ==
    /\ at[r] = "loop"
    /\ attempt[r] < MaxAttempts
    /\ r \notin departed
    /\ Targets(r) = {}
    /\ Return(r, 503)
    /\ UNCHANGED <<local, after, shared, sends>>

\* sleepBackoff: the timer or the client's context, whichever is first.
Backoff(r) ==
    /\ at[r] = "backoff"
    /\ \/ /\ r \in departed
          /\ Return(r, 499)
       \/ /\ Move(r, "forward")
          /\ UNCHANGED status
    /\ UNCHANGED <<local, after, shared, sends>>

\* Passive health: a connection failure starts a cooldown, an answer ends it.
RecordFailure(b) == cooling' = cooling \cup {b}
RecordSuccess(b) == cooling' = cooling \ {b}

Sent(r) == sends' = [sends EXCEPT ![r] = @ + 1]

\* Forward returns a Result: the backend is up, relay its body.
ForwardSucceeds(r) ==
    /\ at[r] = "forward"
    /\ Sent(r)
    /\ RecordSuccess(target[r])
    /\ Move(r, "relay")
    /\ UNCHANGED <<local, status, after, departed, draining, drained>>

\* Forward reports that the client's context ended.
ForwardCanceled(r) ==
    /\ at[r] = "forward"
    /\ r \in departed
    /\ Sent(r)
    /\ Return(r, 499)
    /\ UNCHANGED <<local, after, shared>>

\* Mutant: an earlier attempt's Retry-After is kept.
RetryAfterKept(r, err) ==
    IF err = "rate_limited" THEN {retryAfter[r], target[r]} ELSE {retryAfter[r]}

\* lastRetryAfter: set by a 429 that carries the header, forgotten otherwise.
RetryAfter(r, err) ==
    IF err = "rate_limited" THEN {None, target[r]} ELSE {None}

Remember(r, err) ==
    /\ lastErr' = [lastErr EXCEPT ![r] = err]
    /\ lastFailed' = [lastFailed EXCEPT ![r] = target[r]]
    /\ \E b \in RetryAfter(r, err) : retryAfter' = [retryAfter EXCEPT ![r] = b]

\* Mutant: an attempt that was never admitted is not counted.
ForwardRetryableUncounted(r) ==
    \E err \in Errors :
        /\ at[r] = "forward"
        /\ Retryable(err)
        /\ Remember(r, err)
        /\ IF PoisonsHealth(err) THEN RecordFailure(target[r]) ELSE UNCHANGED cooling
        /\ tried' = [tried EXCEPT ![r] = @ \cup {target[r]}]
        /\ IF err = "queue" /\ attempt[r] > 0 THEN UNCHANGED <<attempt, sends>>
           ELSE attempt' = [attempt EXCEPT ![r] = @ + 1] /\ Sent(r)
        /\ Move(r, "loop")
        /\ UNCHANGED <<pinned, target, status, after, departed, draining, drained>>

\* A failure that may be retried: on to the next attempt, if there is one.
ForwardRetryable(r) ==
    \E err \in Errors :
        /\ at[r] = "forward"
        /\ Retryable(err)
        /\ Sent(r)
        /\ Remember(r, err)
        /\ IF PoisonsHealth(err) THEN RecordFailure(target[r]) ELSE UNCHANGED cooling
        /\ tried' = [tried EXCEPT ![r] = @ \cup {target[r]}]
        /\ attempt' = [attempt EXCEPT ![r] = @ + 1]
        /\ Move(r, "loop")
        /\ UNCHANGED <<pinned, target, status, after, departed, draining, drained>>

\* The epilogue: one sanitised error, with the Retry-After that belongs to it.
FailWith(r, err, whose) ==
    /\ \E code \in Response(err) : Return(r, code)
    /\ after' = [after EXCEPT ![r] = IF err = "rate_limited" THEN whose ELSE None]

\* A failure that ends the loop.
ForwardTerminal(r) ==
    \E err \in Errors :
        /\ at[r] = "forward"
        /\ ~Retryable(err)
        /\ err = "draining" => target[r] \in drained
        /\ Sent(r)
        /\ Remember(r, err)
        /\ FailWith(r, err, retryAfter'[r])
        /\ UNCHANGED <<pinned, attempt, tried, target, shared>>

\* The budget is exhausted.
LoopExhausted(r) ==
    /\ at[r] = "loop"
    /\ attempt[r] >= MaxAttempts
    /\ FailWith(r, lastErr[r], retryAfter[r])
    /\ UNCHANGED <<local, shared, sends>>

\* pump or writeBuffered, whatever becomes of the client meanwhile: the
\* status line has been written.
Relay(r) ==
    /\ at[r] = "relay"
    /\ Return(r, 200)
    /\ UNCHANGED <<local, after, shared, sends>>

-----------------------------------------------------------------------------
(* The environment.                                                        *)

ClientGoes(r) ==
    /\ at[r] \notin {"idle", "done"}
    /\ r \notin departed
    /\ departed' = departed \cup {r}
    /\ UNCHANGED <<at, local, status, after, cooling, draining, drained, sends>>

\* Requests for other models that share the backend report their failures and
\* successes too; a success does what the end of the cooldown does.
OthersFail(b) ==
    /\ b \notin cooling
    /\ RecordFailure(b)
    /\ UNCHANGED <<at, local, status, after, departed, draining, drained, sends>>

CooldownEnds(b) ==
    /\ b \in cooling
    /\ cooling' = cooling \ {b}
    /\ UNCHANGED <<at, local, status, after, departed, draining, drained, sends>>

\* BeginDraining: the flag, then every client in turn.
BeginDraining ==
    /\ ~draining
    /\ draining' = TRUE
    /\ UNCHANGED <<at, local, status, after, departed, cooling, drained, sends>>

DrainClient(b) ==
    /\ draining
    /\ b \notin drained
    /\ drained' = drained \cup {b}
    /\ UNCHANGED <<at, local, status, after, departed, cooling, draining, sends>>

-----------------------------------------------------------------------------
Step(r) ==
    \/ LoopCanceled(r)
    \/ SelectTarget(r)
    \/ NoBackend(r)
    \/ LoopExhausted(r)
    \/ Backoff(r)
    \/ ForwardSucceeds(r)
    \/ ForwardCanceled(r)
    \/ ForwardRetryable(r)
    \/ ForwardTerminal(r)
    \/ Relay(r)

DispatchNext ==
    \/ \E r \in Handlers : Begin(r) \/ Step(r) \/ ClientGoes(r)
    \/ \E b \in Backends : OthersFail(b) \/ CooldownEnds(b) \/ DrainClient(b)
    \/ BeginDraining

DispatchSpec == DispatchInit /\ [][DispatchNext]_dispatchVars

\* Handlers run and Forward returns: acquire does by its queue timeout
\* (Admission's AcquireReturns), the exchange by the backend timeouts.
HandlersRun == \A r \in Handlers : WF_dispatchVars(Step(r))

-----------------------------------------------------------------------------
(* Properties.                                                             *)

\* A forwarded Retry-After is that of the error the client sees: the final
\* attempt was a 429 of that backend (T-Q12, proxy.go:434-447, 508-515).
RetryAfterOfFinalError ==
    \A r \in Handlers :
        after[r] # None => /\ status[r] = 429
                           /\ lastErr[r] = "rate_limited"
                           /\ lastFailed[r] = after[r]

\* A backend that already failed this request is repeated only when nothing
\* else is eligible or the request is pinned, and only after the backoff
\* (proxy.go:310-312 and 343-345, router.go:150-152), although the health of
\* the others changes between two attempts.
RepeatsAreTheLastResort ==
    [][\A r \in Handlers :
          at[r] = "loop" /\ at'[r] \in {"backoff", "forward"} /\ target'[r] \in tried[r]
              => /\ at'[r] = "backoff"
                 /\ pinned[r] # None \/ Backends \subseteq tried[r] \cup cooling]_dispatchVars

\* Every dispatched request ends, whatever happens to the health of the
\* backends and however long cooldowns last: within max_attempts attempts in
\* total, with no multiplication of retries by fallbacks (proxy.go:308-310),
\* and with an answer, which is 499 only for a client that has gone
\* (proxy.go:328-336, 505-518).
DispatchEnds ==
    \A r \in Handlers :
        at[r] = "loop" ~> /\ at[r] = "done" /\ sends[r] <= MaxAttempts
                          /\ status[r] # 0
                          /\ status[r] = 499 => r \in departed
=============================================================================
