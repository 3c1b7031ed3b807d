------------------------------ MODULE Admission ------------------------------
(***************************************************************************)
(* The slot pool of one inference server and the two calls that move its   *)
(* tokens: Client.acquire / Client.Forward and Result.Close of             *)
(* internal/backend/backend.go.                                            *)
(*                                                                         *)
(* The pool is two buffered channels of empty structs.  Their lengths are  *)
(* conc and queue.  Goroutines blocked in acquire's last select are, for   *)
(* the channel conc, a FIFO list of senders: sendq.  A receive from a full *)
(* channel with blocked senders moves the first sender's value into the    *)
(* buffer and wakes it in one step, so the length does not change (Go's    *)
(* channel semantics; nothing else makes the pool work-conserving).        *)
(*                                                                         *)
(* Each select is one step; between two selects every other goroutine may  *)
(* run.  A goroutine woken in the last select still holds its queue token  *)
(* until acquire's deferred receive.                                       *)
(*                                                                         *)
(* A request is one caller of Forward, that is one attempt of dispatch; it *)
(* may call again.  pc says where its goroutine is:                        *)
(*   idle      outside Forward                                             *)
(*   conc      past the drain check, before the fast-path select           *)
(*   queue     saturated, before the queue select                          *)
(*   full      queue select fell through, before the context re-check      *)
(*   park      holds a queue token, before the last select                 *)
(*   waiting   blocked in the last select (an element of sendq)            *)
(*   timer     woken by queue_timeout, before the context re-check         *)
(*   granted   has a conc token, deferred queue receive still to run       *)
(*   leaving   has an error, deferred queue receive still to run           *)
(*   forward   acquire returned a hold: sending, reading the response      *)
(*   result    Forward returned a Result, not closed yet                   *)
(***************************************************************************)
EXTENDS Naturals, FiniteSets, Sequences, SequencesExt

CONSTANTS
    Requests,          \* concurrent callers of Forward on one server
    MaxConcurrency,    \* max_concurrency: capacity of conc
    QueueSize          \* queue_size: capacity of queue

\* NewAdmission clamps the two settings with max(.., 1) and max(.., 0).
ASSUME AdmissionAssumption ==
    /\ IsFiniteSet(Requests)
    /\ MaxConcurrency \in Nat \ {0}
    /\ QueueSize \in Nat

VARIABLES
    pc,        \* control state of each request's goroutine
    conc,      \* len(a.conc)
    queue,     \* len(a.queue)
    sendq,     \* goroutines blocked sending on conc, oldest first
    drain,     \* a.drain is closed
    canceled,  \* requests whose context is done
    hold,      \* requests whose Result carries the admission hold
    out        \* what the last Forward of each request returned

vars == <<pc, conc, queue, sendq, drain, canceled, hold, out>>

PCs == {"idle", "conc", "queue", "full", "park", "waiting", "timer",
        "granted", "leaving", "forward", "result"}

Outcomes == {"none", "ok", "canceled", "draining", "queue_full",
             "queue_timeout", "backend"}

TypeOK ==
    /\ pc \in [Requests -> PCs]
    /\ conc \in Nat
    /\ queue \in Nat
    /\ sendq \in Seq(Requests)
    /\ drain \in BOOLEAN
    /\ canceled \in SUBSET Requests
    /\ hold \in SUBSET Requests
    /\ out \in [Requests -> Outcomes]

Init ==
    /\ pc = [r \in Requests |-> "idle"]
    /\ conc = 0
    /\ queue = 0
    /\ sendq = <<>>
    /\ drain = FALSE
    /\ canceled = {}
    /\ hold = {}
    /\ out = [r \in Requests |-> "none"]

-----------------------------------------------------------------------------
(* acquire: entry and fast path.                                           *)

Goto(r, label) == pc' = [pc EXCEPT ![r] = label]

Fail(r, label, err) ==
    /\ Goto(r, label)
    /\ out' = [out EXCEPT ![r] = err]

\* Mutant: the drain check is missing.
CheckDrainMissing(r) ==
    /\ pc[r] = "idle"
    /\ canceled' = canceled \ {r}
    /\ Fail(r, "conc", "none")
    /\ UNCHANGED <<conc, queue, sendq, drain, hold>>

\* A call of Forward with a live context: acquire's first select.
CheckDrain(r) ==
    /\ pc[r] = "idle"
    /\ canceled' = canceled \ {r}
    /\ \/ /\ drain
          /\ Fail(r, "idle", "draining")
       \/ /\ ~drain
          /\ Fail(r, "conc", "none")
    /\ UNCHANGED <<conc, queue, sendq, drain, hold>>

\* The fast path's select.
TryConc(r) ==
    /\ pc[r] = "conc"
    /\ \/ /\ conc < MaxConcurrency
          /\ conc' = conc + 1
          /\ Goto(r, "forward")
          /\ UNCHANGED out
       \/ /\ r \in canceled
          /\ Fail(r, "idle", "canceled")
          /\ UNCHANGED conc
       \/ /\ conc >= MaxConcurrency
          /\ r \notin canceled
          /\ Goto(r, "queue")
          /\ UNCHANGED <<conc, out>>
    /\ UNCHANGED <<queue, sendq, drain, canceled, hold>>

\* The queue select.
TryQueue(r) ==
    /\ pc[r] = "queue"
    /\ \/ /\ queue < QueueSize
          /\ queue' = queue + 1
          /\ Goto(r, "park")
          /\ UNCHANGED out
       \/ /\ r \in canceled
          /\ Fail(r, "idle", "canceled")
          /\ UNCHANGED queue
       \/ /\ queue >= QueueSize
          /\ r \notin canceled
          /\ Goto(r, "full")
          /\ UNCHANGED <<queue, out>>
    /\ UNCHANGED <<conc, sendq, drain, canceled, hold>>

\* The queue is full: a client that left meanwhile is reported as such.
RecheckFull(r) ==
    /\ pc[r] = "full"
    /\ Fail(r, "idle", IF r \in canceled THEN "canceled" ELSE "queue_full")
    /\ UNCHANGED <<conc, queue, sendq, drain, canceled, hold>>

-----------------------------------------------------------------------------
(* acquire: the last select, its wake-ups and the deferred queue receive.  *)

\* Evaluating the last select: any ready case, or block on all of them.
Park(r) ==
    /\ pc[r] = "park"
    /\ \/ /\ conc < MaxConcurrency
          /\ conc' = conc + 1
          /\ Goto(r, "granted")
          /\ UNCHANGED <<sendq, out>>
       \/ /\ r \in canceled
          /\ Fail(r, "leaving", "canceled")
          /\ UNCHANGED <<conc, sendq>>
       \/ /\ drain
          /\ Fail(r, "leaving", "draining")
          /\ UNCHANGED <<conc, sendq>>
       \/ /\ conc >= MaxConcurrency
          /\ r \notin canceled
          /\ ~drain
          /\ sendq' = Append(sendq, r)
          /\ Goto(r, "waiting")
          /\ UNCHANGED <<conc, out>>
    /\ UNCHANGED <<queue, drain, canceled, hold>>

\* Mutant: the timer is looked at before blocking, not while blocked.
TimerFiresEarly(r) ==
    /\ pc[r] = "park"
    /\ Goto(r, "timer")
    /\ UNCHANGED <<conc, queue, sendq, drain, canceled, hold, out>>

\* Mutant: the callers share one timer.
TimerFiresForAll(r) ==
    /\ pc[r] = "waiting"
    /\ sendq' = <<>>
    /\ pc' = [q \in Requests |-> IF pc[q] = "waiting" THEN "timer" ELSE pc[q]]
    /\ UNCHANGED <<conc, queue, drain, canceled, hold, out>>

\* queue_timeout elapses while r is in, or about to enter, the last select.
TimerFires(r) ==
    /\ \/ /\ pc[r] = "park"
          /\ UNCHANGED sendq
       \/ \E i \in 1..Len(sendq) :
             /\ sendq[i] = r
             /\ sendq' = RemoveAt(sendq, i)
    /\ Goto(r, "timer")
    /\ UNCHANGED <<conc, queue, drain, canceled, hold, out>>

\* The wait timed out: a client that left in the same instant is reported
\* as a disconnect, not as a queue timeout.
RecheckTimer(r) ==
    /\ pc[r] = "timer"
    /\ Fail(r, "leaving", IF r \in canceled THEN "canceled" ELSE "queue_timeout")
    /\ UNCHANGED <<conc, queue, sendq, drain, canceled, hold>>

\* The deferred receive from queue, then acquire returns.
LeaveQueue(r) ==
    /\ queue > 0
    /\ queue' = queue - 1
    /\ \/ /\ pc[r] = "granted"
          /\ Goto(r, "forward")
       \/ /\ pc[r] = "leaving"
          /\ Goto(r, "idle")
    /\ UNCHANGED <<conc, sendq, drain, canceled, hold, out>>

\* The client of r disconnects.  If r is blocked in the last select the
\* closed Done channel wakes it and takes it off the list of senders.
Cancel(r) ==
    /\ pc[r] # "idle"
    /\ r \notin canceled
    /\ canceled' = canceled \cup {r}
    /\ \/ /\ pc[r] # "waiting"
          /\ UNCHANGED <<pc, sendq, out>>
       \/ \E i \in 1..Len(sendq) :
             /\ sendq[i] = r
             /\ sendq' = RemoveAt(sendq, i)
             /\ Fail(r, "leaving", "canceled")
    /\ UNCHANGED <<conc, queue, drain, hold>>

\* Client.Drain: close(a.drain) wakes every goroutine in the last select.
Drain ==
    /\ ~drain
    /\ drain' = TRUE
    /\ sendq' = <<>>
    /\ pc' = [r \in Requests |-> IF pc[r] = "waiting" THEN "leaving" ELSE pc[r]]
    /\ out' = [r \in Requests |-> IF pc[r] = "waiting" THEN "draining" ELSE out[r]]
    /\ UNCHANGED <<conc, queue, canceled, hold>>

-----------------------------------------------------------------------------
(* hold.release, and Forward from the hold to its return.                  *)

\* Mutant: the slot becomes free and nobody is woken.
ReleaseToNobody(r, label) ==
    /\ conc > 0
    /\ conc' = conc - 1
    /\ Goto(r, label)
    /\ UNCHANGED sendq

\* Mutant: a caller that is only about to block gets the slot.
ReleaseToNewcomer(r, label) ==
    /\ conc > 0
    /\ \/ /\ sendq = <<>>
          /\ conc' = conc - 1
          /\ Goto(r, label)
          /\ UNCHANGED sendq
       \/ \E q \in Requests :
             /\ sendq # <<>>
             /\ pc[q] = "park"
             /\ pc' = [pc EXCEPT ![r] = label, ![q] = "granted"]
             /\ UNCHANGED <<conc, sendq>>
       \/ /\ sendq # <<>>
          /\ sendq' = Tail(sendq)
          /\ pc' = [pc EXCEPT ![r] = label, ![Head(sendq)] = "granted"]
          /\ UNCHANGED conc

\* <-a.conc by r, which goes on at label: a receive from the channel, which
\* hands the slot to the oldest blocked sender if there is one.
ReleaseTo(r, label) ==
    /\ conc > 0
    /\ \/ /\ sendq = <<>>
          /\ conc' = conc - 1
          /\ Goto(r, label)
          /\ UNCHANGED sendq
       \/ /\ sendq # <<>>
          /\ sendq' = Tail(sendq)
          /\ pc' = [pc EXCEPT ![r] = label, ![Head(sendq)] = "granted"]
          /\ UNCHANGED conc

\* Mutant: an error path that forgets the release.
ForwardFailsLeaks(r) ==
    /\ pc[r] = "forward"
    /\ Fail(r, "idle", "backend")
    /\ UNCHANGED <<conc, queue, sendq, drain, canceled, hold>>

\* Every path of Forward that ends in an error: the request could not be
\* built or sent, the body read failed or timed out, the response was too
\* large, or the status was 300 or more.  The slot is released on each.
ForwardFails(r) ==
    /\ pc[r] = "forward"
    /\ ReleaseTo(r, "idle")
    /\ \E err \in {"backend"} \cup (IF r \in canceled THEN {"canceled"} ELSE {}) :
          out' = [out EXCEPT ![r] = err]
    /\ UNCHANGED <<queue, drain, canceled, hold>>

\* A complete buffered response: released before Forward returns, and the
\* Result carries no hold.
ForwardBuffers(r) ==
    /\ pc[r] = "forward"
    /\ ReleaseTo(r, "result")
    /\ out' = [out EXCEPT ![r] = "ok"]
    /\ UNCHANGED <<queue, drain, canceled, hold>>

\* A 200 event stream: the Result keeps the slot.
ForwardStreams(r) ==
    /\ pc[r] = "forward"
    /\ Goto(r, "result")
    /\ hold' = hold \cup {r}
    /\ out' = [out EXCEPT ![r] = "ok"]
    /\ UNCHANGED <<conc, queue, sendq, drain, canceled>>

\* Result.Close, called on every Result: buffered ones have no hold.
Close(r) ==
    /\ pc[r] = "result"
    /\ \/ /\ r \in hold
          /\ hold' = hold \ {r}
          /\ ReleaseTo(r, "idle")
       \/ /\ r \notin hold
          /\ Goto(r, "idle")
          /\ UNCHANGED <<conc, sendq, hold>>
    /\ UNCHANGED <<queue, drain, canceled, out>>

-----------------------------------------------------------------------------
\* What the goroutine of r does by itself inside acquire.
AcquireStep(r) ==
    \/ TryConc(r)
    \/ TryQueue(r)
    \/ RecheckFull(r)
    \/ Park(r)
    \/ RecheckTimer(r)
    \/ LeaveQueue(r)

\* The backend answers or fails, and the caller closes the Result.
ServeStep(r) ==
    \/ ForwardFails(r)
    \/ ForwardBuffers(r)
    \/ ForwardStreams(r)
    \/ Close(r)

Next ==
    \/ \E r \in Requests :
          \/ CheckDrain(r)
          \/ AcquireStep(r)
          \/ ServeStep(r)
          \/ TimerFires(r)
          \/ Cancel(r)
    \/ Drain

Spec == Init /\ [][Next]_vars

\* Goroutines run.  Nothing is assumed of timers, backends or clients.
GoroutinesRun == \A r \in Requests : WF_vars(AcquireStep(r))

\* time.NewTimer fires, and acquire waits for it.
TimersFire == \A r \in Requests : WF_vars(TimerFires(r))

\* Every response ends and is closed: request_timeout bounds a buffered one;
\* stream_idle_timeout and max_response_bytes bound a stream.
ResponsesEnd == \A r \in Requests : WF_vars(ServeStep(r))

-----------------------------------------------------------------------------
(* Properties.                                                             *)

\* Requests that have a slot, and requests that have a queue token.
Holders == {r \in Requests : \/ pc[r] \in {"granted", "forward"}
                             \/ pc[r] = "result" /\ r \in hold}

Queued == {r \in Requests :
              pc[r] \in {"park", "waiting", "timer", "granted", "leaving"}}

Waiting == {r \in Requests : pc[r] = "waiting"}

\* Tokens are conserved: the length of each channel is the number of
\* requests that owe it a receive, and neither exceeds its capacity.  A
\* release too many or too few on any path of acquire, Forward or Close
\* (backend.go:545-752) breaks this, and the pool grows or leaks for good.
TokensConserved ==
    /\ conc = Cardinality(Holders)
    /\ queue = Cardinality(Queued)
    /\ conc <= MaxConcurrency
    /\ queue <= QueueSize

\* The list of blocked senders is exactly the goroutines in the last select,
\* each once, and somebody is blocked only while every slot is taken: no
\* wake-up is lost between a release and a wait (backend.go:597-599).
NoLostWakeup ==
    /\ ToSet(sendq) = Waiting
    /\ \A i, j \in DOMAIN sendq : sendq[i] = sendq[j] => i = j
    /\ sendq # <<>> => conc = MaxConcurrency

\* Only a Result that has not been closed carries a hold.
HoldsAreResults == \A r \in hold : pc[r] = "result"

\* The inductive invariant: conservation alone is not preserved by a release
\* unless the list of senders is sound, nor by a buffered response unless
\* holds are.
IInv ==
    /\ TypeOK
    /\ TokensConserved
    /\ NoLostWakeup
    /\ HoldsAreResults

\* After Drain nobody is, or becomes, blocked (backend.go:193-199): a handler
\* parked in acquire would outlive the shutdown grace period.
DrainFreesWaiters == drain => Waiting = {}

\* A request that finds a free slot on the fast path never overtakes one
\* that is blocked for it (backend.go:565-566 against 597).
NoBarging ==
    [][\A r \in Requests :
          pc[r] \in {"conc", "park"} /\ r \in Holders' => sendq = <<>>]_vars

\* Failures are bounded and never wait indefinitely (backend.go:554-555):
\* every call of acquire returns if the timer fires, although no backend ever
\* answers; and if responses end, although no timer ever fires, because slots
\* are handed over in arrival order.
AcquireReturns ==
    TimersFire \/ ResponsesEnd =>
        \A r \in Requests :
            pc[r] \notin {"idle", "forward", "result"}
                ~> pc[r] \in {"idle", "forward", "result"}

\* After Drain every token comes back: nothing is in flight or queued any
\* more, and nothing is admitted later.
DrainQuiesces == ResponsesEnd => (drain ~> [](conc = 0 /\ queue = 0))

\* The pool as its users see it.
Pool == INSTANCE SlotPool WITH
            busy <- Holders, waiting <- Waiting, draining <- drain

\* The channels implement the abstract pool.
ImplementsPool == Pool!PoolSpec
=============================================================================
