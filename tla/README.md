# A verification project for mellomting

mellomting is a single-process proxy in front of several LLM inference
servers. It authenticates clients by key, limits their rate, concurrency and
token use, chooses a backend for the requested model, retries and falls back,
relays the answer (also as a live event stream) and keeps a usage log. This
directory holds TLA+ models of the parts of it that run concurrently or have to
survive failures, the TLC runs that check them, and TLAPS proofs about them.

Contents: [inventory](#inventory), [modules](#modules), [runs](#runs),
[proofs](#proofs), [findings](#findings), [not modelled](#not-modelled),
[plan](#plan).

## Inventory

Every request is one goroutine (net/http). What goroutines share is listed
here; paths are below `src/internal/` unless they start with `cmd/`.

| Component | State | Operations | What is hard | What makes it correct |
|---|---|---|---|---|
| Backend admission, `backend/backend.go` | two buffered channels per server (`conc`, `queue`), the `drain` channel, the hold inside a `Result` | `acquire`, `Forward`, `hold.release`, `Result.Close`, `Drain` | a chain of four selects with other goroutines in between; seven exits of `Forward` that release by hand; a timer racing a disconnect; shutdown | slots never leak or multiply, no waiter next to a free slot, arrival order, waits end, drain empties the queue |
| Token quota, `accounting/quota.go` | per key: current hour and day, tokens settled in each | `Admit`, `Settle`, `stateFor`, `Replay` | the clock is sampled before the lock; the clock may be set back; the reservation is not held; int64 limits | a window never forgets tokens, windows only advance, overshoot is bounded |
| Usage log, `accounting/writer.go` | bounded channel, `closed`, `stop`, `done`, `dropped`, the file | `Enqueue`, `run`, `writeRecord`, `Close` | producers racing `Close`; failing writes and syncs; overflow | nothing lost unnoticed, nothing twice, requests never wait for the disk, a clean close is durable |
| Ingress, `httpapi/server.go`, `limiter/limiter.go` | `inflight` channel, published snapshot (key store and registry), per-key state, buckets | `routeBody`, `ReloadStore`, `Registry.For`, `NewRegistryCarrying`, `Concurrency.Acquire` | requests keep the snapshot they loaded across reloads; state is created lazily | slots return where they were taken, record and registry agree, a reload does not change what is bounded |
| Dispatch, `proxy/proxy.go`, `proxy/errors.go` | per request: attempt, tried backends, last error; shared: draining flag | `dispatch`, `classifyBackendError`, `sleepBackoff`, `BeginDraining` | retry and fallback interleaved with other requests' health updates; cancellation at any point | bounded attempts, no repeats while another backend is eligible, one answer, the right Retry-After |
| Routing, `routing/router.go` | counters and weights per model, health per backend | `Select`, `RecordFailure`, `RecordSuccess` | shared counters with differing candidate sets; cooldown growth | only eligible backends, fair rotation |
| Stream relay, `proxy/proxy.go` (`readBody`, `prepareOutbound`, `pump`, `account`), `proxy/sse.go`, `proxy/budget.go`, `inflight/inflight.go` | per stream: reader goroutine, three channels, timers; shared: the byte budget, the live registry | body, cap, relay loop, settlement | abandonment while the reader is between read and send; a compare-and-swap against other requests, partial release; broken streams | order kept, reader ends, bytes bounded, everything served is charged |
| Affinity, `proxy/affinity.go` | bounded table (key, response) -> backend, model, expiry | `Put`, `Get`, eviction; `resolveTarget` | expiry, probing eviction at the bound, clock read before the lock | bound, isolation of keys, no needless loss |
| Key store and users file, `auth/store.go`, `securefile/` | file, lock file, temporary files | `Update`, replacement; the key commands | crash between steps, concurrent editors | no change lost, old or new content and never a mixture |
| Daemon, `cmd/mellomting/serve.go` | signal channel, metadata of the last poll, published store | poll and reload, drain, shutdown order | replacement during a read; grace period, second signal, stragglers; a full signal channel | changes apply, stops end, records kept |
| Listener, `cmd/mellomting/serve.go` | the socket's name, the connection counter | `safeUnixListen`, the sandbox decision, `ConnState` | processes that start while others stop or died | a serving process is reachable, the cap does not drift |
| Installer, `systemd/systemd.go` | account, directory, configuration, pepper, users file | `Provision.Run`, `ensureFile`, `ensureAuthArtifacts` | run again after any failure, or over what init, key commands and editors left | the service can read what its configuration names, keys stay valid |
| Setup, `cmd/mellomting/init.go` | three generated files and their temporary names | commit, rollback | failure, kill or crash half way, other invocations, key commands | all or nothing, a configuration is usable, others' files stay |

How they interact: `routeBody` (Ingress) admits the request, then calls the
proxy; `dispatch` admits it to the quota, loops over `Select` and `Forward`
(Admission), relays (Relay), and in its deferred call settles the quota (Quota)
and enqueues a record (Writer). A continuation or retrieval takes its backend
from the table of owners (Affinity) instead of `Select` (Router). The signal
loop (Daemon) calls `ReloadStore` (Ingress), `BeginDraining` (Dispatch,
Admission) and `Close` (Writer). Key commands (KeyFile) change the file the loop
polls. On a restart `Replay` rebuilds the quota from the log (UsageLog).

## Modules

**SlotPool** is what an admission pool promises: a set of requests being
served, a set of blocked ones, and five atomic operations on them.

**Admission** is how `backend.go` does it. `conc` and `queue` are the lengths of
the channels; `sendq` is the Go runtime's list of goroutines blocked in a send
on `conc`. Each select of `acquire` is one action (`CheckDrain`, `TryConc`,
`TryQueue`, `RecheckFull`, `Park`, `RecheckTimer`), the deferred receive is
`LeaveQueue`; a select with several ready cases takes any of them. `ReleaseTo`
is a receive from `conc`; Go hands the value of the first blocked sender to the
buffer in the same step, which is why the length then stays the same. The
error exits of `Forward` (lines 660-743) are one action, `ForwardFails`: they
differ in the error value and all release. `ForwardBuffers` and
`ForwardStreams` are the two successful exits; only the second keeps its hold
for `Close`. One request makes any number of calls, one after the other.

**Quota** is one key's windows. Time is counted in hours. `SampleAdmit` and
`SampleSettle` evaluate `time.Now()`, `Admit` and `Settle` run under the lock
with that value. `ClockMoves` sets the clock to any hour, back as well as
forward. `hourSpent` and `daySpent` are history: what was settled in each
period according to the sample. `phase` says what each of the key's slots is
doing. A charge may exceed the reservation, because reported usage includes
input tokens, so what a request settles is bounded by `MaxCharge` and not by the
reservation: `OvershootBounded` is the bound that follows, and finding 4 the one
the code's comment states. Routes that name a response are neither admitted
nor settled (`consumesUsage`), and failed requests settle nothing (the zero
case of `Settle`).

**Writer** is the usage log writer. `Enqueue` is two steps, `CheckClosed` and `Send`.
The consumer receives (`Receive`), writes (`Write`), may sync after a write or
on a tick, notices `stop`, and finishes when the drain loop finds nothing.
`Close` is five steps. The file is a sequence of writes, each whole or a
fragment. The fsync policies (`every`, `interval`, none) and ignored errors of
periodic syncs only decide whether a sync happens, so `MaybeSync` is a choice.

**UsageLog** extends Writer by what comes before and after it. `Account` settles
a request and then reads the clock again for its record, `Submit` is `Enqueue`.
`Shutdown` and `Crash` end the process; after a crash the log is what was
synced, any number of later writes, and perhaps a part of the next one.
`Restart` is `Replay`: `Bytes` spells the log out, `Window`, `LineStarts`, `Line`
and `Counted` are the tail window, `scanBounded` and `replayLine`. `ParseUsage`,
`FromUsageJSON`, `ClampUsage` and `Charge` are `record.go` and the arithmetic of
`account`, over four typical answers. A line past the cap of `scanBounded` is
left out: records are far shorter.

**Ingress** is the admission chain for the requests of one key and the reload.
A generation has the limits its store enforces for the key (`NewStore` fills in
the default bound, so a key is never unbounded; `Lookup` finds no removed key),
the state its registry has made for the key (a concurrency bound and a token
bucket) and what it carries from its predecessor. `For` makes the state on first
use (`Build`), with `Match` deciding whether the carried bucket fits.
`AllowRate` reads the clock before the bucket is locked, so its time may be a
second old. `BuildGeneration` is `NewRegistryCarrying` (under the old registry's
lock), `PublishGeneration` the store of the pointer. The global and per-source
buckets and the credentials are choices: they decide whether a request is
refused and nothing else modelled here.

**Dispatch** is one call of `dispatch` per handler (`at` is its place).
`Candidates` is what `Select` filters; which candidate a strategy picks is a
choice. The health of all replicas is read at once, where the code asks for one
after the other and may see a mixture of two moments; what the properties say of
a choice is relative to the candidates it was made from, so a mixture would add
nothing to them, and Router splits the filter from the pick. `Forward` is
one step with one of its outcomes; `classifyBackendError` is `Retryable`,
`PoisonsHealth` and `Response` over six classes. `cooling` is the set of
backends in cooldown; `CooldownEnds` is the passing of its time. `sends` is
history. Two early returns are left out because a validated configuration
excludes them: a backend without an upstream model (line 366-382) and one
without a client (395-400). The `break` at line 356 is unreachable: the loop
only continues with a retryable last error.

**Relay** is one request from its body to its settlement. `ReadBodyStarts`,
`Load`, `CompareAndSwap` and `ReadBody` are `readBody` over the budget, with
`OthersAcquire` and `OthersRelease` between the load and the swap. `Prepare` is
`prepareOutbound` with the two spellings of the output limit. `Forward` has
three outcomes. The relay of `pump` is `PumpTop`, `IdleTimeout`, `TakeError`,
`TakeEvent` and `WriteEvent`; its reader goroutine is `ReaderWakes`, `LineArrives`,
`EventEnds`, `StreamEnds`, `ReadFails`, `ReadCanceled` and `ReaderLeaves`. An event is
its kind and size: the kinds are what the relay looks at. `Finish` is the
deferred calls in their order. `live` is the request's entry in the registry
the admin socket shows; it stays at "waiting" while a retry backs off, because
the phase is set again only when the next attempt starts. `sent` is history.
That one reservation may exceed the whole budget depends on the configuration;
the instance has a budget of three bytes for bodies of two, so the refusal by
`Reserve` does not fire there and the one by the loaded value does.

**Router** is `Select` and the health table for one public model. `Filter` reads
health, `PickRing`, `PickWeighted` and `PickLoaded` pick: other requests may act
in between. `OthersReport` is what requests for other models report. Cooldowns
are counted in units of `healthBaseCooldown`; `Shifted` loses what does not fit
the word. `Total` adds up weights as the loop of `nextWRR` does. Loads are choices.
`skipped` is history.

**Affinity** is the table of response owners and the requests that use it. A
request carries the key record it was authenticated by (`may`). `Put` and `Get`
use a clock reading made before the lock. Go visits a map in no particular
order, so `Evicted` is the set of all outcomes of the bounded probe.

**KeyFile** is `auth.Update` over `securefile.Replace`. An editor is one process
that runs one key command; `Abandon` is a failed call or a kill. `KeyCrash`
leaves any of the files the path has named since the last sync of the directory
(`disk`); a file renamed before it was synced is torn. `expected` is history.

**Daemon** extends KeyFile with the serving process: `LoadStat`, `PollStat`,
`PollRead` and `PollDone` are the poll, with the users file changing in between;
`Hangup`, `Terminate`, `ShutdownCloses`, `Drained`, `SecondSignal`, `CloseWriter` and
`Return` are the loop and shutdown. `Signal` is the runtime's send, which does
not block. A handler stands for a request and ends with one record.

**Setup** is the transaction of `commitInitArtifacts`: `Program` is the sequence
of calls it makes, one action per kind of call over the primitives of
`init_commit_linux.go` (`CreateInDir` to `FsyncDir`). The rollback takes two steps
for each final name, as the code makes two calls: `Looks` is the lstat and the
comparison of identities, `Removes` the unlink of whatever has the name by then;
`RemovesTemp` clears the temporary names, which nobody else uses. Directory
entries name the invocation whose inode they are. The key command is `KeyLoads`
(the configuration, and with it the path of the users file), `KeyRenames`,
`KeySyncs` and `KeyStops`: once it has loaded a configuration it renames its users
file whether or not the configuration is still there. A crash leaves, for each
entry, any of its values since the last directory sync (`disk`). The fstat that
follows a successful `createInDir` is taken to succeed: if it fails, the rollback
does not know the temporary file and leaves it.

**Install** is `Provision.Run`, one action per effect on the host, with the gap
between a file's rename and its change of owner. An artifact is its contents and
whether the service may read it. `RunFails` is a failing call or a kill. Other
commands run between runs of the installer and not during one: an `init` that
rolls back while the installer runs would remove files the installer has
adopted, and a file published between the installer's `Lstat` and its rename
would be replaced; nothing in the code excludes this, an operator runs one setup
command at a time. A crash of the machine is left out, since the change of owner
is not synced.

**Listener** is a socket path and the processes on it. `Inspect`, `Dial`, `Remove`,
`Bind`, `Listen` and `Chmod` are `safeUnixListen`; `Confine` the admin socket and the
sandbox; `CloseUnlinks` and `Closes` what Go does when a Unix listener is closed;
`Returns` comes a grace period later. `Accept`, `Hijacked` and `ConnEnds` are the `ConnState`
hook in `StateNew`, `StateHijacked` and `StateClosed`. The comment at
`serve.go:544-547` speaks of hijacked event streams, but no handler hijacks a
connection: streams are written through the response writer and count against
the cap until they are closed. `Hijacked` models the hook's arm all the same, so
`ConnectionsCapped` says what the hook guarantees with it and without it: the cap
is on the connections the server has in hand, and one that a handler took over
is no longer among them. The service manager starts one process at a time: two that start in the
same moment could both find a stale socket and remove each other's, which
nothing in the code prevents.

The `MC` modules give TLC its symmetry sets and structured constants. MCForward,
MCKeyLimits, MCPlacement and MCStart put components that share no state into one
run: `focus` is which of them a behaviour exercises, and the others stay as they
began. Definitions marked
*Mutant* are plausible bugs of the definition that follows them; they are not
part of any specification and are used to test that each property can fail.

## Runs

| Run | Bounds | States | Shows |
|---|---|---|---|
| `forward` | 3 callers, 1 slot, queue of 2; 1 request among others, 3 backends, 4 attempts | 336 thousand | `TokensConserved`, `NoLostWakeup`, `NoBarging`; Admission implements SlotPool; every `acquire` returns; after a drain all tokens return; `RepeatsAreTheLastResort`, `RetryAfterOfFinalError`, `DispatchEnds` |
| `key_limits` | 3 requests, 2 places, 3 limits, 2 reloads, 2 seconds; 2 slots, reservations of 2 and 3, charges up to 3, days of 2 hours, 3 hours, int64 of 8 | 2.2 million | `SlotsConserved`, `ReloadKeepsBound`, `ReloadGiftsNoBurst`; `NeverUndercounts`, `OvershootBounded` |
| `usage_log` | 2 requests, queue of 1, 2 hours, 4 answers, windows of 1 record, 1 1/3 and all | 943 thousand | `RecordsAccounted`, `CloseKeepsItsWord`, `CloseCompletes`; `ReplayMatchesLog`, `CleanRestartKeepsQuota` |
| `relay` | bodies of 2 bytes, budget of 3, responses of 5 | 380 thousand | `BudgetSound`, `RelayFaithful`, `ReaderNeverRunsAhead`, `ServedIsCharged`, `OutputCapped`, `RelayEnds` |
| `placement` | 3 replicas of weight 1, 2, 1, streaks 0 to 2 and 32; 2 keys, 2 responses, table of 2, probe of 1 | 1.9 million | `NoReplicaStarves`, `FailureExtendsCooldown`; `PinnedToOwner`, `EvictionIsExact` |
| `daemon` | 2 key commands, 2 keys, 1 edit by hand, 1 request, 1 crash | 1.0 million | `EditsCompose`, `FileStaysWhole`, `KeyChangesApply`; `CleanStopLosesNothing`, `ShutdownEnds` |
| `setup_and_start` | 2 invocations, 1 key command at a time, 1 crash; 3 processes, 3 connections for 2 places; 2 peppers | 931 thousand | `ConfigIsUsable`, `AllOrNothing`, `OthersPreserved`; `ServingIsReachable`, `ConnectionsCapped`; `InstallSuffices` |
| `ingress_reload`, `replay_torn`, `term_lost`, `overshoot`, `rollback_race` | minimal | | the [findings](#findings) |

Why the bounds are enough to meet the interesting cases. Admission: with one
slot a release races a fast path, two callers can be blocked at once, and a
newcomer meets a queue that a woken caller has not left; the channel bounds are
also proved for every size. Quota: three hours in two days contain a roll of the
hour alone and of both; the unlimited key reaches saturation at 8, the limited
ones stay below it so that saturation does not hide an overshoot, and limits are
below, at and above the smallest reservation. UsageLog: one
record more than the channel holds while the consumer has one, windows that
begin on a record and inside one, answers with no usage, zeros, a total to be
made up and one beyond the clamp. Ingress: two reloads allow an unused
generation, a limit changed and changed back, a key removed and restored; one
limit leaves its burst to be derived. Dispatch: more attempts than backends, so
the last failure is repeated in place; requests meet only in the health of the
backends, which `OthersFail` and `CooldownEnds` change at any time, so one request
stands for each of any number. Relay: two full events and a short one fit the
response bound, so it is reached both exactly and by an event too many.
Placement: the picks of a rotation are serialised by its lock, so one request
with any candidates stands for several that interleave; a streak of 32 shifts
the base out of the word when the cap is missing; `RotationIsFair` covers all
other weights; four possible entries compete
for a table of two. Daemon: two commands race, a replacement lands between any
two steps of a poll, and the file is made malformed, unenforceable or removed by
hand. Setup: two invocations meet at every name, and a key command replaces the
users file of either between any two calls of a commit or a rollback. Install: a
second pepper is what would replace the first; runs fail at every step.
Listener: a successor of a successor, with the first still draining.

Deadlock is checked for Ingress, Quota and Relay. In the other runs the system
really stops: requests are done, processes have ended, or the clock is at its
bound. In a run with a focus, components at rest have nothing enabled for good
that fairness asks for, so each component's fairness can be asked of every
behaviour.

Fairness, and why the code justifies it:

- Admission's `GoroutinesRun`: goroutines run. What a property needs beyond that is
  its premise. `TimersFire`: `time.NewTimer` fires. `ResponsesEnd`:
  `request_timeout` bounds a buffered response; `stream_idle_timeout`,
  `stream_write_timeout` and `max_response_bytes` bound a stream. `AcquireReturns`
  needs either of the two: it rests on `queue_timeout` alone (validation requires
  it to be positive) if no backend answers, and on the hand-over alone if no
  timer fires. `DrainQuiesces` assumes that responses end.
- UsageLog's `FairLogSpec`: handlers run; the disk may hang for good.
  `ConsumerRuns` (`CloseCompletes`): the consumer and the caller of `Close` run.
- Dispatch's `HandlersRun`: a handler runs and its `Forward` returns, which is what
  `AcquireReturns` and the backend timeouts give.
- Relay's `FairSpec`: both goroutines run, a torn-down read returns and the idle
  timer fires; the backend owes nothing. `RelayEnds` has one premise,
  `SwallowsStop`: a backend that sends usage-only chunks for ever is swallowed
  for ever, since each of them restarts the idle timer and none counts towards
  the byte bound. `request_timeout` does not cover a stream.
- Daemon's `FairSpec`: the loop runs, the ticker ticks, a signal in the channel is
  received when the loop waits, the grace period is a timer. Nothing is assumed
  of handlers, commands or further signals.

## Proofs

Eight modules hold theorems. Every safety invariant and every action property
that a passing run checks is stated by one of them, for every value of the
constants under the assumptions named beside their declarations, so any number
of requests, processes, replicas, reloads, records or crashes. The assumptions
are what the configuration's validation and Go's types give (finitely many
requests, positive bounds, natural numbers), and that the model values which
stand for "nothing" are not members of the sets they are used beside.

**AdmissionProofs, admission** (`AdmissionAssumption`: finitely many callers, at
least one slot). The inductive invariant `IInv` is `TypeOK`, `TokensConserved`,
`NoLostWakeup` and `HoldsAreResults`. Conservation is not inductive alone: a
release by a holder hands its slot to the head of `sendq`, so `sendq` must hold
exactly the blocked goroutines, each once; and a buffered response must not
leave a hold behind that `Close` would release again. Lemmas say what appending
to, taking from and removing from a duplicate-free list do to its set of
elements, and what moving one request in or out of a set does to its
cardinality. From `IInv` follow `TypeCorrect`, `TokensAreConserved`,
`NoWakeupIsLost`, then `DrainEmptiesQueue` (the `drain` case of the last
select), `FastPathDoesNotOvertake`, and `AdmissionImplementsPool`, in which
every action is matched with an operation of SlotPool or a stutter.
`GrantsInOrder` (`LineMovesUp`) is the order of the queue step by step: nobody in
line falls back or is overtaken, a returned slot goes to the first and moves
everybody up. `CallsAdvance` bounds a call (`StepsLeft`): every step of its own
brings it nearer its end and nobody else's step takes it back.

**AdmissionProofs, routing** (`RouterAssumption`: positive weights, a shift cap
that does not overflow). `FailuresExtendCooldowns` rests on `HealthInv`: what is
left of a cooldown is no more than the streak so far has earned; and on
`PowerOfTwo` being positive and monotone. `RotationIsFair` is `NoReplicaStarves`
for any weights. Round robin needs `RingInv`: the times a replica was passed over
plus its distance from the counter stay below the length of the ring.
The weighted rotation needs more. `WeightInv` says that the credits add up to
nothing and that *every set* of k of the n replicas has at most
`Heaviest * k * (n - k)` together; the bound for single replicas is not inductive,
because a replica that is a candidate more often than the others gains on
them. A pick of the highest candidate keeps the bound for sets: the candidates
in a set without the pick are each at most as high as the pick, so their sum is
bounded through the set with the pick added and the set without the candidates
(`PickLevels`, `Levelled`). A replica passed over s times has s times its weight
above the deepest debt, and the theorem follows. The first attempt at this proof
showed an earlier form of the property, twice the total weight over the
replica's own, to be false for weights such as 1, 5, 1 with changing candidates;
the module states the bound that holds. The lemmas on sums over replicas
(`TotalAdd` to `PartEqual`) come first.

**QuotaProofs** (`QuotaAssumption`: finitely many slots, limits and charges
within int64). `IInv` adds two things to the properties. History: no tokens
were settled in a period later than the current one, so a window that rolls may
start from zero. Shares (`Reserved`): the counter plus the smallest reservation
plus `MaxCharge` for every outstanding request stays within limit plus `Overshoot`;
an admission happens with room for its reservation, where all slots fit, and a
settlement spends one share. A limit below every reservation admits nobody. From it
follow `TypeCorrect`, `QuotaNeverUndercounts`, `OvershootIsBounded` and
`WindowsAdvance` (that windows only advance is only proved, no run repeats it).

**WriterProofs** (`WriterAssumption`, `UsageLogAssumption`). `WriterInv` says in
which one place each finished call's record is, and what each stage of the
consumer and of `Close` has left behind it: `NothingIsLost`, `ClosePromises`.
`LogImplementsWriter` shows that UsageLog, with accounting, crashes and a
restart around the writer, takes only steps of Writer, so both theorems hold
there too (`LogLosesNothing`). `ReplayIsExact` is about every log and every tail
window. The concatenation of writes is laid out by a chain of offsets (`Chain`,
`Layout`), each byte of the log is located in one write (`Locate`), and the bytes
from a line's start to its end are those of one whole record exactly when the
record is legible (`LineIsRecord`); the distance of a write from the end of the
log is counted, not recursed (`BehindIsDistance`). `CleanRestartIsExact` adds
`ClockInv`: a record is stamped after its settlement, so not in an earlier hour,
and what was settled and not dropped is in the log. `CloseAdvances` bounds the
work of `Close` (`CloseLeft`): calls that have not ended weigh three, records in the
channel two, the record in hand one, and every step of anybody after `closed` is
set, ticks apart, lowers the sum.

**IngressProofs** (`IngressAssumption`). `IngressInv` relates the generations,
their states and carried states, and the requests: a channel holds one token
for each request it serves (`Slots`); while the limit is unchanged and no request
used a generation already carried, all generations refer to one channel and one
bucket (`OneBound`, `OneBucket`), and what has passed plus what is available in
the bucket is within burst plus rate. `SlotsAreConserved`, `ReloadsShareTheBound`
and `ReloadsGiftNoBurst` follow.

**DispatchProofs** (`DispatchAssumption`, `AffinityAssumption`). `DispatchInv` ties
the hint, the last error and the tried backends of a request together at every
stage: `RetryAfterBelongs`, `OutcomeIsSound` (only proved: an answered request has
a status, 499 only if its client left, and at most `MaxAttempts` sends),
`RepeatsLast`. `OwnersInv` and `BoundInv` (an entry is filed under its creator, a
clock reading is not ahead of the clock, the table is within its bound) give
`OwnersArePrivate` and `EvictionExact`. `EpilogueAnswers` says that a request whose
attempts are used up has an error to answer with, so the end of the loop never
finds nothing; `RequestsAdvance` that a request takes at most three steps for
each attempt it has left.

**RelayProofs** (`RelayAssumption`). `RelayInv` has five parts: what is held of the
budget at each stage, which goroutine is at which end of the three channels, how
what was written relates to what was sent, the counters, and the settlement. The
budget alone is not inductive: that nothing is released twice rests on what the
request holds at each stage of its body. The five theorems are `BudgetIsSound`,
`RelayIsFaithful`, `ReaderWaits`, `NobodyIsServedForFree` and `OutputIsCapped`.
`RelayAdvances` bounds the stream where `max_response_bytes` does: each byte the
client may still get is worth one round of relay and reader (`RelayLeft`), and every
step of theirs lowers the sum except taking a chunk that is swallowed, which is
why `RelayEnds` needs `SwallowsStop`.

**DaemonProofs** (`KeyFileAssumption`, `DaemonAssumption`). `KeyInv`: the holder of
the lock has drafted its table from the file as it is, a file that was renamed
is synced, and the entry on the disk is whole. From it `NoChangeIsLost` and
`NoTornFile`. `LifeInv`, with nothing accepted after the drain, gives
`CleanStop`. `SkippedPollsAreSafe` is what the poll of the users file rests on: a
running process that finds the metadata it remembers serves that file's keys,
unless it refused the file or could not read it. `PollInv` says that an identity
is used once and that what a poll has read is the file its first Lstat saw or
one that has been replaced since, which the second Lstat notices.
`ShutdownAdvances` bounds a shutdown by five steps (`StopLeft`), which no signal,
handler or key command adds to.

**StartProofs** (`ListenerAssumption`, `InstallAssumption`, `SetupAssumption`).
`NameInv` (who owns the name of the socket) and `ConnInv` (the counter counts the
refused connections too) give `ServersAreReachable` and `CapHolds`. `InstallInv`
says which artifacts a run has behind it: `InstallIsEnough`. `SetupInv` describes,
for every invocation, which files it has at its place in the program or in the
rollback, and what may be left of its files on the disk: `ConfigsAreUsable`,
`InitIsAllOrNothing`, `OthersArePreserved`. The unlink of a rollback takes what has
the name, so the invariant says who that can be: between `Looks` and `Removes` the
name still has the inode that was seen, or a key command's users file. That is
no other invocation's: the rollback removes the pepper last, nobody else can
link a pepper before that, and without one nobody gets as far as linking the
users file.

Induction over numbers is by least counterexample (`LeastNumber`, `UpTo`, which take
a set instead of a predicate), and recursive functions are first shown to exist;
both are proved where they are used.

Only model-checked: the liveness properties, since fairness and ENABLED are
outside the proof system's reach, and the five properties the code violates (see
the findings). What is proved of each liveness property is its safety part, a
measure that only falls or an invariant that leaves nothing to wait for; TLC
checks that the step which lowers it is taken:

| Liveness property | Its safety part |
|---|---|
| `AcquireReturns`, `DrainQuiesces` | `CallsAdvance`, `GrantsInOrder` |
| `DispatchEnds` | `RequestsAdvance` |
| `RelayEnds` | `RelayAdvances` |
| `CloseCompletes` | `CloseAdvances` |
| `KeyChangesApply` | `SkippedPollsAreSafe` |
| `ShutdownEnds` | `ShutdownAdvances` |

## Findings

1. `ingress_reload`: a request that loaded the old snapshot and asks its
   registry for the key's state for the first time after the new generation was
   built gets a bound nobody else sees, so an unchanged `concurrent_requests`
   can be exceeded, against `limiter.go:139-141`. `ReloadKeepsBound` and
   `ReloadGiftsNoBurst` show that this is the only way.
2. `replay_torn`: after a write that fails half way (a full disk), the next
   record continues the fragment's line; replay then skips both, against
   `quota.go:252-253`, and a restart hands out the tokens of a record that was
   written whole.
3. `term_lost`: the signal channel has one place. While the loop is inside
   `refreshUsers`, a SIGHUP fills it and a SIGTERM that follows is dropped; the
   process serves on, against `serve.go:198`.
4. `overshoot`: `account` settles the usage the backend reported, prompt included,
   so requests admitted together can pass a limit by more than one reservation
   each, against `quota.go:62-66`. `OvershootBounded` is what holds: by less than
   what the key's slots can settle together.
5. `rollback_race`: the rollback of `init` checks an inode and then unlinks the name.
   A key command that loaded the configuration while it was published and
   renames a users file in between the two calls loses it, and the key in it,
   against `init.go:648-650`. `OthersPreserved` shows that this is the only file of
   another that a rollback can take.

Three more observations, without a run. A handler that has passed the check of
`closed` when `Close` runs from beginning to end puts its record into a channel
nobody reads: it is neither written nor counted, against `writer.go:89-91`
(`CloseKeepsItsWord` shows that only such stragglers can vanish). A stream of
usage-only chunks never ends by itself, see `SwallowsStop` above. And the comment
at `serve.go:544-547` takes event streams for hijacked connections outside the
cap; they are not, see Listener above.

## Not modelled

Parsing, validation and formatting (configuration, JSON bodies, API errors),
hashing of credentials, what the sandbox confines, the text of service files,
discovery, logging, TLS setup and the command line's own dialogue: they are pure
functions or one-time I/O without concurrent state. The bounds the configuration enforces
(`max_concurrency` at least 1, `queue_size` not negative, `queue_timeout`
positive) are the models' assumptions. The cadence of the overflow alert only
decides what is logged. The per-source bucket table only decides which requests
are refused. On systems other than Linux `init` commits nothing: its calls are
stubs that refuse.

Two things are left out on purpose where they are modelled otherwise: a crash of
the machine in the middle of a rollback of `init` may leave a configuration
without its pepper (`ConfigIsUsable` excludes it), since the rollback does not
sync between its steps; and a key command that runs while an operator edits
the users file by hand can lose that edit, since an editor takes no lock.

## Plan

What is left: the composition of Quota with UsageLog, so that the overshoot is
bounded across a restart too (today `CleanRestartKeepsQuota` says what a restart
counts and `OvershootBounded` what one process admits), and the liveness
properties themselves, for which the measures above would be the well-founded
orders once the proof system can reason about fairness.
