------------------------------- MODULE Daemon -------------------------------
(***************************************************************************)
(* The life of the serving process (serve.go): start, the signal loop with *)
(* its poll of the users file, and shutdown; composed with the commands    *)
(* that change the users file (KeyFile).                                   *)
(*                                                                         *)
(* sigCh is a channel of one place that the runtime sends to without       *)
(* blocking: a signal that finds it full is lost.  A handler is one        *)
(* request being served; what it does is the subject of the other modules, *)
(* here it ends with one usage record.                                     *)
(***************************************************************************)
EXTENDS KeyFile

CONSTANTS
    Handlers,     \* requests
    MaxCrashes    \* how often the machine crashes

ASSUME DaemonAssumption == IsFiniteSet(Handlers) /\ MaxCrashes \in Nat

VARIABLES
    pc,           \* serveCmd
    tries,        \* usersWatcher.load: polls made at startup
    last,         \* usersWatcher.last: metadata of the last poll (seen, during one)
    data,         \* what this poll read
    store,        \* the key table requests are authenticated against
    readErr,      \* history: a poll could not read a file that was there
    sigCh,
    missed,       \* history: a SIGTERM found sigCh full
    listening, draining, accClosed,
    hpc,          \* handlers
    grace,        \* the grace period has passed
    cut,          \* history: handlers were not waited for
    lost,         \* history: this process lost a usage record
    crashes

watchVars == <<tries, last, data, store, readErr>>
stopVars == <<listening, draining, accClosed, grace, cut>>
vars == <<keyVars, pc, watchVars, sigCh, missed, stopVars, hpc, lost, crashes>>

\* Mutant: size and times only.
StatCoarse(f) == IF f = None THEN None ELSE 1

\* Lstat, by what sameUsersFile compares.
Stat(f) == IF f = None THEN None ELSE f.ino

Init ==
    /\ KeyInit
    /\ pc = "load" /\ tries = 1
    /\ last = 0 /\ data = None /\ store = NoKeys /\ readErr = FALSE
    /\ sigCh = None /\ missed = FALSE
    /\ listening = FALSE /\ draining = FALSE /\ accClosed = FALSE
    /\ grace = FALSE /\ cut = FALSE
    /\ hpc = [h \in Handlers |-> "none"] /\ lost = FALSE /\ crashes = 0

Serving == pc \in {"select", "stat", "read"} /\ tries = 0

-----------------------------------------------------------------------------
(* usersWatcher.poll and refreshUsers *)

\* Lstat; a file that did not change ends the poll unless it is forced.
PollStat(force) ==
    /\ IF ~force /\ Stat(file) = last
       THEN UNCHANGED <<pc, last>>
       ELSE /\ last' = Stat(file)
            /\ pc' = IF file # None THEN "stat" ELSE IF tries = 0 THEN "select" ELSE "exited"
    /\ UNCHANGED <<tries, data, store, readErr>>

Tick ==
    /\ pc = "select"
    /\ PollStat(FALSE)
    /\ UNCHANGED <<keyVars, sigCh, missed, stopVars, hpc, lost, crashes>>

Hangup ==
    /\ pc = "select" /\ sigCh = "HUP"
    /\ sigCh' = None
    /\ PollStat(TRUE)
    /\ UNCHANGED <<keyVars, missed, stopVars, hpc, lost, crashes>>

LoadStat ==
    /\ pc = "load"
    /\ PollStat(TRUE)
    /\ UNCHANGED <<keyVars, sigCh, missed, stopVars, hpc, lost, crashes>>

\* securefile.Read, of whatever the path names by now.
PollRead ==
    /\ pc = "stat" /\ file # None
    /\ data' = file /\ pc' = "read"
    /\ UNCHANGED <<keyVars, tries, last, store, readErr, sigCh, missed,
                   stopVars, hpc, lost, crashes>>

\* The read fails: at startup that is fatal, later the previous store stays.
PollReadFails ==
    /\ pc = "stat"
    /\ pc' = IF tries = 0 THEN "select" ELSE "exited"
    /\ readErr' = (readErr \/ file # None)
    /\ UNCHANGED <<keyVars, tries, last, data, store, sigCh, missed, stopVars, hpc, lost, crashes>>

\* checkQuotaEnforceable: a quota is refused that a request of unknown usage
\* would not count against.
Enforceable(f) == f.status # "unenforceable"

\* parseStore: what ParseUsers and checkQuotaEnforceable let through.
Servable(f) == f.status \notin {"malformed", "torn"} /\ Enforceable(f)

\* The second Lstat.  A replacement in between is not an error; the store is
\* swapped for a table that passes, and kept otherwise.
PollDone ==
    /\ pc = "read"
    /\ data' = None
    /\ CASE Stat(file) = last /\ Servable(data) ->
              /\ store' = data.keys
              /\ tries' = 0 /\ pc' = "select" /\ listening' = TRUE
         [] Stat(file) # last /\ file # None /\ tries \in 1..2 ->
              /\ tries' = tries + 1 /\ pc' = "load"
              /\ UNCHANGED <<store, listening>>
         [] OTHER ->
              /\ pc' = IF tries = 0 THEN "select" ELSE "exited"
              /\ UNCHANGED <<tries, store, listening>>
    /\ UNCHANGED <<keyVars, last, readErr, sigCh, missed, draining, accClosed,
                   grace, cut, hpc, lost, crashes>>

-----------------------------------------------------------------------------
(* Signals and shutdown *)

\* Sending does not block.
Signal(sig) ==
    /\ Serving \/ pc = "drain"
    /\ sigCh' = IF sigCh = None THEN sig ELSE sigCh
    /\ missed' = (missed \/ (sig = "TERM" /\ sigCh = "HUP" /\ ~draining))
    /\ UNCHANGED <<keyVars, pc, watchVars, stopVars, hpc, lost, crashes>>

\* BeginDraining, then Shutdown closes the listener and waits.
Terminate ==
    /\ pc = "select" /\ sigCh = "TERM"
    /\ sigCh' = None
    /\ draining' = TRUE /\ pc' = "drain"
    /\ missed' = FALSE /\ readErr' = FALSE
    /\ UNCHANGED <<keyVars, tries, last, data, store, listening, accClosed, grace, cut, hpc,
                   lost, crashes>>

ShutdownCloses ==
    /\ pc = "drain" /\ listening
    /\ listening' = FALSE
    /\ UNCHANGED <<keyVars, pc, watchVars, sigCh, missed, draining, accClosed, grace,
                   cut, hpc, lost, crashes>>

Idle == \A h \in Handlers : hpc[h] # "serving"

GraceEnds ==
    /\ pc = "drain" /\ ~grace
    /\ grace' = TRUE
    /\ UNCHANGED <<keyVars, pc, watchVars, sigCh, missed, listening, draining,
                   accClosed, cut, hpc, lost, crashes>>

\* Mutant: Shutdown is not waited for.
DrainedEarly ==
    /\ pc = "drain" /\ ~listening
    /\ pc' = "flush"
    /\ UNCHANGED <<keyVars, watchVars, sigCh, missed, stopVars, hpc, lost, crashes>>

\* Mutant: the grace period does not end the wait.
DrainedIdle ==
    /\ pc = "drain" /\ ~listening /\ Idle
    /\ pc' = "flush"
    /\ UNCHANGED <<keyVars, watchVars, sigCh, missed, stopVars, hpc, lost, crashes>>

\* shutdownDone: no connection is active any more, or the deadline passed.
Drained ==
    /\ pc = "drain" /\ ~listening
    /\ Idle \/ grace
    /\ pc' = "flush" /\ cut' = ~Idle
    /\ sigCh' = None /\ grace' = FALSE
    /\ UNCHANGED <<keyVars, watchVars, missed, listening, draining, accClosed, hpc, lost,
                   crashes>>

\* A second signal: srv.Close severs the connections, handlers run on.
SecondSignal ==
    /\ pc = "drain" /\ sigCh # None
    /\ sigCh' = None
    /\ listening' = FALSE /\ pc' = "flush" /\ cut' = TRUE /\ grace' = FALSE
    /\ UNCHANGED <<keyVars, watchVars, missed, draining, accClosed, hpc, lost, crashes>>

\* The writer is flushed and closed; then the process ends.
CloseWriter ==
    /\ pc = "flush"
    /\ accClosed' = TRUE /\ pc' = "end"
    /\ UNCHANGED <<keyVars, watchVars, sigCh, missed, listening, draining, grace, cut,
                   hpc, lost, crashes>>

\* Handlers that still run end with the process.
Stopped == [g \in Handlers |-> IF hpc[g] = "serving" THEN "ended" ELSE hpc[g]]

Return ==
    /\ pc = "end"
    /\ pc' = "exited"
    /\ lost' = (lost \/ ~Idle)
    /\ hpc' = Stopped
    /\ UNCHANGED <<keyVars, watchVars, sigCh, missed, stopVars, crashes>>

\* Serve returned an error: the process ends at once, queued records with it.
ServerFails ==
    /\ pc = "select"
    /\ pc' = "exited" /\ cut' = TRUE /\ listening' = FALSE
    /\ lost' = TRUE /\ hpc' = Stopped
    /\ UNCHANGED <<keyVars, watchVars, sigCh, missed, draining, accClosed, grace,
                   crashes>>

-----------------------------------------------------------------------------
(* Handlers *)

Start(h) ==
    /\ hpc[h] = "none" /\ listening
    /\ hpc' = [hpc EXCEPT ![h] = "serving"]
    /\ UNCHANGED <<keyVars, pc, watchVars, sigCh, missed, stopVars, lost, crashes>>

\* The deferred Enqueue: refused when the writer is closed.
Ends(h) ==
    /\ hpc[h] = "serving"
    /\ hpc' = [hpc EXCEPT ![h] = "ended"]
    /\ lost' = (lost \/ accClosed)
    /\ UNCHANGED <<keyVars, pc, watchVars, sigCh, missed, stopVars, crashes>>

-----------------------------------------------------------------------------
\* The machine crashes and the daemon starts again.
Crash ==
    /\ crashes < MaxCrashes
    /\ KeyCrash
    /\ pc' = "load" /\ tries' = 1
    /\ last' = 0 /\ data' = None /\ store' = NoKeys /\ readErr' = FALSE
    /\ sigCh' = None /\ missed' = FALSE
    /\ listening' = FALSE /\ draining' = FALSE /\ accClosed' = FALSE
    /\ grace' = FALSE /\ cut' = FALSE /\ lost' = FALSE
    /\ hpc' = Stopped
    /\ crashes' = crashes + 1

Edit ==
    /\ HandEdit \/ \E e \in Editors : Editor(e)
    /\ UNCHANGED <<pc, watchVars, sigCh, missed, stopVars, hpc, lost, crashes>>

Poll == Tick \/ LoadStat \/ PollRead \/ PollReadFails \/ PollDone

Shutdown ==
    \/ Terminate \/ ShutdownCloses \/ Drained \/ SecondSignal \/ CloseWriter \/ Return

Next ==
    \/ Poll \/ Hangup \/ Shutdown \/ GraceEnds \/ ServerFails
    \/ \E s \in {"HUP", "TERM"} : Signal(s)
    \/ \E h \in Handlers : Start(h) \/ Ends(h)
    \/ Edit \/ Crash

Spec == Init /\ [][Next]_vars

(***************************************************************************)
(* The loop runs, the ticker ticks, a signal in sigCh is received while    *)
(* the loop waits in select, and the grace period is a timer.  Nothing is  *)
(* assumed of handlers, editors or signals.                                *)
(***************************************************************************)
FairSpec ==
    /\ Spec
    /\ WF_vars(Poll) /\ WF_vars(Hangup) /\ WF_vars(Shutdown) /\ WF_vars(GraceEnds)

TypeOK ==
    /\ file = None \/ (file.keys \in Tables /\ file.status \in Statuses)
    /\ pc \in {"load", "stat", "read", "select", "drain", "flush", "end", "exited"}
    /\ tries \in 0..3 /\ store \in Tables
    /\ sigCh \in {None, "HUP", "TERM"}
    /\ cut \in BOOLEAN

-----------------------------------------------------------------------------
(***************************************************************************)
(* Key changes apply (usersWatcher.poll): whatever replacements landed     *)
(* between the two Lstats and the read, the store of a running process     *)
(* ends up equal to the file, when the file can be served.  A file that    *)
(* could not be read is retried only when it changes.                      *)
(***************************************************************************)
KeyChangesApply ==
    <>[](Serving /\ ~readErr /\ file # None /\ Servable(file) => store = file.keys)

(***************************************************************************)
(* A shutdown that began ends (serveCmd): handlers that never finish, and  *)
(* signals that keep coming, do not hold the process up for ever.          *)
(***************************************************************************)
ShutdownEnds == draining ~> (pc = "exited" \/ ~draining)

(***************************************************************************)
(* A process that waited for its handlers has their records (serveCmd      *)
(* closes the writer after the drain): a record is lost only when the      *)
(* grace period, a second signal or a failed listener cut the drain short. *)
(***************************************************************************)
CleanStopLosesNothing == lost => cut

(***************************************************************************)
(* A stop asked for happens: serve.go says of its signals that             *)
(* "SIGINT/SIGTERM start the graceful drain".                              *)
(***************************************************************************)
TermStops ==
    (sigCh = "TERM" \/ missed) ~> (draining \/ pc \in {"load", "exited"})
=============================================================================
