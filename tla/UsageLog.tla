------------------------------ MODULE UsageLog ------------------------------
(***************************************************************************)
(* What a key has used, across a restart: account of internal/proxy/       *)
(* proxy.go settles a request against the quota and submits its record,    *)
(* the writer (Writer) takes it to the log, and a restarted process        *)
(* rebuilds the quota from the log (Replay, internal/accounting/quota.go). *)
(*                                                                         *)
(* All requests are of one key.  Hours are the fixed windows; the day      *)
(* windows work alike.  The log is looked at as bytes only by Replay: a    *)
(* record is two bytes and a newline.  An answer is [ok, usage, nested]:   *)
(* whether its status was 2xx, and the raw usage objects it carried at the *)
(* top and under "response" (record.go).                                   *)
(***************************************************************************)
EXTENDS Writer, Integers

CONSTANTS
    MaxHour,        \* bound on the clock
    WindowSizes,    \* values of accounting.replay_max_bytes
    Answers,        \* what the backend may answer
    MaxUsage,       \* maxUsageTokens
    Reservation     \* what a request of unknown usage is charged

\* A usage object as it was sent: which fields are there, and their values.
RawUsage == [shape : {"none", "chat", "responses"}, in : Int, out : Int, total : Int]

ASSUME UsageLogAssumption ==
    /\ MaxHour \in Nat /\ WindowSizes \subseteq Nat /\ MaxUsage \in Nat /\ Reservation \in Nat
    /\ Answers \subseteq [ok : BOOLEAN, usage : RawUsage, nested : RawUsage]

VARIABLES
    hour,      \* the clock
    answer,    \* what the requests are answered, all alike
    settled,   \* the hour each request was settled in, or -1
    stamp,     \* Record.Time
    phase,     \* up, or back: restarted and replayed
    disk,      \* the log the new process found
    cut,       \* how many bytes of a torn record are in it
    window,    \* its replay_max_bytes
    used       \* the count of the current window after the replay

logVars == <<hour, answer, settled, stamp, phase, disk, cut, window, used>>
allVars == <<vars, logVars>>

LogInit ==
    /\ Init
    /\ hour = 0 /\ answer \in Answers
    /\ settled = [p \in Producers |-> -1] /\ stamp = [p \in Producers |-> -1]
    /\ phase = "up" /\ disk = <<>> /\ cut = 1 /\ window = 0 /\ used = 0

-----------------------------------------------------------------------------
(* ParseUsage, StatusOf *)

NoUsage == [present |-> FALSE, total |-> 0]

ClampUsage(v) == IF v < 0 THEN 0 ELSE IF v > MaxUsage THEN MaxUsage ELSE v

\* One usage object.  Its shape is decided by the fields that are there; all
\* zeros is the same as nothing, and a missing total is made up.
FromUsageJSON(raw) ==
    IF raw.shape \notin {"chat", "responses"} \/ (raw.in = 0 /\ raw.out = 0 /\ raw.total = 0)
    THEN NoUsage
    ELSE LET total == ClampUsage(raw.total)
         IN [present |-> TRUE,
             total |-> IF total = 0 THEN ClampUsage(raw.in) + ClampUsage(raw.out) ELSE total]

ParseUsage(a) ==
    IF FromUsageJSON(a.usage).present THEN FromUsageJSON(a.usage) ELSE FromUsageJSON(a.nested)

\* What account settles, and writes to the record as charged_tokens.
Charge(a) ==
    IF ParseUsage(a).present THEN ParseUsage(a).total ELSE IF a.ok THEN Reservation ELSE 0

\* What replayLine takes from the record: charged_tokens, or else total_tokens.
Replayed(a) == IF Charge(a) = 0 THEN ParseUsage(a).total ELSE Charge(a)

-----------------------------------------------------------------------------
(* account *)

\* Mutant: the record is made out before the quota is settled.
AccountStampFirst(p) ==
    /\ phase = "up"
    /\ \/ stamp[p] = -1 /\ stamp' = [stamp EXCEPT ![p] = hour] /\ UNCHANGED settled
       \/ stamp[p] # -1 /\ settled[p] = -1
             /\ settled' = [settled EXCEPT ![p] = hour] /\ UNCHANGED stamp
    /\ UNCHANGED <<vars, hour, answer, phase, disk, cut, window, used>>

\* Settle, then the record with its own reading of the clock.
Account(p) ==
    /\ phase = "up"
    /\ \/ settled[p] = -1 /\ settled' = [settled EXCEPT ![p] = hour] /\ UNCHANGED stamp
       \/ settled[p] # -1 /\ stamp[p] = -1
             /\ stamp' = [stamp EXCEPT ![p] = hour] /\ UNCHANGED settled
    /\ UNCHANGED <<vars, hour, answer, phase, disk, cut, window, used>>

Submit(p) ==
    /\ phase = "up" /\ stamp[p] # -1 /\ settled[p] # -1
    /\ Enqueue(p)
    /\ UNCHANGED logVars

-----------------------------------------------------------------------------
(* Replay *)

\* The byte that belongs to no record.
Newline == <<>>

\* The bytes of a log, a torn record being n bytes long.
Bytes(log, n) ==
    FlattenSeq([i \in DOMAIN log |->
        IF log[i].whole THEN <<<<log[i].rec, 1>>, <<log[i].rec, 2>>, Newline>>
        ELSE SubSeq(<<<<log[i].rec, 1>>, <<log[i].rec, 2>>>>, 1, n)])

\* scanBounded: where the lines start, and the line that starts there.
LineStarts(b) ==
    {i \in DOMAIN b : i = 1 \/ b[i - 1] = Newline}

Line(b, i) ==
    LET ends == {j \in i..Len(b) : b[j] = Newline}
        last == IF ends = {} THEN Len(b) ELSE (CHOOSE j \in ends : \A k \in ends : j <= k) - 1
    IN SubSeq(b, i, last)

\* Mutant: the first line of the window is always taken for a fragment.
WindowSkipsFirst(b, max) ==
    LET start == Len(b) - max
        after == {i \in LineStarts(b) : i > start + 1}
    IN IF max = 0 \/ start <= 0 THEN LineStarts(b) ELSE after

\* The lines that are scanned: all (also when max is 0), or those that start in
\* the last max bytes.  The first one counts when the byte before the window is a newline.
Window(b, max) ==
    LET start == Len(b) - max
    IN IF max = 0 \/ start <= 0 THEN LineStarts(b) ELSE {i \in LineStarts(b) : i > start}

\* replayLine: a line that is not a record is skipped, and so is one of
\* another hour.
Counted(b, max) ==
    {i \in Window(b, max) : \E p \in Producers :
        Line(b, i) = <<<<p, 1>>, <<p, 2>>>> /\ stamp[p] = hour}

Restart(log, n) ==
    /\ phase = "up"
    /\ phase' = "back" /\ disk' = log /\ cut' = n
    /\ window' \in WindowSizes
    /\ used' = Replayed(answer) * Cardinality(Counted(Bytes(log, n), window'))
    /\ UNCHANGED <<vars, hour, answer, settled, stamp>>

-----------------------------------------------------------------------------
\* The process ends after Close, and what it wrote stays; or it is killed or
\* the machine stops, and what was not synced may be gone, the last record in
\* the middle.
Shutdown == close = "returned" /\ \E n \in {1, 2} : Restart(file, n)

Crash ==
    \E len \in synced..Len(file), torn \in BOOLEAN, n \in {1, 2} :
        /\ torn => len > synced /\ file[len].whole
        /\ Restart([i \in 1..len |-> IF torn /\ i = len THEN [file[i] EXCEPT !.whole = FALSE]
                                     ELSE file[i]], n)

HourPasses ==
    /\ phase = "up" /\ hour < MaxHour
    /\ hour' = hour + 1
    /\ UNCHANGED <<vars, answer, settled, stamp, phase, disk, cut, window, used>>

LogNext ==
    \/ \E p \in Producers : Account(p) \/ Submit(p)
    \/ phase = "up" /\ (Consume \/ Close) /\ UNCHANGED logVars
    \/ HourPasses \/ Shutdown \/ Crash

LogSpec == LogInit /\ [][LogNext]_allVars

\* Handlers run; nothing is assumed of the disk or of the consumer.
FairLogSpec == LogSpec /\ \A p \in Producers : WF_allVars(phase = "up" /\ Send(p) /\ UNCHANGED logVars)

-----------------------------------------------------------------------------
(***************************************************************************)
(* Replay restores what the log says (Replay, scanBounded, replayLine):    *)
(* exactly the records of this hour that lie in the window, are whole and  *)
(* start a line, wherever the window begins and however the log ends.      *)
(***************************************************************************)
Behind(i) ==  \* bytes of the log from its i-th write on
    3 * Cardinality({j \in i..Len(disk) : disk[j].whole})
        + cut * Cardinality({j \in i..Len(disk) : ~disk[j].whole})

Legible(i) ==
    /\ i = 1 \/ disk[i - 1].whole
    /\ disk[i].whole \/ (i = Len(disk) /\ cut = 2)

ReplayMatchesLog ==
    phase = "back" =>
        used = Replayed(answer) * Cardinality({i \in DOMAIN disk :
                   Legible(i) /\ stamp[disk[i].rec] = hour /\ (window = 0 \/ Behind(i) <= window)})

FitsWindow == window = 0 \/ 3 * Len(disk) <= window

(***************************************************************************)
(* A clean restart does not hand out quota (PLAN §40, account): when       *)
(* nothing was dropped, nothing failed and the log fits the window, what   *)
(* was settled this hour is counted again, reported by the backend or not. *)
(***************************************************************************)
CleanRestartKeepsQuota ==
    /\ phase = "back" /\ disk = file
    /\ close = "returned" /\ ~finalErr /\ dropped = 0
    /\ \A p \in Producers : settled[p] # -1 => pc[p] = "done"
    /\ FitsWindow /\ q = <<>>
    => used >= Charge(answer) * Cardinality({p \in Producers : settled[p] = hour})

(***************************************************************************)
(* Close, once begun, returns if writes do, although producers keep        *)
(* running into the drain loop and the count after it.                     *)
(***************************************************************************)
Up(A) == phase = "up" /\ A /\ UNCHANGED logVars
ConsumerRuns ==
    /\ WF_allVars(Up(Receive)) /\ WF_allVars(Up(Write)) /\ WF_allVars(Up(NoticeStop))
    /\ WF_allVars(Up(Finish))
    /\ WF_allVars(Up(CloseStop \/ CloseAwait \/ CloseCount \/ CloseReturn))

CloseCompletes == ConsumerRuns => (close = "marked" ~> (close = "returned" \/ phase = "back"))

(***************************************************************************)
(* "Malformed lines are skipped so a torn write never poisons replay"      *)
(* (quota.go): every record of this hour that was written whole counts     *)
(* after a restart, whatever happened to the one before it.                *)
(***************************************************************************)
TornWriteHarmless ==
    phase = "back" /\ FitsWindow =>
        used >= Charge(answer) *
                    Cardinality({i \in DOMAIN disk : disk[i].whole /\ stamp[disk[i].rec] = hour})
=============================================================================
