------------------------------- MODULE Writer -------------------------------
(***************************************************************************)
(* The usage log writer, internal/accounting/writer.go: handlers submit    *)
(* records with Enqueue to a bounded channel, one consumer goroutine (run) *)
(* appends them to the JSONL file, and Close stops it at shutdown.         *)
(*                                                                         *)
(* Each producer makes one call of Enqueue and stands for its record too.  *)
(* The load of closed and the send are two steps: a handler may be between *)
(* them while Close runs from beginning to end.                            *)
(*                                                                         *)
(* The file is the sequence of its writes.  A write that fails may leave a *)
(* fragment without its newline (a full disk).  A sync makes durable what  *)
(* has been written before it; the fsync policy and the errors of the      *)
(* periodic syncs, which run ignores, only decide whether one happens, so  *)
(* after each record and each tick a sync may or may not take place.       *)
(***************************************************************************)
EXTENDS Naturals, FiniteSets, Sequences, SequencesExt

CONSTANTS
    Producers,   \* calls of Enqueue, and their records
    QueueSize    \* capacity of the channel

\* NewWriter replaces a size that is not positive by 4096.
ASSUME WriterAssumption ==
    /\ IsFiniteSet(Producers)
    /\ QueueSize \in Nat \ {0}

VARIABLES
    pc,        \* of each call: new, checked (closed was false) or done
    q,         \* the channel's buffer
    dropped,   \* the atomic counter
    closed,    \* the atomic flag
    stop,      \* the channel stop is closed
    run,       \* the consumer: select, drain or exited
    cur,       \* the record the consumer has received, as a set
    file,      \* the writes [rec, whole] that reached the file
    synced,    \* how many of them are durable
    finalErr,  \* the final sync or the close of the file failed
    close,     \* the caller of Close: open, marked, stopped, counting, returned
    early,     \* records in the channel when Close began (history)
    late       \* calls between check and send when Close returned (history)

vars == <<pc, q, dropped, closed, stop, run, cur, file, synced, finalErr,
          close, early, late>>

\* The channel done is closed by run's deferred call.
done == run = "exited"

TypeOK ==
    /\ pc \in [Producers -> {"new", "checked", "done"}]
    /\ q \in Seq(Producers) /\ Len(q) <= QueueSize
    /\ dropped \in Nat
    /\ closed \in BOOLEAN /\ stop \in BOOLEAN /\ finalErr \in BOOLEAN
    /\ run \in {"select", "drain", "exited"}
    /\ cur \in SUBSET Producers
    /\ file \in Seq([rec : Producers, whole : BOOLEAN])
    /\ synced \in 0..Len(file)
    /\ close \in {"open", "marked", "stopped", "counting", "returned"}
    /\ early \in SUBSET Producers /\ late \in SUBSET Producers

Init ==
    /\ pc = [p \in Producers |-> "new"]
    /\ q = <<>>
    /\ dropped = 0
    /\ closed = FALSE /\ stop = FALSE /\ finalErr = FALSE
    /\ run = "select"
    /\ cur = {}
    /\ file = <<>>
    /\ synced = 0
    /\ close = "open"
    /\ early = {} /\ late = {}

-----------------------------------------------------------------------------
(* Enqueue.                                                                *)

\* if w.closed.Load() { w.dropped.Add(1); return }
CheckClosed(p) ==
    /\ pc[p] = "new"
    /\ \/ /\ closed
          /\ pc' = [pc EXCEPT ![p] = "done"]
          /\ dropped' = dropped + 1
       \/ /\ ~closed
          /\ pc' = [pc EXCEPT ![p] = "checked"]
          /\ UNCHANGED dropped
    /\ UNCHANGED <<q, closed, stop, run, cur, file, synced, finalErr, close, early, late>>

\* The non-blocking send: a full channel drops the record.
Send(p) ==
    /\ pc[p] = "checked"
    /\ pc' = [pc EXCEPT ![p] = "done"]
    /\ \/ /\ Len(q) < QueueSize
          /\ q' = Append(q, p)
          /\ UNCHANGED dropped
       \/ /\ Len(q) >= QueueSize
          /\ dropped' = dropped + 1
          /\ UNCHANGED q
    /\ UNCHANGED <<closed, stop, run, cur, file, synced, finalErr, close, early, late>>

-----------------------------------------------------------------------------
(* run, the consumer.                                                      *)

\* A receive, in the main select or in the drain loop.
Receive ==
    /\ ~done
    /\ cur = {}
    /\ q # <<>>
    /\ cur' = {Head(q)}
    /\ q' = Tail(q)
    /\ UNCHANGED <<pc, dropped, closed, stop, run, file, synced, finalErr, close, early, late>>

\* The main select takes the stop case, also when records are waiting.
NoticeStop ==
    /\ run = "select"
    /\ cur = {}
    /\ stop
    /\ run' = "drain"
    /\ UNCHANGED <<pc, q, dropped, closed, stop, cur, file, synced, finalErr, close, early, late>>

\* What a sync after the file has become f leaves durable, if there is one.
MaybeSync(f) == synced' \in {synced, Len(f)}

\* Mutant: a failed write is not counted.
WriteUncounted ==
    /\ \E r \in cur : file' \in {file, Append(file, [rec |-> r, whole |-> TRUE])}
    /\ cur' = {}
    /\ \/ run = "select" /\ MaybeSync(file')
       \/ run = "drain" /\ UNCHANGED synced
    /\ UNCHANGED <<pc, q, dropped, closed, stop, run, finalErr, close, early, late>>

\* writeRecord and what follows it; only the main loop syncs.
Write ==
    /\ \E r \in cur :
          \/ /\ file' = Append(file, [rec |-> r, whole |-> TRUE])
             /\ UNCHANGED dropped
          \/ /\ \/ UNCHANGED file
                \/ file' = Append(file, [rec |-> r, whole |-> FALSE])
             /\ dropped' = dropped + 1
    /\ cur' = {}
    /\ \/ run = "select" /\ MaybeSync(file')
       \/ run = "drain" /\ UNCHANGED synced
    /\ UNCHANGED <<pc, q, closed, stop, run, finalErr, close, early, late>>

\* The ticker's case of the main select.
Tick ==
    /\ run = "select"
    /\ cur = {}
    /\ MaybeSync(file)
    /\ UNCHANGED <<pc, q, dropped, closed, stop, run, cur, file, finalErr, close, early, late>>

\* Mutant: only the close of the file is reported.
FinishUnsynced ==
    /\ run = "drain"
    /\ cur = {}
    /\ q = <<>>
    /\ finalErr' \in BOOLEAN
    /\ run' = "exited"
    /\ UNCHANGED <<pc, q, dropped, closed, stop, cur, file, synced, close, early, late>>

\* The drain loop finds the channel empty: final sync, close, return.
Finish ==
    /\ run = "drain"
    /\ cur = {}
    /\ q = <<>>
    /\ \/ /\ synced' = Len(file)
          /\ finalErr' \in BOOLEAN
       \/ /\ finalErr' = TRUE
          /\ UNCHANGED synced
    /\ run' = "exited"
    /\ UNCHANGED <<pc, q, dropped, closed, stop, cur, file, close, early, late>>

-----------------------------------------------------------------------------
(* Close, called once at shutdown.                                         *)

CloseMark ==
    /\ close = "open"
    /\ close' = "marked"
    /\ closed' = TRUE
    /\ early' = ToSet(q) \cup cur
    /\ UNCHANGED <<pc, q, dropped, stop, run, cur, file, synced, finalErr, late>>

\* Mutant: the consumer is not told.
CloseStopMissing ==
    /\ close = "marked"
    /\ close' = "stopped"
    /\ UNCHANGED <<pc, q, dropped, closed, stop, run, cur, file, synced, finalErr, early, late>>

CloseStop ==
    /\ close = "marked"
    /\ close' = "stopped"
    /\ stop' = TRUE
    /\ UNCHANGED <<pc, q, dropped, closed, run, cur, file, synced, finalErr, early, late>>

CloseAwait ==
    /\ close = "stopped"
    /\ done
    /\ close' = "counting"
    /\ UNCHANGED <<pc, q, dropped, closed, stop, run, cur, file, synced, finalErr, early, late>>

\* Records that raced in after the drain are counted as dropped.
CloseCount ==
    /\ close = "counting"
    /\ q # <<>>
    /\ q' = Tail(q)
    /\ dropped' = dropped + 1
    /\ UNCHANGED <<pc, closed, stop, run, cur, file, synced, finalErr, close, early, late>>

CloseReturn ==
    /\ close = "counting"
    /\ q = <<>>
    /\ close' = "returned"
    /\ late' = {p \in Producers : pc[p] = "checked"}
    /\ UNCHANGED <<pc, q, dropped, closed, stop, run, cur, file, synced, finalErr, early>>

-----------------------------------------------------------------------------
Enqueue(p) == CheckClosed(p) \/ Send(p)

Consume == Receive \/ NoticeStop \/ Write \/ Tick \/ Finish

Close == CloseMark \/ CloseStop \/ CloseAwait \/ CloseCount \/ CloseReturn

Next ==
    \/ \E p \in Producers : Enqueue(p)
    \/ Consume
    \/ Close

Spec == Init /\ [][Next]_vars

-----------------------------------------------------------------------------
(* Properties.                                                             *)

Written == {file[i].rec : i \in {j \in DOMAIN file : file[j].whole}}

\* Nothing is lost unnoticed and nothing is written twice: every finished
\* call's record is waiting, in the consumer's hands, in the file, or one of
\* those the counter has counted (writer.go:87-106, 138-141, 206-211).
RecordsAccounted ==
    /\ Cardinality({p \in Producers : pc[p] = "done"})
          = Len(q) + Cardinality(cur) + Cardinality(Written) + dropped
    /\ \A i, j \in DOMAIN file : file[i].rec = file[j].rec => i = j

\* What Close promises (writer.go:108-215, T-M11): when the consumer has
\* finished, no record that was in the channel when Close began is left in
\* it; when Close returns, all that can still get into the channel nobody
\* reads is what was between the two steps of Enqueue then; and without an
\* error every write is durable, since none can follow the final sync.
CloseKeepsItsWord ==
    /\ done => early \cap ToSet(q) = {}
    /\ close = "returned" => ToSet(q) \subseteq late
    /\ close = "returned" /\ ~finalErr => synced = Len(file)
=============================================================================
