---------------------------- MODULE DaemonProofs ----------------------------
(***************************************************************************)
(* Proofs about Daemon and the users file it shares with the key commands  *)
(* (KeyFile), for every number of commands, keys, edits, handlers and      *)
(* crashes.                                                                *)
(***************************************************************************)
EXTENDS Daemon, TLAPS

-----------------------------------------------------------------------------
(* The users file.                                                         *)

\* What the path may name, and what a command may be about to put there.
WholeFiles == {f \in Files : f.status # "torn" /\ f.synced}
Changes == [key : Keys, to : States]
Drafts == [cmd : Changes, keys : Tables, status : {"good", "unenforceable"}]

KeyTypeOK ==
    /\ file \in WholeFiles \cup {None} /\ disk \subseteq WholeFiles \cup {None}
    /\ nextIno \in Nat /\ expected \in Tables
    /\ epc \in [Editors -> {"start", "written", "renamed", "ended"}]
    /\ DOMAIN tmp = Editors

\* Who is between load and sync holds the lock, so there is one of them at most
\* and nobody replaces the file under it: its draft is its change of what is
\* expected.
DraftInv ==
    \A e \in Editors :
        /\ epc[e] \in {"written", "renamed"} => lock = e
        /\ epc[e] = "written" => /\ tmp[e] \in Drafts
                                 /\ tmp[e].keys = Apply(expected, tmp[e].cmd)

\* EditsCompose, and what a missing file stands for.
FileInv == expected = IF file = None THEN NoKeys ELSE file.keys

KeyInv == KeyTypeOK /\ DraftInv /\ FileInv

\* A change of a table is a table.
LEMMA ApplyType ==
    ASSUME NEW t \in Tables, NEW c \in Commands(t)
    PROVE  c \in Changes /\ Apply(t, c) \in Tables
  BY DEF Commands, Changes, Apply, Tables, States

\* A file is not None.
LEMMA FileFacts ==
    ASSUME NEW i \in Nat, NEW t \in Tables, NEW s \in Statuses
    PROVE  /\ File(i, t, s) \in Files
           /\ File(i, t, s) # None
           /\ File(i, t, s).keys = t
           /\ s # "torn" => File(i, t, s) \in WholeFiles
  <1>1. File(i, t, s) \in Files
    BY DEF File, Files
  <1> QED
    BY <1>1, KeyFileAssumption DEF File, WholeFiles

\* A command loads the file under the lock: nobody else has a draft.
LEMMA UpdateKeeps ==
    ASSUME KeyInv, NEW e \in Editors, Update(e)
    PROVE  KeyInv'
  <1> DEFINE t == IF file = None THEN NoKeys ELSE file.keys
             s == IF file = None THEN "good" ELSE file.status
  <1>1. lock = None /\ lock' = e /\ epc' = [epc EXCEPT ![e] = "written"]
        /\ file' = file /\ disk' = disk /\ nextIno' = nextIno /\ expected' = expected
    BY DEF Update, Loads
  <1>2. t = expected /\ t \in Tables
    BY DEF KeyInv, FileInv, KeyTypeOK
  <1>3. s \in {"good", "unenforceable"}
    BY DEF Update, Loads
  <1>4. PICK c \in Commands(t) :
          tmp' = [tmp EXCEPT ![e] = [cmd |-> c, keys |-> Apply(t, c), status |-> s]]
    BY DEF Update, Loads
  <1>5. c \in Changes /\ Apply(t, c) \in Tables
    BY <1>2, ApplyType
  <1>6. \A d \in Editors : epc[d] \notin {"written", "renamed"}
    BY <1>1, KeyFileAssumption DEF KeyInv, DraftInv
  <1> HIDE DEF t, s
  <1>7. KeyTypeOK'
    BY <1>1, <1>4 DEF KeyInv, KeyTypeOK
  <1>8. tmp'[e] \in Drafts /\ tmp'[e].keys = Apply(expected', tmp'[e].cmd)
    BY <1>1, <1>2, <1>3, <1>4, <1>5 DEF KeyInv, KeyTypeOK, Drafts
  <1>9. DraftInv'
    BY <1>1, <1>6, <1>8 DEF KeyInv, KeyTypeOK, DraftInv
  <1> QED
    BY <1>1, <1>7, <1>9 DEF KeyInv, FileInv

\* The draft takes the path's name: the change is made.
LEMMA ReplaceKeeps ==
    ASSUME KeyInv, NEW e \in Editors, Replace(e)
    PROVE  KeyInv'
  <1>1. epc[e] = "written" /\ tmp[e] \in Drafts /\ lock = e
        /\ tmp[e].keys = Apply(expected, tmp[e].cmd)
    BY DEF KeyInv, DraftInv, Replace, Rename
  <1>2. file' = File(nextIno, tmp[e].keys, tmp[e].status) /\ expected' = tmp[e].keys
    BY <1>1 DEF Replace, Rename, File
  <1>3. tmp[e].keys \in Tables /\ tmp[e].status \in {"good", "unenforceable"} /\ nextIno \in Nat
    BY <1>1 DEF Drafts, KeyInv, KeyTypeOK
  <1>4. file' \in WholeFiles /\ file' # None /\ file'.keys = expected'
    <2>1. tmp[e].status \in Statuses /\ tmp[e].status # "torn"
      BY <1>3 DEF Statuses
    <2> QED
      BY <1>2, <1>3, <2>1, FileFacts
  <1>5. \A d \in Editors : d # e => epc[d] \notin {"written", "renamed"}
    BY <1>1 DEF KeyInv, DraftInv
  <1>6. KeyTypeOK'
    <2>1. disk' = disk \union {file'}
      BY DEF Replace, Rename
    <2>2. disk' \subseteq WholeFiles \cup {None}
      BY <1>4, <2>1 DEF KeyInv, KeyTypeOK
    <2>3. file' \in WholeFiles \cup {None} /\ nextIno' \in Nat /\ expected' \in Tables
      BY <1>2, <1>3, <1>4 DEF Replace, Rename
    <2>4. /\ epc' \in [Editors -> {"start", "written", "renamed", "ended"}]
          /\ DOMAIN tmp' = Editors
      BY DEF KeyInv, KeyTypeOK, Replace, Rename
    <2> QED
      BY <2>2, <2>3, <2>4 DEF KeyTypeOK
  <1>7. DraftInv'
    BY <1>1, <1>5 DEF KeyInv, KeyTypeOK, DraftInv, Replace, Rename
  <1> QED
    BY <1>4, <1>6, <1>7 DEF KeyInv, FileInv

\* Either way the command is over and its lock is free.
LEMMA EditorEndsKeeps ==
    ASSUME KeyInv, NEW e \in Editors, SyncDir(e) \/ Abandon(e)
    PROVE  KeyInv'
  <1>1. lock = e /\ epc' = [epc EXCEPT ![e] = "ended"]
    BY DEF KeyInv, DraftInv, SyncDir, Abandon
  <1>2. \A d \in Editors : d # e => epc[d] \notin {"written", "renamed"}
    BY <1>1 DEF KeyInv, DraftInv
  <1>3. KeyTypeOK'
    BY DEF KeyInv, KeyTypeOK, SyncDir, Abandon
  <1>4. DraftInv'
    BY <1>1, <1>2 DEF KeyInv, KeyTypeOK, DraftInv, SyncDir, Abandon
  <1> QED
    BY <1>3, <1>4 DEF KeyInv, FileInv, SyncDir, Abandon

\* Nobody has a draft when the file is edited by hand.
LEMMA HandEditKeeps ==
    ASSUME KeyInv, HandEdit
    PROVE  KeyInv'
  <1>1. lock = None /\ UNCHANGED <<lock, epc, tmp>> /\ nextIno' = nextIno + 1
        /\ disk' = {file'}
    BY DEF HandEdit
  <1>2. NoKeys \in Tables /\ expected \in Tables /\ nextIno \in Nat
    BY DEF NoKeys, Tables, States, KeyInv, KeyTypeOK
  <1>3. /\ file' \in WholeFiles \cup {None}
        /\ expected' = IF file' = None THEN NoKeys ELSE file'.keys
        /\ expected' \in Tables
    <2>1. CASE file' = None
      BY <1>2, <2>1 DEF HandEdit
    <2>2. ASSUME NEW s \in {"good", "unenforceable", "malformed"},
                 file' = File(nextIno, expected, s)
          PROVE  file' \in WholeFiles /\ file' # None /\ file'.keys = expected
      BY <1>2, <2>2, FileFacts DEF Statuses
    <2> QED
      BY <1>2, <2>1, <2>2 DEF HandEdit
  <1>4. \A d \in Editors : epc[d] \notin {"written", "renamed"}
    BY <1>1, KeyFileAssumption DEF KeyInv, DraftInv
  <1>5. KeyTypeOK' /\ DraftInv'
    BY <1>1, <1>3, <1>4 DEF KeyInv, KeyTypeOK, DraftInv
  <1> QED
    BY <1>3, <1>5 DEF KeyInv, FileInv

\* What survives a crash is a whole file, and no draft.
LEMMA KeyCrashKeeps ==
    ASSUME KeyInv, KeyCrash
    PROVE  KeyInv'
  <1>1. \A f \in disk : OnDisk(f) = f
    BY DEF KeyInv, KeyTypeOK, WholeFiles, OnDisk
  <1>2. file' \in WholeFiles \cup {None} /\ disk' = {file'}
    BY <1>1 DEF KeyInv, KeyTypeOK, KeyCrash
  <1>3. expected' \in Tables
    BY <1>2 DEF KeyCrash, WholeFiles, Files, NoKeys, Tables, States
  <1>4. KeyTypeOK'
    BY <1>2, <1>3 DEF KeyInv, KeyTypeOK, KeyCrash
  <1>5. DraftInv'
    BY DEF KeyCrash, DraftInv
  <1> QED
    BY <1>4, <1>5 DEF KeyInv, FileInv, KeyCrash

\* The key commands keep the file consistent, whatever the daemon does.
THEOREM KeyFileInductive == Spec => []KeyInv
  <1>1. Init => KeyInv
    <2> SUFFICES ASSUME KeyInit PROVE KeyInv
      BY DEF Init
    <2>1. NoKeys \in Tables /\ 1 \in Nat /\ 2 \in Nat
      BY DEF NoKeys, Tables, States
    <2>2. File(1, NoKeys, "good") \in WholeFiles /\ File(1, NoKeys, "good").keys = NoKeys
      BY <2>1, FileFacts DEF Statuses
    <2> QED
      BY <2>1, <2>2 DEF KeyInit, KeyInv, KeyTypeOK, DraftInv, FileInv
  <1>2. KeyInv /\ UNCHANGED keyVars => KeyInv'
    BY DEF keyVars, KeyInv, KeyTypeOK, DraftInv, FileInv
  <1>3. KeyInv /\ [Next]_vars => KeyInv'
    <2> SUFFICES ASSUME KeyInv, [Next]_vars PROVE KeyInv'
      OBVIOUS
    <2>1. CASE Edit
      BY <2>1, UpdateKeeps, ReplaceKeeps, EditorEndsKeeps, HandEditKeeps DEF Edit, Editor
    <2>2. CASE Crash
      BY <2>2, KeyCrashKeeps DEF Crash
    <2>3. CASE Poll \/ Hangup \/ Shutdown \/ GraceEnds \/ ServerFails
      BY <1>2, <2>3 DEF Poll, Tick, LoadStat, PollRead, PollReadFails, PollDone, Hangup,
         Shutdown, Terminate, ShutdownCloses, Drained, SecondSignal, CloseWriter, Return,
         GraceEnds, ServerFails
    <2>4. CASE (\E s \in {"HUP", "TERM"} : Signal(s)) \/ \E h \in Handlers : Start(h) \/ Ends(h)
      BY <1>2, <2>4 DEF Signal, Start, Ends
    <2>5. CASE UNCHANGED vars
      BY <1>2, <2>5 DEF vars
    <2> QED
      BY <2>1, <2>2, <2>3, <2>4, <2>5 DEF Next
  <1> QED
    BY <1>1, <1>3, PTL DEF Spec

\* No change is lost: the file holds exactly the changes of the commands that
\* got as far as the rename (auth.Update holds the lock from load to rename).
THEOREM NoChangeIsLost == Spec => []EditsCompose
  <1>1. KeyInv => EditsCompose
    BY DEF KeyInv, FileInv, EditsCompose
  <1> QED
    BY <1>1, KeyFileInductive, PTL

\* The path always names a whole file (securefile.replace syncs before it
\* renames), after every failure, kill and crash.
THEOREM NoTornFile == Spec => []FileStaysWhole
  <1>1. KeyInv => FileStaysWhole
    BY DEF KeyInv, KeyTypeOK, WholeFiles, FileStaysWhole
  <1> QED
    BY <1>1, KeyFileInductive, PTL

-----------------------------------------------------------------------------
(* The shutdown.                                                           *)

\* Until the first load succeeds nothing is accepted.  Once the drain is over
\* nothing more is, so the handlers that run then are those it did not wait
\* for; the writer is closed after it, and only then can a record be lost.
LifeInv ==
    /\ tries \in 0..3
    /\ tries # 0 => ~listening /\ Idle
    /\ pc = "load" => tries # 0
    /\ pc \in {"flush", "end"} => ~listening /\ (Idle \/ cut)
    /\ pc = "exited" => ~listening /\ Idle
    /\ accClosed => pc \in {"end", "exited"}
    /\ lost => cut /\ pc \in {"end", "exited"}

\* The poll serves nothing before it has loaded a table, and stops nothing.
LEMMA PollKeeps ==
    ASSUME LifeInv, Poll \/ Hangup
    PROVE  LifeInv'
  <1>1. CASE Tick \/ Hangup \/ LoadStat
    BY <1>1 DEF LifeInv, Tick, Hangup, LoadStat, PollStat, stopVars, Idle
  <1>2. CASE PollRead
    BY <1>2 DEF LifeInv, PollRead, stopVars, Idle
  <1>3. CASE PollReadFails
    BY <1>3 DEF LifeInv, PollReadFails, stopVars, Idle
  <1>4. CASE PollDone
    <2>0. /\ pc = "read" /\ hpc' = hpc /\ accClosed' = accClosed /\ cut' = cut /\ lost' = lost
      BY <1>4 DEF PollDone
    <2>1. \/ tries' = 0 /\ pc' = "select"
          \/ tries \in 1..2 /\ tries' = tries + 1 /\ pc' = "load" /\ listening' = listening
          \/ /\ tries' = tries /\ listening' = listening
             /\ pc' = IF tries = 0 THEN "select" ELSE "exited"
      BY <1>4 DEF PollDone
    <2> QED
      BY <2>0, <2>1 DEF LifeInv, Idle
  <1> QED
    BY <1>1, <1>2, <1>3, <1>4 DEF Poll

\* The drain ends with no handler, or says that it was cut short.
LEMMA ShutdownKeeps ==
    ASSUME LifeInv, Shutdown \/ GraceEnds \/ ServerFails
    PROVE  LifeInv'
  <1>1. CASE Terminate \/ ShutdownCloses \/ GraceEnds
    BY <1>1 DEF LifeInv, Terminate, ShutdownCloses, GraceEnds, watchVars, Idle
  <1>2. CASE Drained
    BY <1>2 DEF LifeInv, Drained, watchVars, Idle
  <1>3. CASE SecondSignal
    BY <1>3 DEF LifeInv, SecondSignal, watchVars, Idle
  <1>4. CASE CloseWriter
    BY <1>4 DEF LifeInv, CloseWriter, watchVars, Idle
  <1>5. CASE Return
    BY <1>5 DEF LifeInv, Return, watchVars, stopVars, Idle, Stopped
  <1>6. CASE ServerFails
    BY <1>6 DEF LifeInv, ServerFails, watchVars, Idle, Stopped
  <1> QED
    BY <1>1, <1>2, <1>3, <1>4, <1>5, <1>6 DEF Shutdown

\* A handler starts only while the process listens.
LEMMA HandlersKeep ==
    ASSUME LifeInv, NEW h \in Handlers, Start(h) \/ Ends(h)
    PROVE  LifeInv'
  <1>1. CASE Start(h)
    BY <1>1 DEF LifeInv, Start, watchVars, stopVars, Idle
  <1>2. CASE Ends(h)
    BY <1>2 DEF LifeInv, Ends, watchVars, stopVars, Idle
  <1> QED
    BY <1>1, <1>2

\* A process that waited for its handlers has their records: serveCmd closes
\* the writer after the drain, so a record is lost only when the drain was cut
\* short or the listener failed.
THEOREM CleanStop == Spec => []CleanStopLosesNothing
  <1>1. Init => LifeInv
    BY DEF Init, LifeInv, Idle
  <1>2. LifeInv /\ [Next]_vars => LifeInv'
    <2> SUFFICES ASSUME LifeInv, [Next]_vars PROVE LifeInv'
      OBVIOUS
    <2>1. CASE Edit
      BY <2>1 DEF LifeInv, Edit, watchVars, stopVars, Idle
    <2>2. CASE Crash
      BY <2>2 DEF LifeInv, Crash, Idle, Stopped
    <2>3. ASSUME NEW s \in {"HUP", "TERM"}, Signal(s) PROVE LifeInv'
      BY <2>3 DEF LifeInv, Signal, watchVars, stopVars, Idle
    <2>4. CASE UNCHANGED vars
      BY <2>4 DEF LifeInv, vars, watchVars, stopVars, Idle
    <2> QED
      BY <2>1, <2>2, <2>3, <2>4, PollKeeps, ShutdownKeeps, HandlersKeep DEF Next
  <1>3. LifeInv => CleanStopLosesNothing
    BY DEF LifeInv, CleanStopLosesNothing
  <1> QED
    BY <1>1, <1>2, <1>3, PTL DEF Spec
-----------------------------------------------------------------------------
(* The poll.                                                               *)

\* A poll that finds the metadata unchanged ends there (usersWatcher.poll).
\* That is right: the table served is then the file's, unless the file is one
\* that is refused or that could not be read.
SkipIsSafe ==
    Serving /\ pc = "select" /\ ~readErr /\ file # None /\ Stat(file) = last /\ Servable(file)
        => store = file.keys

\* Identities are used once, so a file that arrives after an Lstat is told from
\* the one it saw.
InoInv ==
    /\ file # None => file.ino < nextIno
    /\ \A f \in disk : f # None => f.ino < nextIno
    /\ last = None \/ (last \in Nat /\ last < nextIno)
    /\ 0 < nextIno

\* What a poll has read is the file it saw, unless that has been replaced.
ReadInv == pc = "read" /\ file # None /\ Stat(file) = last => data = file

PollInv == InoInv /\ ReadInv /\ SkipIsSafe

\* Every way to replace the file gives it an identity no poll has seen.
LEMMA NewIdentity ==
    ASSUME KeyInv, InoInv, HandEdit \/ \E e \in Editors : Editor(e), last' = last
    PROVE  /\ InoInv'
           /\ file' = file \/ file' = None \/ Stat(file') # last'
  <1>0. nextIno \in Nat
    BY DEF KeyInv, KeyTypeOK
  <1>0a. /\ file # None => file.ino \in Nat
         /\ \A f \in disk : f # None => f.ino \in Nat
    BY DEF KeyInv, KeyTypeOK, WholeFiles, Files
  <1>1. CASE HandEdit
    <2>1. /\ disk' = {file'} /\ nextIno' = nextIno + 1
          /\ file' = None \/ file'.ino = nextIno
      BY <1>1 DEF HandEdit, File
    <2> QED
      BY <1>0, <1>0a, <2>1, KeyFileAssumption DEF InoInv, Stat
  <1>2. ASSUME NEW e \in Editors, Replace(e)
        PROVE  InoInv' /\ (file' = None \/ Stat(file') # last')
    <2>1. disk' = disk \union {file'} /\ nextIno' = nextIno + 1 /\ file'.ino = nextIno
      BY <1>2 DEF Replace, Rename
    <2> QED
      BY <1>0, <1>0a, <2>1, KeyFileAssumption DEF InoInv, Stat
  <1>3. ASSUME NEW e \in Editors, Update(e) \/ SyncDir(e) \/ Abandon(e)
        PROVE  InoInv' /\ file' = file
    <2>1. nextIno' = nextIno /\ file' = file /\ disk' \in {disk, {file}}
      BY <1>3 DEF Update, Loads, SyncDir, Abandon
    <2> QED
      BY <2>1 DEF InoInv
  <1> QED
    BY <1>1, <1>2, <1>3 DEF Editor

\* The first half of a poll remembers what it saw and changes nothing else.
LEMMA PollStatKeeps ==
    ASSUME KeyInv, PollInv, Tick \/ Hangup \/ LoadStat \/ PollRead \/ PollReadFails
    PROVE  PollInv'
  <1>0. UNCHANGED keyVars /\ tries' = tries /\ store' = store
    BY DEF Tick, Hangup, LoadStat, PollStat, PollRead, PollReadFails
  <1>1. file' = file /\ disk' = disk /\ nextIno' = nextIno
    BY <1>0 DEF keyVars
  <1>2. file = None \/ (file.ino \in Nat /\ file.ino < nextIno)
    BY DEF KeyInv, KeyTypeOK, WholeFiles, Files, PollInv, InoInv
  <1>3. CASE Tick \/ Hangup \/ LoadStat
    <2>1. \/ last' = last /\ pc' = pc /\ pc = "select" /\ readErr' = readErr
          \/ last' = Stat(file) /\ (pc' = "stat" \/ file = None)
      BY <1>3 DEF Tick, Hangup, LoadStat, PollStat
    <2>2. InoInv'
      BY <1>1, <1>2, <2>1 DEF PollInv, InoInv, Stat
    <2>3. ReadInv' /\ SkipIsSafe'
      BY <1>0, <1>1, <2>1 DEF PollInv, ReadInv, SkipIsSafe, Serving, Stat
    <2> QED
      BY <2>2, <2>3 DEF PollInv
  <1>4. CASE PollRead
    <2>1. last' = last /\ pc' = "read" /\ data' = file
      BY <1>4 DEF PollRead
    <2> QED
      BY <1>1, <2>1 DEF PollInv, InoInv, ReadInv, SkipIsSafe
  <1>5. CASE PollReadFails
    <2>1. last' = last /\ pc' # "read" /\ (file = None \/ readErr')
      BY <1>5 DEF PollReadFails
    <2> QED
      BY <1>1, <2>1 DEF PollInv, InoInv, ReadInv, SkipIsSafe
  <1> QED
    BY <1>3, <1>4, <1>5

\* The second half serves what it read only if that is still the file.
LEMMA PollDoneKeeps ==
    ASSUME PollInv, PollDone
    PROVE  PollInv'
  <1>1. file' = file /\ disk' = disk /\ nextIno' = nextIno /\ last' = last /\ pc = "read"
    BY DEF PollDone, keyVars
  <1>2. \/ Stat(file) = last /\ store' = data.keys /\ pc' = "select"
        \/ pc' = "load"
        \/ pc' \in {"select", "exited"} /\ ~(Stat(file) = last /\ Servable(data))
    BY DEF PollDone
  <1>3. file # None /\ Stat(file) = last => data = file
    BY <1>1 DEF PollInv, ReadInv
  <1>4. SkipIsSafe'
    <2> SUFFICES ASSUME pc' = "select", file # None, Stat(file) = last, Servable(file)
                 PROVE  store' = file.keys
      BY <1>1 DEF SkipIsSafe, Stat, Servable, Enforceable
    <2> QED
      BY <1>2, <1>3
  <1>5. InoInv' /\ ReadInv'
    BY <1>1, <1>2 DEF PollInv, InoInv, ReadInv
  <1> QED
    BY <1>4, <1>5 DEF PollInv

\* Skipping is safe: whatever replacements landed between the two Lstats and the
\* read of a poll (usersWatcher.poll), a running process that sees the metadata
\* it remembers serves the keys of that file, unless it refused the file or
\* failed to read it.  So no change is overlooked for good: this is the safety
\* part of KeyChangesApply.
THEOREM SkippedPollsAreSafe == Spec => []SkipIsSafe
  <1>1. Init => PollInv
    BY KeyFileAssumption DEF Init, KeyInit, PollInv, InoInv, ReadInv, SkipIsSafe, File
  <1>2. KeyInv /\ PollInv /\ [Next]_vars => PollInv'
    <2> SUFFICES ASSUME KeyInv, PollInv, [Next]_vars PROVE PollInv'
      OBVIOUS
    <2>1. CASE Edit
      <3>1. UNCHANGED <<pc, tries, last, data, store, readErr>>
        BY <2>1 DEF Edit, watchVars
      <3>2. InoInv' /\ (file' = file \/ file' = None \/ Stat(file') # last')
        BY <2>1, <3>1, NewIdentity DEF Edit, PollInv
      <3>3. ReadInv' /\ SkipIsSafe'
        BY <3>1, <3>2 DEF PollInv, ReadInv, SkipIsSafe, Serving, Stat, Servable, Enforceable
      <3> QED
        BY <3>2, <3>3 DEF PollInv
    <2>2. CASE Crash
      <3>1. file' \in disk /\ disk' = {file'} /\ nextIno' = nextIno /\ nextIno \in Nat
        BY <2>2 DEF Crash, KeyCrash, OnDisk, KeyInv, KeyTypeOK, WholeFiles
      <3>2. last' = 0 /\ pc' = "load"
        BY <2>2 DEF Crash
      <3> QED
        BY <3>1, <3>2 DEF PollInv, InoInv, ReadInv, SkipIsSafe
    <2>3. CASE Shutdown \/ GraceEnds \/ ServerFails
      <3>1. UNCHANGED keyVars /\ last' = last /\ pc' # "read" /\ data' = data
            /\ (pc' = "select" => UNCHANGED <<pc, tries, store, readErr>>)
        BY <2>3 DEF Shutdown, Terminate, ShutdownCloses, Drained, SecondSignal, CloseWriter,
           Return, GraceEnds, ServerFails, watchVars
      <3> QED
        BY <3>1 DEF keyVars, PollInv, InoInv, ReadInv, SkipIsSafe, Serving, Stat, Servable,
           Enforceable
    <2>4. CASE \/ \E s \in {"HUP", "TERM"} : Signal(s)
               \/ \E h \in Handlers : Start(h) \/ Ends(h)
               \/ UNCHANGED vars
      <3>1. UNCHANGED <<keyVars, pc, tries, last, data, store, readErr>>
        BY <2>4 DEF Signal, Start, Ends, vars, watchVars
      <3> QED
        BY <3>1 DEF keyVars, PollInv, InoInv, ReadInv, SkipIsSafe, Serving, Stat, Servable,
           Enforceable
    <2> QED
      BY <2>1, <2>2, <2>3, <2>4, PollStatKeeps, PollDoneKeeps DEF Next, Poll
  <1>3. PollInv => SkipIsSafe
    BY DEF PollInv
  <1> QED
    BY <1>1, <1>2, <1>3, KeyFileInductive, PTL DEF Spec

-----------------------------------------------------------------------------
(* The end of a shutdown.                                                  *)

\* The steps a shutdown has left: the listener's close and the grace period,
\* the end of the drain, the writer's close, the return.
StopLeft ==
    CASE pc = "drain" -> (IF listening THEN 4 ELSE 3) + (IF grace THEN 0 ELSE 1)
      [] pc = "flush" -> 2
      [] pc = "end" -> 1
      [] OTHER -> 0

\* A shutdown is never taken back: every step of it, and the end of the grace
\* period, brings the process nearer its end, and nothing but a crash takes it
\* further away: no signal, no handler and no key command.
ShutdownOnlyAdvances ==
    [][draining =>
         /\ Shutdown \/ GraceEnds => StopLeft' < StopLeft
         /\ StopLeft' > StopLeft => ~draining']_vars

\* Where a process that drains is.
DrainInv == draining => pc \in {"drain", "flush", "end", "exited"}

\* The measure falls: StopLeft bounds the steps between BeginDraining and the
\* return of serveCmd by five, whatever else happens meanwhile.
THEOREM ShutdownAdvances == Spec => ShutdownOnlyAdvances
  <1>1. Init => DrainInv
    BY DEF Init, DrainInv
  <1>2. ASSUME DrainInv, [Next]_vars
        PROVE  /\ DrainInv'
               /\ draining => /\ Shutdown \/ GraceEnds => StopLeft' < StopLeft
                              /\ StopLeft' > StopLeft => ~draining'
    <2>1. CASE ~draining
      BY <1>2, <2>1 DEF DrainInv, Next, vars, Poll, Tick, Hangup, LoadStat, PollStat, PollRead,
         PollReadFails, PollDone, Shutdown, Terminate, ShutdownCloses, Drained, SecondSignal,
         CloseWriter, Return, GraceEnds, ServerFails, Signal, Start, Ends, Edit, Crash, stopVars
    <2>2. CASE draining
      <3>0. pc \in {"drain", "flush", "end", "exited"}
        BY <1>2, <2>2 DEF DrainInv
      <3>1. CASE Shutdown \/ GraceEnds
        <4>1. /\ draining' = draining /\ pc' \in {"drain", "flush", "end", "exited"}
              /\ StopLeft' < StopLeft
          BY <3>0, <3>1 DEF StopLeft, Shutdown, Terminate, ShutdownCloses, Drained, SecondSignal,
             CloseWriter, Return, GraceEnds, stopVars
        <4>2. StopLeft \in Nat /\ StopLeft' \in Nat
          BY DEF StopLeft
        <4> QED
          BY <4>1, <4>2 DEF DrainInv
      <3>2. CASE Crash
        BY <3>1, <3>2 DEF Crash, DrainInv
      <3>3. CASE UNCHANGED <<pc, listening, grace, draining>>
        <4>1. StopLeft' = StopLeft /\ StopLeft \in Nat /\ DrainInv'
          BY <3>0, <3>3 DEF StopLeft, DrainInv
        <4> QED
          BY <3>1, <4>1
      <3>4. ~(Poll \/ Hangup \/ ServerFails)
        BY <3>0 DEF Poll, Tick, Hangup, LoadStat, PollRead, PollReadFails, PollDone, ServerFails
      <3>5. CASE \/ \E s \in {"HUP", "TERM"} : Signal(s)
                 \/ \E h \in Handlers : Start(h) \/ Ends(h)
                 \/ Edit \/ UNCHANGED vars
        <4>1. UNCHANGED <<pc, listening, grace, draining>>
          BY <3>5 DEF Signal, Start, Ends, Edit, vars, stopVars
        <4> QED
          BY <3>3, <4>1
      <3> QED
        BY <1>2, <3>1, <3>2, <3>4, <3>5 DEF Next
    <2> QED
      BY <2>1, <2>2
  <1>3. DrainInv /\ [Next]_vars => DrainInv'
    BY <1>2
  <1>4. DrainInv /\ [Next]_vars
          => [draining => /\ Shutdown \/ GraceEnds => StopLeft' < StopLeft
                          /\ StopLeft' > StopLeft => ~draining']_vars
    BY <1>2
  <1> QED
    BY <1>1, <1>3, <1>4, PTL DEF Spec, ShutdownOnlyAdvances
=============================================================================
