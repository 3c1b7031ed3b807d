------------------------------ MODULE KeyFile ------------------------------
(***************************************************************************)
(* The users file and the commands that change it: auth.Update (lock,      *)
(* load, change, validate, replace) over securefile.Replace (temporary     *)
(* file, sync, rename, sync of the directory).  Each editor is one         *)
(* process running one key command; it may fail at any call and may be     *)
(* killed at any point.  The machine may crash: what survives is what was  *)
(* synced, and a rename that was not followed by a sync of the directory   *)
(* may or may not survive.                                                 *)
(***************************************************************************)
EXTENDS Integers, FiniteSets

CONSTANTS
    Editors,    \* key commands, one process each
    Keys,       \* key ids
    MaxEdits,   \* how often the file is replaced by hand
    None

States == {"absent", "enabled", "disabled"}
Tables == [Keys -> States]
NoKeys == [k \in Keys |-> "absent"]

(***************************************************************************)
(* A file: ino stands for the identity and the times Lstat reports, new    *)
(* with every replacement.  "unenforceable" passes ParseUsers and not      *)
(* checkQuotaEnforceable; "torn" is a file whose blocks were lost.         *)
(***************************************************************************)
Statuses == {"good", "unenforceable", "malformed", "torn"}
Files == [ino : Nat, keys : Tables, status : Statuses, synced : BOOLEAN]
File(i, t, s) == [ino |-> i, keys |-> t, status |-> s, synced |-> TRUE]

ASSUME KeyFileAssumption ==
    /\ IsFiniteSet(Editors) /\ MaxEdits \in Nat
    /\ None \notin Editors /\ None \notin Files /\ None \notin Nat

VARIABLES
    file,      \* what the path names: a file or None
    disk,      \* what it may name on the disk: all since the last sync of the directory
    lock,      \* who holds flock on the lock file
    epc, tmp,  \* where each editor is; its temporary file
    nextIno, edits,
    expected   \* history: the keys after the changes made so far, in order

keyVars == <<file, disk, lock, epc, tmp, nextIno, edits, expected>>

KeyInit ==
    /\ file \in {None, File(1, NoKeys, "good")} /\ disk = {file}
    /\ lock = None
    /\ epc = [e \in Editors |-> "start"] /\ tmp = [e \in Editors |-> None]
    /\ nextIno = 2 /\ edits = 0 /\ expected = NoKeys

-----------------------------------------------------------------------------
(* auth.Update *)

\* What a key command may do: a new id (chooseKeyID), or a change of one that
\* is there; setEnabled and revoke fail when it is not.
Commands(t) ==
    {[key |-> k, to |-> s] : k \in {k \in Keys : t[k] = "absent"}, s \in {"enabled"}}
    \union
    {[key |-> k, to |-> s] : k \in {k \in Keys : t[k] # "absent"}, s \in States}

Apply(t, c) == [t EXCEPT ![c.key] = c.to]

\* What the change makes of the loaded table.  A missing file is an empty one;
\* one that LoadUsers refuses is left alone.
Loads(e) ==
    /\ epc[e] = "start"
    /\ file # None => file.status \in {"good", "unenforceable"}
    /\ LET t == IF file = None THEN NoKeys ELSE file.keys
           s == IF file = None THEN "good" ELSE file.status
       IN \E c \in Commands(t) :
            tmp' = [tmp EXCEPT ![e] = [cmd |-> c, keys |-> Apply(t, c), status |-> s]]
    /\ epc' = [epc EXCEPT ![e] = "written"]
    /\ UNCHANGED <<file, disk, nextIno, edits, expected>>

\* Mutant: no lock.
UpdateUnlocked(e) == Loads(e) /\ UNCHANGED lock

\* flock, LoadUsers, the change, validateUsers, and the result written to a
\* temporary file beside the users file.
Update(e) ==
    /\ lock = None
    /\ lock' = e
    /\ Loads(e)

\* The temporary file takes the path's name.
Rename(e, s) ==
    /\ epc[e] = "written"
    /\ file' = [ino |-> nextIno, keys |-> tmp[e].keys, status |-> tmp[e].status,
                synced |-> s]
    /\ nextIno' = nextIno + 1
    /\ expected' = Apply(expected, tmp[e].cmd)
    /\ tmp' = [tmp EXCEPT ![e] = None]
    /\ epc' = [epc EXCEPT ![e] = "renamed"]
    /\ disk' = disk \union {file'}
    /\ UNCHANGED <<lock, edits>>

\* Mutant: it does so before its contents are on the disk.
ReplaceUnsynced(e) == Rename(e, FALSE)

\* fsync of the temporary file, then rename.
Replace(e) == Rename(e, TRUE)

\* The directory is synced and the lock goes with the process.
SyncDir(e) ==
    /\ epc[e] = "renamed"
    /\ disk' = {file} /\ lock' = None
    /\ epc' = [epc EXCEPT ![e] = "ended"]
    /\ UNCHANGED <<file, tmp, nextIno, edits, expected>>

\* A call fails before the rename (the temporary file is removed), or the
\* process is killed (it stays): either way the lock is released.
Abandon(e) ==
    /\ epc[e] \in {"written", "renamed"}
    /\ lock' = None
    /\ tmp' = [tmp EXCEPT ![e] = None]
    /\ epc' = [epc EXCEPT ![e] = "ended"]
    /\ UNCHANGED <<file, disk, nextIno, edits, expected>>

Editor(e) ==
    Update(e) \/ Replace(e) \/ SyncDir(e) \/ Abandon(e)

-----------------------------------------------------------------------------
\* An operator replaces or removes the file by other means, durably, when no
\* command runs.
HandEdit ==
    /\ edits < MaxEdits /\ lock = None
    /\ \/ \E s \in {"good", "unenforceable", "malformed"} :
            file' = File(nextIno, expected, s)
       \/ file' = None
    /\ expected' = IF file' = None THEN NoKeys ELSE expected
    /\ disk' = {file'} /\ nextIno' = nextIno + 1 /\ edits' = edits + 1
    /\ UNCHANGED <<lock, epc, tmp>>

\* What a file is after a crash.
OnDisk(f) == IF f = None \/ f.synced THEN f ELSE [f EXCEPT !.status = "torn"]

\* The machine stops: processes are gone, renames that were not synced may be
\* lost.
KeyCrash ==
    /\ \E f \in disk : file' = OnDisk(f) /\ disk' = {OnDisk(f)}
    /\ expected' = IF file' = None THEN NoKeys ELSE file'.keys
    /\ lock' = None
    /\ epc' = [e \in Editors |-> IF epc[e] = "start" THEN "start" ELSE "ended"]
    /\ tmp' = [e \in Editors |-> None]
    /\ UNCHANGED <<nextIno, edits>>

-----------------------------------------------------------------------------
(***************************************************************************)
(* No change is lost (auth.Update holds the lock from load to rename): the *)
(* file holds exactly the changes of the commands that got as far as the   *)
(* rename, whatever other commands did meanwhile.                          *)
(***************************************************************************)
EditsCompose == file # None => file.keys = expected

(***************************************************************************)
(* The path always names a whole file (securefile.replace): neither a      *)
(* failure, nor a killed command, nor a crash between two of its steps     *)
(* leaves a truncated one.                                                 *)
(***************************************************************************)
FileStaysWhole == file # None => file.status # "torn"
=============================================================================
