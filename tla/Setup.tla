-------------------------------- MODULE Setup --------------------------------
(***************************************************************************)
(* mellomting init: the transaction that publishes the pepper, the users   *)
(* file and the configuration (commitInitArtifacts of cmd/mellomting/      *)
(* init.go over the calls of init_commit_linux.go), with its rollback.     *)
(* Several invocations may run in one directory, and beside them a key     *)
(* command, which loads the configuration first and replaces the users     *)
(* file later.  A call may fail, a process may be killed, the file system  *)
(* may turn read-only, and the machine may crash: then each directory      *)
(* entry is as it was at the last sync of the directory, or as any change  *)
(* since then left it.                                                     *)
(*                                                                         *)
(* Files 1, 2 and 3 are pepper, users and configuration.  An entry names   *)
(* the invocation whose inode it is, or Foreign.  Temporary names contain  *)
(* the process id, so nobody else changes them: an lstat of one and the    *)
(* call it guards are one step.  For the final names they are two.         *)
(***************************************************************************)
EXTENDS Integers, Sequences

CONSTANTS Inits, Foreign, Free
ASSUME SetupAssumption == Foreign \notin Inits /\ Free \notin Inits \union {Foreign}

Files == 1..3
Users == 2
Config == 3
Entries == Inits \union {Free, Foreign}

VARIABLES
    at,         \* place in the program; 0 before it, past its end when done
    undo,       \* place in the rollback; 0 when there is none
    seen,       \* the inode its lstat found, until the unlink
    over,       \* how the invocation ended
    final, temp,        \* directory: final names; temporary names of each
    disk,               \* what each final name may be on the disk
    whole,              \* files of each whose contents are on the disk
    published,          \* commitFile.published
    key,                \* the key command: idle, loaded, renamed
    readOnly, crashed

\* What only the rollback, the key command and the environment change.
rest == <<seen, key, readOnly, crashed>>

setupVars ==
    <<at, undo, seen, over, final, temp, disk, whole, published, key, readOnly, crashed>>

SetupInit ==
    /\ at = [i \in Inits |-> 0] /\ undo = [i \in Inits |-> 0]
    /\ seen = [i \in Inits |-> Free] /\ over = [i \in Inits |-> "no"]
    /\ \E S \in {{}, {Users}} : final = [f \in Files |-> IF f \in S THEN Foreign ELSE Free]
    /\ disk = [f \in Files |-> {final[f]}]
    /\ temp = [i \in Inits |-> {}] /\ whole = [i \in Inits |-> {}]
    /\ published = [i \in Inits |-> {}]
    /\ key = "idle" /\ readOnly = FALSE /\ crashed = FALSE

-----------------------------------------------------------------------------
(* The calls of productionCommitOps, relative to the directory *)

\* A final name changes, on the disk perhaps.
Entry(f, e) ==
    /\ final' = [final EXCEPT ![f] = e]
    /\ disk' = [disk EXCEPT ![f] = @ \union {e}]

\* createInDir with O_EXCL; fchownFile and fchmodFile before it has contents.
CreateInDir(i, f) == ~readOnly /\ temp' = [temp EXCEPT ![i] = @ \union {f}]

\* writeAll, fsyncFile, fstatFile and closeFile.
WriteAll(i, f) == ~readOnly /\ whole' = [whole EXCEPT ![i] = @ \union {f}]

\* linkInDir: linkat never replaces a name.
LinkInDir(i, f) == ~readOnly /\ final[f] = Free /\ Entry(f, i)

\* unlinkInDir; a name that is gone already is no error.
UnlinkInDir(i, f) == ~readOnly /\ temp' = [temp EXCEPT ![i] = @ \ {f}]

\* fsyncDir.
FsyncDir == disk' = [f \in Files |-> {final[f]}]

-----------------------------------------------------------------------------
(* The program *)

Do(op, f) == <<[op |-> op, file |-> f]>>
Publish(f) == Do("link", f) \o Do("unlink", f)
Prepare == Do("create", 1) \o Do("create", 2) \o Do("create", 3)
              \o Do("write", 1) \o Do("write", 2) \o Do("write", 3)

\* Mutant: the directory is synced once, at the end.
ProgramOneSync == Prepare \o Publish(1) \o Publish(2) \o Publish(3) \o Do("sync", 0)

\* The keys first and durably, the configuration last.
Program ==
    Prepare \o Publish(1) \o Publish(2) \o Do("sync", 0) \o Publish(3) \o Do("sync", 0)

Running(i) == over[i] = "no" /\ undo[i] = 0 /\ ~crashed
At(i, op) == Running(i) /\ at[i] \in DOMAIN Program /\ Program[at[i]].op = op
File(i) == Program[at[i]].file
Advance(i) == at' = [at EXCEPT ![i] = @ + 1]

\* Arguments, discovery and rendering touch no files; then no destination may
\* exist.
Start(i) ==
    /\ at[i] = 0 /\ Running(i)
    /\ \A f \in Files : final[f] = Free
    /\ Advance(i)
    /\ UNCHANGED <<undo, over, final, temp, disk, whole, published, rest>>

Refuse(i) ==
    /\ at[i] = 0 /\ Running(i)
    /\ over' = [over EXCEPT ![i] = "failed"]
    /\ UNCHANGED <<at, undo, final, temp, disk, whole, published, rest>>

Create(i) ==
    /\ At(i, "create") /\ CreateInDir(i, File(i))
    /\ Advance(i)
    /\ UNCHANGED <<undo, over, final, disk, whole, published, rest>>

\* With the check that the inode is still the one that was created.
Write(i) ==
    /\ At(i, "write") /\ WriteAll(i, File(i))
    /\ Advance(i)
    /\ UNCHANGED <<undo, over, final, temp, disk, published, rest>>

\* Mutant: published is set when the temporary name is gone.
LinkMarksNothing(i) ==
    /\ At(i, "link") /\ LinkInDir(i, File(i))
    /\ Advance(i)
    /\ UNCHANGED <<undo, over, temp, whole, published, rest>>

\* published is set as soon as the name is there.
Link(i) ==
    /\ At(i, "link") /\ LinkInDir(i, File(i))
    /\ published' = [published EXCEPT ![i] = @ \union {File(i)}]
    /\ Advance(i)
    /\ UNCHANGED <<undo, over, temp, whole, rest>>

Unlink(i) ==
    /\ At(i, "unlink") /\ UnlinkInDir(i, File(i))
    /\ Advance(i)
    /\ UNCHANGED <<undo, over, final, disk, whole, published, rest>>

SyncDir(i) ==
    /\ At(i, "sync") /\ FsyncDir
    /\ Advance(i)
    /\ UNCHANGED <<undo, over, final, temp, whole, published, rest>>

Done(i) ==
    /\ Running(i) /\ at[i] > Len(Program)
    /\ over' = [over EXCEPT ![i] = "done"]
    /\ UNCHANGED <<at, undo, final, temp, disk, whole, published, rest>>

-----------------------------------------------------------------------------
(* rollbackCommitFiles *)

\* Any call may fail, whether or not others would work.
Fails(i) ==
    /\ Running(i) /\ at[i] \in DOMAIN Program
    /\ undo' = [undo EXCEPT ![i] = 1]
    /\ UNCHANGED <<at, over, final, temp, disk, whole, published, rest>>

Undoing(i) == over[i] = "no" /\ ~crashed
NextUndo(i) == undo' = [undo EXCEPT ![i] = @ + 1]

\* Mutant: by name alone.
RemovableByName(i, f) == f \in published[i] /\ final[f] # Free

\* Only what this invocation published, if the name is still its inode.
Removable(i, f) == f \in published[i] /\ final[f] = i

\* Backwards over the final names: lstatInDir, and the comparison ...
Looks(i) ==
    /\ undo[i] \in 1..3 /\ seen[i] = Free /\ Undoing(i)
    /\ LET f == 4 - undo[i]
       IN \/ /\ Removable(i, f)
             /\ seen' = [seen EXCEPT ![i] = final[f]] /\ UNCHANGED undo
          \/ ~Removable(i, f) /\ NextUndo(i) /\ UNCHANGED seen
    /\ UNCHANGED <<at, over, final, temp, disk, whole, published, key, readOnly, crashed>>

\* ... and then unlinkInDir, of whatever has the name by now; its error is
\* ignored.
Removes(i) ==
    /\ undo[i] \in 1..3 /\ seen[i] # Free /\ Undoing(i)
    /\ NextUndo(i) /\ seen' = [seen EXCEPT ![i] = Free]
    /\ IF readOnly THEN UNCHANGED <<final, disk>> ELSE Entry(4 - undo[i], Free)
    /\ UNCHANGED <<at, over, temp, whole, published, key, readOnly, crashed>>

\* Then over the temporary ones.
RemovesTemp(i) ==
    /\ undo[i] \in 4..6 /\ Undoing(i)
    /\ NextUndo(i)
    /\ UnlinkInDir(i, 7 - undo[i]) \/ (readOnly /\ UNCHANGED temp)
    /\ UNCHANGED <<at, over, final, disk, whole, published, rest>>

Undone(i) ==
    /\ undo[i] = 7 /\ over[i] = "no"
    /\ over' = [over EXCEPT ![i] = "failed"]
    /\ UNCHANGED <<at, undo, final, temp, disk, whole, published, rest>>

-----------------------------------------------------------------------------
(* A key command, as far as it concerns these files: keyState loads the    *)
(* configuration, auth.Update renames a new users file into place, whether *)
(* or not configuration and users file are still there, and syncs the      *)
(* directory.  It may fail or be killed at any point.                      *)

KeyLoads ==
    /\ key = "idle" /\ final[Config] # Free /\ ~crashed
    /\ key' = "loaded"
    /\ UNCHANGED <<at, undo, seen, over, final, temp, disk, whole, published, readOnly, crashed>>

KeyRenames ==
    /\ key = "loaded" /\ ~readOnly /\ ~crashed
    /\ Entry(Users, Foreign) /\ key' = "renamed"
    /\ UNCHANGED <<at, undo, seen, over, temp, whole, published, readOnly, crashed>>

KeySyncs ==
    /\ key = "renamed" /\ ~crashed
    /\ FsyncDir /\ key' = "idle"
    /\ UNCHANGED <<at, undo, seen, over, final, temp, whole, published, readOnly, crashed>>

KeyStops ==
    /\ key # "idle" /\ ~crashed
    /\ key' = "idle"
    /\ UNCHANGED <<at, undo, seen, over, final, temp, disk, whole, published, readOnly, crashed>>

-----------------------------------------------------------------------------
(* The environment *)

Killed(i) ==
    /\ over[i] = "no"
    /\ over' = [over EXCEPT ![i] = "killed"]
    /\ UNCHANGED <<at, undo, final, temp, disk, whole, published, rest>>

TurnsReadOnly ==
    /\ ~readOnly /\ ~crashed
    /\ readOnly' = TRUE
    /\ UNCHANGED <<at, undo, seen, over, final, temp, disk, whole, published, key, crashed>>

MachineCrash ==
    /\ ~crashed
    /\ crashed' = TRUE
    /\ \E p \in disk[1], u \in disk[Users], c \in disk[Config] : final' = <<p, u, c>>
    /\ disk' = [f \in Files |-> {final'[f]}]
    /\ over' = [i \in Inits |-> IF over[i] = "no" THEN "killed" ELSE over[i]]
    /\ key' = "idle"
    /\ UNCHANGED <<at, undo, seen, temp, whole, published, readOnly>>

SetupNext ==
    \/ \E i \in Inits :
          \/ Start(i) \/ Refuse(i)
          \/ Create(i) \/ Write(i) \/ Link(i) \/ Unlink(i) \/ SyncDir(i) \/ Done(i)
          \/ Fails(i) \/ Looks(i) \/ Removes(i) \/ RemovesTemp(i) \/ Undone(i) \/ Killed(i)
    \/ KeyLoads \/ KeyRenames \/ KeySyncs \/ KeyStops
    \/ TurnsReadOnly \/ MachineCrash

SetupSpec == SetupInit /\ [][SetupNext]_setupVars

SetupTypeOK ==
    /\ at \in [Inits -> 0..Len(Program) + 1] /\ undo \in [Inits -> 0..7]
    /\ over \in [Inits -> {"no", "done", "failed", "killed"}]
    /\ final \in [Files -> Entries] /\ disk \in [Files -> SUBSET Entries]
    /\ seen \in [Inits -> Entries]
    /\ key \in {"idle", "loaded", "renamed"}
    /\ temp \in [Inits -> SUBSET Files] /\ whole \in [Inits -> SUBSET Files]

-----------------------------------------------------------------------------
(***************************************************************************)
(* A configuration is published with what it needs (the D4 order of        *)
(* commitInitArtifacts): wherever an invocation fails, is killed or the    *)
(* machine stops, a configuration at its path comes with the pepper of the *)
(* same invocation, with a users file, and all of them whole.  Only a      *)
(* crash in the middle of a rollback may leave less.                       *)
(***************************************************************************)
ConfigIsUsable ==
    \A i \in Inits :
        final[Config] = i /\ ~(crashed /\ undo[i] # 0) =>
            final[1] = i /\ final[Users] \in {i, Foreign} /\ whole[i] = Files

(***************************************************************************)
(* All or nothing (rollbackCommitFiles): an invocation that reports        *)
(* failure leaves none of its files behind, one that reports success has   *)
(* published them all, and they survive a crash.                           *)
(***************************************************************************)
AllOrNothing ==
    \A i \in Inits :
        /\ over[i] = "failed" /\ ~readOnly /\ ~crashed =>
              temp[i] = {} /\ \A f \in Files : final[f] # i
        /\ over[i] = "done" =>
              temp[i] = {} /\ \A f \in Files : final[f] \in {i, Foreign}

(***************************************************************************)
(* Existing files are preserved (linkInDir, rollbackCommitFiles): no       *)
(* invocation replaces a name, and none removes one that another           *)
(* invocation made or that was there before.  A rollback removes a name    *)
(* only if its lstat found its own inode there; what it then unlinks is    *)
(* that inode, or the users file that a key command has put in its place   *)
(* since.                                                                  *)
(***************************************************************************)
OthersPreserved ==
    [][\A f \in Files :
          final'[f] # final[f] /\ ~crashed' =>
              \/ final[f] = Free
              \/ f = Users /\ final'[f] = Foreign /\ key' # key
              \/ \E i \in Inits :
                    /\ undo[i] = 4 - f /\ undo'[i] # undo[i] /\ seen[i] = i
                    /\ final'[f] = Free
                    /\ final[f] = i \/ (f = Users /\ final[f] = Foreign)
      ]_setupVars

(***************************************************************************)
(* The comment on commitFileIdentity: it is used "to roll back only the    *)
(* inodes this invocation created" (init.go:648-650), so a users file that *)
(* a key command has renamed into place stays.  It is false between the    *)
(* lstat of a rollback and its unlink.                                     *)
(***************************************************************************)
KeyFileStays == key = "renamed" /\ ~crashed => final[Users] = Foreign
=============================================================================
