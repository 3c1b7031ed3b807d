------------------------------- MODULE Install -------------------------------
(***************************************************************************)
(* mellomting install --systemd: Provision.Run of internal/systemd/        *)
(* systemd.go, which creates what the service needs and is missing, and    *)
(* may be run again after it failed half way or on a host that was set up  *)
(* by other means.  Every step may be the last one: a call fails or the    *)
(* command is killed.  Between runs the operator edits or removes the      *)
(* configuration, runs init, creates keys, or starts all over.             *)
(*                                                                         *)
(* An artifact is at its default path: its contents (0 if there is none, a *)
(* number for a pepper, 1 for the others) and whether the service account  *)
(* may read it.  Owner and mode appear only as that.                       *)
(***************************************************************************)
EXTENDS Integers, Sequences

CONSTANT MaxPeppers  \* bound on the peppers ever generated

ASSUME InstallAssumption == MaxPeppers \in Nat \ {0}

Auth == {"users", "pepper"}
Artifacts == {"config"} \union Auth

\* Where a configuration says its auth files are: at the default path by name
\* or because it says nothing, or elsewhere; one that cannot be decoded says
\* nothing of use.
References == [Auth -> {"named", "omitted", "elsewhere"}] \union [Auth -> {"unparsable"}]
Named == [f \in Auth |-> "named"]

VARIABLES
    step,     \* of Run; off when it does not run
    todo,     \* the artifacts Run has to ensure, the present one first
    made,     \* configCreated
    account,  \* the service account exists
    dir,      \* group of the configuration directory: absent, root or service
    file,     \* the artifacts
    names,    \* what the configuration says of the auth files
    peppers,  \* peppers generated so far
    want,     \* history: what the last run found it had to provide
    installed, \* history: it succeeded, and nothing was done by hand since
    hashed    \* history: the pepper the keys in the users file are hashed with

installVars ==
    <<step, todo, made, account, dir, file, names, peppers, want, installed, hashed>>

Present(f) == file[f].is # 0

InstallInit ==
    /\ step = "off" /\ todo = <<>> /\ made = FALSE
    /\ account \in BOOLEAN
    /\ dir \in {"absent", "root"}
    /\ file = [f \in Artifacts |-> [is |-> 0, read |-> FALSE]]
    /\ names = Named /\ peppers = 0
    /\ want = {} /\ installed = FALSE /\ hashed = 0

\* Contents for a new file.
Contents(f) == IF f = "pepper" THEN peppers + 1 ELSE 1

-----------------------------------------------------------------------------
(* Provision.Run *)

\* The preflight passed; if it does not, nothing is changed.
Provision ==
    /\ step = "off" /\ peppers < MaxPeppers
    /\ step' = "account" /\ todo' = <<"config">> /\ made' = FALSE
    /\ installed' = FALSE /\ want' = {}
    /\ UNCHANGED <<account, dir, file, names, peppers, hashed>>

EnsureAccount ==
    /\ step = "account"
    /\ account' = TRUE /\ step' = "mkdir"
    /\ UNCHANGED <<todo, made, dir, file, names, peppers, want, installed, hashed>>

\* ensureDir: an existing directory is adopted, then given to the service.
MakeDir ==
    /\ step = "mkdir"
    /\ dir' = IF dir = "absent" THEN "root" ELSE dir
    /\ step' = "chown"
    /\ UNCHANGED <<todo, made, account, file, names, peppers, want, installed, hashed>>

OwnDir ==
    /\ step = "chown"
    /\ dir' = "service" /\ step' = "ensure"
    /\ UNCHANGED <<todo, made, account, file, names, peppers, want, installed, hashed>>

\* ensureAuthArtifacts: both for a configuration this run has written; of one it
\* found, what it names, and nothing if it cannot be decoded.
AuthArtifacts(created) ==
    LET named(f) == IF names[f] = "named" THEN <<f>> ELSE <<>>
    IN  IF created THEN <<"pepper", "users">> ELSE named("users") \o named("pepper")

\* ensureFile returns for f.
Ensured(f) ==
    /\ todo' = IF f = "config" THEN AuthArtifacts(made) ELSE Tail(todo)
    /\ want' = IF f = "config" THEN {f} \union {todo'[i] : i \in DOMAIN todo'} ELSE want
    /\ step' = IF todo' = <<>> THEN "units" ELSE "ensure"

\* Absent: written under its name, as a file of root; the scaffold names both
\* default paths.
WriteArtifact ==
    /\ step = "ensure" /\ ~Present(Head(todo))
    /\ LET f == Head(todo)
       IN /\ file' = [file EXCEPT ![f] = [is |-> Contents(f), read |-> FALSE]]
          /\ peppers' = IF f = "pepper" THEN peppers + 1 ELSE peppers
          /\ made' = (made \/ f = "config")
          /\ names' = IF f = "config" THEN Named ELSE names
    /\ step' = "own"
    /\ UNCHANGED <<todo, account, dir, want, installed, hashed>>

\* ... then given to the service.
OwnArtifact ==
    /\ step = "own"
    /\ file' = [file EXCEPT ![Head(todo)].read = TRUE]
    /\ Ensured(Head(todo))
    /\ UNCHANGED <<made, account, dir, names, peppers, installed, hashed>>

\* Mutant: what is there is left alone.
FoundLeftAlone ==
    /\ step = "ensure" /\ Present(Head(todo))
    /\ Ensured(Head(todo))
    /\ UNCHANGED <<made, account, dir, file, names, peppers, installed, hashed>>

\* Present: reassertOwnership, and the contents stay.
ReassertOwnership ==
    /\ step = "ensure" /\ Present(Head(todo))
    /\ file' = [file EXCEPT ![Head(todo)].read = TRUE]
    /\ Ensured(Head(todo))
    /\ UNCHANGED <<made, account, dir, names, peppers, installed, hashed>>

\* Unit, logrotate, daemon-reload; Run reports success.
InstallUnits ==
    /\ step = "units"
    /\ step' = "off" /\ installed' = TRUE
    /\ UNCHANGED <<todo, made, account, dir, file, names, peppers, want, hashed>>

RunFails ==
    /\ step # "off"
    /\ step' = "off"
    /\ UNCHANGED <<todo, made, account, dir, file, names, peppers, want, installed, hashed>>

-----------------------------------------------------------------------------
(* Between runs *)

\* Whether the service may read f after ReplacePreservingOwner: a file that was
\* there keeps its owner, a new one takes the group of a directory that was set
\* up for a service.
Replaced(f) == IF Present(f) THEN file[f].read ELSE dir = "service"

\* key create, for a configuration with both files at the default paths.
KeyCreate ==
    /\ step = "off" /\ Present("config") /\ Present("pepper")
    /\ \A f \in Auth : names[f] \in {"named", "omitted"}
    /\ file' = [file EXCEPT !["users"] = [is |-> 1, read |-> Replaced("users")]]
    /\ hashed' = file["pepper"].is
    /\ UNCHANGED <<step, todo, made, account, dir, names, peppers, want, installed>>

\* init, as one step: no artifact may exist, and all follow the directory.
InitCommits ==
    /\ step = "off" /\ dir # "absent" /\ peppers < MaxPeppers
    /\ \A f \in Artifacts : ~Present(f)
    /\ file' = [f \in Artifacts |-> [is |-> Contents(f), read |-> dir = "service"]]
    /\ names' = Named /\ peppers' = peppers + 1
    /\ UNCHANGED <<step, todo, made, account, dir, want, installed, hashed>>

\* By hand: the configuration is written or removed, or everything is.
EditConfig ==
    /\ step = "off" /\ dir # "absent"
    /\ \E r \in IF Present("config") THEN {file["config"].read} ELSE BOOLEAN :
          file' = [file EXCEPT !["config"] = [is |-> 1, read |-> r]]
    /\ names' \in References
    /\ installed' = FALSE
    /\ UNCHANGED <<step, todo, made, account, dir, peppers, want, hashed>>

RemoveConfig ==
    /\ step = "off" /\ Present("config")
    /\ file' = [file EXCEPT !["config"] = [is |-> 0, read |-> FALSE]]
    /\ installed' = FALSE
    /\ UNCHANGED <<step, todo, made, account, dir, names, peppers, want, hashed>>

StartOver ==
    /\ step = "off" /\ dir # "absent"
    /\ dir' = "absent" /\ file' = [f \in Artifacts |-> [is |-> 0, read |-> FALSE]]
    /\ hashed' = 0 /\ installed' = FALSE
    /\ UNCHANGED <<step, todo, made, account, names, peppers, want>>

InstallNext ==
    \/ Provision \/ EnsureAccount \/ MakeDir \/ OwnDir
    \/ WriteArtifact \/ OwnArtifact \/ ReassertOwnership \/ InstallUnits \/ RunFails
    \/ KeyCreate \/ InitCommits \/ EditConfig \/ RemoveConfig \/ StartOver

InstallSpec == InstallInit /\ [][InstallNext]_installVars

-----------------------------------------------------------------------------
(***************************************************************************)
(* install may be run at any time (ensureFile, ensureAuthArtifacts):       *)
(* however often it failed before and whatever made the files it finds, a  *)
(* run that reports success leaves every artifact its configuration names  *)
(* there and readable by the service, and later key commands keep it so;   *)
(* and no run replaces the pepper that keys were hashed with, which would  *)
(* make all of them invalid.                                               *)
(***************************************************************************)
InstallSuffices ==
    /\ installed => /\ account /\ dir = "service"
                    /\ \A f \in want : Present(f) /\ file[f].read
    /\ hashed # 0 => file["pepper"].is = hashed
=============================================================================
