------------------------------ MODULE MCStart ------------------------------
(***************************************************************************)
(* What setup, the installer, and a process that starts, do to names that  *)
(* others use.  They share no state, so a behaviour exercises one of them  *)
(* and the others stay as they began.                                      *)
(***************************************************************************)
EXTENDS Setup, Listener, Install, TLC

VARIABLE focus

Symmetry == Permutations(Inits) \union Permutations(Daemons) \union Permutations(Conns)

StartInit ==
    /\ SetupInit /\ ListenerInit /\ InstallInit
    /\ focus \in {"setup", "listener", "install"}
    /\ focus # "listener" => path = Vacant /\ mode = [d \in Daemons |-> "required"]
    /\ focus # "setup" => final[2] = Free
    /\ focus # "install" => account /\ dir = "root"
    /\ Cardinality({home[c] : c \in Conns}) = 1

StartNext ==
    \/ focus = "setup" /\ SetupNext /\ UNCHANGED <<listenerVars, installVars, focus>>
    \/ focus = "listener" /\ ListenerNext /\ UNCHANGED <<setupVars, installVars, focus>>
    \/ focus = "install" /\ InstallNext /\ UNCHANGED <<setupVars, listenerVars, focus>>

StartSpec == StartInit /\ [][StartNext]_<<setupVars, listenerVars, installVars, focus>>
=============================================================================
