---------------------------- MODULE MCPlacement ----------------------------
(***************************************************************************)
(* The two places a request's backend comes from: the router, and the      *)
(* table of response owners.  They share no state, so a behaviour          *)
(* exercises one of them and the other stays as it started.                *)
(***************************************************************************)
EXTENDS Router, Affinity, TLC

VARIABLE focus

Weights == <<1, 2, 1>>

Symmetry ==
    Permutations(Users) \union Permutations(Resps) \union Permutations(Calls)
        \union Permutations(Models)

Init ==
    /\ RouterInit /\ AffinityInit
    /\ focus \in {"router", "affinity"}
    /\ focus = "router" => acl = [u \in Users |-> Models]
    /\ focus = "affinity" => strategy = "single" /\ streak[1] = 0

Next ==
    \/ focus = "router" /\ RouterNext /\ UNCHANGED <<affinityVars, focus>>
    \/ focus = "affinity" /\ AffinityNext /\ UNCHANGED <<routerVars, focus>>

Spec == Init /\ [][Next]_<<routerVars, affinityVars, focus>>
=============================================================================
