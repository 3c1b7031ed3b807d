---------------------------- MODULE MCKeyLimits ----------------------------
(***************************************************************************)
(* The limits of one key: its concurrency bound and token bucket across    *)
(* reloads, and its token windows.  They share no state, so a behaviour    *)
(* exercises one of them and the other stays as it began.                  *)
(***************************************************************************)
EXTENDS MCIngress, MCQuota, TLC

VARIABLE focus

Symmetry == Permutations(Requests) \union Permutations(Slots)

KeyInit ==
    /\ Init /\ QuotaInit
    /\ focus \in {"ingress", "quota"}
    /\ focus = "ingress" => limits = Window(0, 0)
    /\ focus = "quota" => gens[1].limit = NewStore(Limit(2, 0, 0))

KeyNext ==
    \/ focus = "ingress" /\ Next /\ UNCHANGED <<quotaVars, focus>>
    \/ focus = "quota" /\ QuotaNext /\ UNCHANGED <<vars, focus>>

KeySpec == KeyInit /\ [][KeyNext]_<<vars, quotaVars, focus>>
=============================================================================
