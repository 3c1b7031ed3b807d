----------------------------- MODULE MCIngress -----------------------------
(***************************************************************************)
(* Small instances of Ingress.                                             *)
(***************************************************************************)
EXTENDS Ingress, TLC

Limit(c, r, b) == [conc |-> c, rps |-> r, burst |-> b]
SomeLimits == {Limit(2, 0, 0), Limit(1, 1, 0), Limit(0, 1, 1)}
OneLimit == {Limit(1, 0, 0)}
=============================================================================
