------------------------------ MODULE MCQuota ------------------------------
(***************************************************************************)
(* Key settings with either window, both or none, below a reservation, at  *)
(* it and above it.  The largest overshoot stays below saturation, which   *)
(* the key without limits reaches.                                         *)
(***************************************************************************)
EXTENDS Quota

Window(h, d) == [hour |-> h, day |-> d]
MCWindowLimits == {Window(1, 0), Window(2, 0), Window(0, 3), Window(2, 3), Window(0, 0)}
OneWindow == {Window(2, 0)}
=============================================================================
