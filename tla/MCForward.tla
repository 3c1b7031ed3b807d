----------------------------- MODULE MCForward -----------------------------
(***************************************************************************)
(* Forwarding: the loop of one request over its attempts, and the pool of  *)
(* slots in which each attempt waits for its backend.  To dispatch, a call *)
(* of Forward is one step with one of its outcomes, so a behaviour         *)
(* exercises one of them and the other stays at rest.                      *)
(*                                                                         *)
(* Requests meet only in the health of the backends, which OthersFail and  *)
(* CooldownEnds change at any time: one request that dispatches stands for *)
(* each of any number.                                                     *)
(***************************************************************************)
EXTENDS Admission, Dispatch

VARIABLE focus

ForwardInit == Init /\ DispatchInit /\ focus \in {"admission", "dispatch"}

ForwardNext ==
    \/ focus = "admission" /\ Next /\ UNCHANGED <<dispatchVars, focus>>
    \/ focus = "dispatch" /\ DispatchNext /\ UNCHANGED <<vars, focus>>

\* Neither has anything to do while it is at rest, so that both kinds of
\* fairness can be asked of every behaviour.
ForwardSpec ==
    /\ ForwardInit /\ [][ForwardNext]_<<vars, dispatchVars, focus>>
    /\ GoroutinesRun /\ HandlersRun
=============================================================================
