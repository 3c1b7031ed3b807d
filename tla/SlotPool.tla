------------------------------ MODULE SlotPool ------------------------------
(***************************************************************************)
(* What the admission pool of one inference server promises (PLAN section  *)
(* 22, stated above Admission and acquire in internal/backend/backend.go): *)
(* at most MaxConcurrency requests are being served, at most QueueSize are *)
(* blocked waiting, a free slot is never left idle while a request is      *)
(* blocked, a newcomer never overtakes a blocked request, and draining     *)
(* sends every blocked request away for good.                              *)
(*                                                                         *)
(* Nothing here says how the channels do it: Admission implements this     *)
(* module, with the set of slot holders as busy and the set of goroutines  *)
(* blocked in acquire's last select as waiting.                            *)
(***************************************************************************)
EXTENDS Naturals, FiniteSets

CONSTANTS Requests, MaxConcurrency, QueueSize

VARIABLES busy, waiting, draining

poolVars == <<busy, waiting, draining>>

PoolInit ==
    /\ busy = {}
    /\ waiting = {}
    /\ draining = FALSE

\* A slot is free and nobody is blocked: the request is served at once.
Enter(r) ==
    /\ r \notin busy \cup waiting
    /\ Cardinality(busy) < MaxConcurrency
    /\ waiting = {}
    /\ busy' = busy \cup {r}
    /\ UNCHANGED <<waiting, draining>>

\* Every slot is taken and the waiting room has a place.
Wait(r) ==
    /\ ~draining
    /\ r \notin busy \cup waiting
    /\ Cardinality(busy) = MaxConcurrency
    /\ Cardinality(waiting) < QueueSize
    /\ waiting' = waiting \cup {r}
    /\ UNCHANGED <<busy, draining>>

\* A blocked request gives up: its client left or its wait timed out.
GiveUp(r) ==
    /\ r \in waiting
    /\ waiting' = waiting \ {r}
    /\ UNCHANGED <<busy, draining>>

\* A served request returns its slot; a blocked request, if there is one,
\* has it in the same step.
Return(r) ==
    /\ r \in busy
    /\ \/ /\ waiting = {}
          /\ busy' = busy \ {r}
          /\ UNCHANGED waiting
       \/ \E w \in waiting :
             /\ busy' = (busy \ {r}) \cup {w}
             /\ waiting' = waiting \ {w}
    /\ UNCHANGED draining

\* Shutdown: the waiting room is emptied and stays empty.
Dismiss ==
    /\ ~draining
    /\ draining' = TRUE
    /\ waiting' = {}
    /\ UNCHANGED busy

PoolNext ==
    \/ \E r \in Requests : Enter(r) \/ Wait(r) \/ GiveUp(r) \/ Return(r)
    \/ Dismiss

PoolSpec == PoolInit /\ [][PoolNext]_poolVars
=============================================================================
