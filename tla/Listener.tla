------------------------------ MODULE Listener ------------------------------
(***************************************************************************)
(* Processes that come and go on one Unix socket path, and the connections *)
(* each of them accepts (serveCmd, safeUnixListen, enforceSandbox and      *)
(* newHTTPServer of cmd/mellomting/serve.go).  A process is started while  *)
(* its predecessor may still be serving, stopping or gone without a trace; *)
(* the service manager starts one at a time (the guard of Inspect).        *)
(*                                                                         *)
(* path is what the socket's name refers to: the socket of a process, the  *)
(* socket of one that is long gone, something else, or nothing.            *)
(*                                                                         *)
(* A connection that its handler takes over (http.Hijacker) leaves the     *)
(* count of the ConnState hook and stays open.  committedWriter of         *)
(* internal/httpapi/server.go passes Hijack on, but no handler calls it:   *)
(* event streams are written through the response writer and stay counted, *)
(* whatever the comment in newHTTPServer says of them.  Hijacked is        *)
(* therefore a step of the hook that today's handlers never cause.         *)
(***************************************************************************)
EXTENDS Integers, FiniteSets

CONSTANTS
    Daemons,                  \* processes, each started once
    Conns,                    \* connections
    MaxConnections,           \* max_connections
    Modes,                    \* sandbox modes
    Vacant, Alien, Orphan     \* values of path: nothing, not a socket, a dead one

ASSUME ListenerAssumption ==
    /\ {Vacant, Alien, Orphan} \cap Daemons = {} /\ MaxConnections \in Nat \ {0}
    /\ IsFiniteSet(Conns)
    /\ Modes \subseteq {"disabled", "best-effort", "required"}

VARIABLES
    path, listening,   \* the name; the processes whose socket accepts
    stage, mode,       \* where each process is; its sandbox mode
    active,            \* the counter of each server
    conn, home         \* each connection: its state and its server

listenerVars == <<path, listening, stage, mode, active, conn, home>>

ListenerInit ==
    /\ path \in {Vacant, Alien, Orphan} /\ listening = {}
    /\ stage = [d \in Daemons |-> "off"]
    /\ \E m \in Modes : mode = [d \in Daemons |-> m]
    /\ active = [d \in Daemons |-> 0]
    /\ conn = [c \in Conns |-> "none"] /\ home \in [Conns -> Daemons]

Goes(d, s) == stage' = [stage EXCEPT ![d] = s]
Live(p) == p \in listening
Binding(d) == stage[d] \in {"dial", "remove", "bind", "listen", "chmod"}

-----------------------------------------------------------------------------
(* safeUnixListen *)

\* Lstat: only a socket may be in the way.
Inspect(d) ==
    /\ stage[d] = "off" /\ \A e \in Daemons : ~Binding(e)
    /\ Goes(d, CASE path = Vacant -> "bind" [] path = Alien -> "gone" [] OTHER -> "dial")
    /\ UNCHANGED <<path, listening, mode, active, conn, home>>

\* isSocketLive: a live one is not stolen.
Dial(d) ==
    /\ stage[d] = "dial"
    /\ Goes(d, IF Live(path) THEN "gone" ELSE "remove")
    /\ UNCHANGED <<path, listening, mode, active, conn, home>>

\* What is at the path by now; a name that has gone is an error.
Remove(d) ==
    /\ stage[d] = "remove"
    /\ Goes(d, IF path = Vacant THEN "gone" ELSE "bind")
    /\ path' = Vacant
    /\ UNCHANGED <<listening, mode, active, conn, home>>

\* bind makes the name, listen makes it answer.
Bind(d) ==
    /\ stage[d] = "bind"
    /\ \/ path = Vacant /\ path' = d /\ Goes(d, "listen")
       \/ path # Vacant /\ UNCHANGED path /\ Goes(d, "gone")
    /\ UNCHANGED <<listening, mode, active, conn, home>>

Listen(d) ==
    /\ stage[d] = "listen"
    /\ listening' = listening \union {d}
    /\ Goes(d, "chmod")
    /\ UNCHANGED <<path, mode, active, conn, home>>

\* By name: it fails when the name has gone, and may fail otherwise.
Chmod(d) ==
    /\ stage[d] = "chmod"
    /\ \/ path # Vacant /\ Goes(d, "confine")
       \/ Goes(d, "close")
    /\ UNCHANGED <<path, listening, mode, active, conn, home>>

-----------------------------------------------------------------------------
(* serveCmd *)

\* enforceSandbox: without a policy there is no start; one that cannot be
\* enforced is fatal in required mode and only reported in best-effort mode.
Sandboxed(d, hasPolicy, enforced) ==
    mode[d] = "disabled" \/ (hasPolicy /\ (enforced \/ mode[d] = "best-effort"))

\* The last steps before serving: the admin socket and the sandbox.  If one
\* fails, the listener is closed.
Confine(d) ==
    /\ stage[d] = "confine"
    /\ \E adminBound, hasPolicy, enforced \in BOOLEAN :
          Goes(d, IF adminBound /\ Sandboxed(d, hasPolicy, enforced) THEN "serving" ELSE "close")
    /\ UNCHANGED <<path, listening, mode, active, conn, home>>

\* A signal: Shutdown closes the listener first.
Stop(d) ==
    /\ stage[d] = "serving"
    /\ Goes(d, "close")
    /\ UNCHANGED <<path, listening, mode, active, conn, home>>

\* UnixListener.Close unlinks the name, whatever it refers to by now, ...
CloseUnlinks(d) ==
    /\ stage[d] = "close"
    /\ path' = Vacant
    /\ Goes(d, "closing")
    /\ UNCHANGED <<listening, mode, active, conn, home>>

\* ... and then closes the socket.
Closes(d) ==
    /\ stage[d] = "closing"
    /\ listening' = listening \ {d}
    /\ Goes(d, "draining")
    /\ UNCHANGED <<path, mode, active, conn, home>>

\* The connections of a process go with it.
Dropped(d) == [c \in Conns |-> IF home[c] = d THEN "none" ELSE conn[c]]

\* Mutant: a deferred removal of the path.
ReturnsRemoves(d) ==
    /\ stage[d] = "draining"
    /\ Goes(d, "gone") /\ conn' = Dropped(d) /\ active' = [active EXCEPT ![d] = 0]
    /\ path' = Vacant
    /\ UNCHANGED <<listening, mode, home>>

\* The grace period later.
Returns(d) ==
    /\ stage[d] = "draining"
    /\ Goes(d, "gone") /\ conn' = Dropped(d) /\ active' = [active EXCEPT ![d] = 0]
    /\ UNCHANGED <<path, listening, mode, home>>

\* The process is killed, and leaves the name behind.
Dies(d) ==
    /\ stage[d] \notin {"off", "gone"}
    /\ Goes(d, "gone") /\ listening' = listening \ {d}
    /\ conn' = Dropped(d) /\ active' = [active EXCEPT ![d] = 0]
    /\ UNCHANGED <<path, mode, home>>

-----------------------------------------------------------------------------
(* newHTTPServer: the ConnState hook *)

\* Mutant: a refused connection gives its place back at once.
AcceptCompensates(c, d) ==
    /\ conn[c] = "none" /\ stage[d] = "serving"
    /\ LET full == active[d] + 1 > MaxConnections
       IN /\ active' = IF full THEN active ELSE [active EXCEPT ![d] = @ + 1]
          /\ conn' = [conn EXCEPT ![c] = IF full THEN "refused" ELSE "open"]
    /\ home' = [home EXCEPT ![c] = d]
    /\ UNCHANGED <<path, listening, stage, mode>>

\* StateNew: counted in any case, and closed when that is too many.
Accept(c, d) ==
    /\ conn[c] = "none" /\ stage[d] = "serving"
    /\ active' = [active EXCEPT ![d] = @ + 1]
    /\ conn' = [conn EXCEPT ![c] = IF active'[d] > MaxConnections THEN "refused" ELSE "open"]
    /\ home' = [home EXCEPT ![c] = d]
    /\ UNCHANGED <<path, listening, stage, mode>>

\* StateHijacked: the handler keeps the connection, the hook forgets it.
Hijacked(c) ==
    /\ conn[c] = "open"
    /\ conn' = [conn EXCEPT ![c] = "hijacked"]
    /\ active' = [active EXCEPT ![home[c]] = @ - 1]
    /\ UNCHANGED <<path, listening, stage, mode, home>>

\* StateClosed, also for a refused connection; net/http reports no state of
\* one that was taken over.
ConnEnds(c) ==
    /\ conn[c] # "none"
    /\ conn' = [conn EXCEPT ![c] = "none"]
    /\ active' = IF conn[c] = "hijacked" THEN active ELSE [active EXCEPT ![home[c]] = @ - 1]
    /\ UNCHANGED <<path, listening, stage, mode, home>>

ListenerNext ==
    \/ \E d \in Daemons :
          \/ Inspect(d) \/ Dial(d) \/ Remove(d) \/ Bind(d) \/ Listen(d) \/ Chmod(d)
          \/ Confine(d) \/ Stop(d) \/ CloseUnlinks(d) \/ Closes(d) \/ Returns(d) \/ Dies(d)
          \/ \E c \in Conns : Accept(c, d)
    \/ \E c \in Conns : Hijacked(c) \/ ConnEnds(c)

ListenerSpec == ListenerInit /\ [][ListenerNext]_listenerVars

-----------------------------------------------------------------------------
(***************************************************************************)
(* A process that serves is reachable (safeUnixListen, and the comment on  *)
(* the missing os.Remove in serveCmd): neither a process that starts, nor  *)
(* one that stops and outlives its listener, takes the name of another.    *)
(***************************************************************************)
ServingIsReachable ==
    \A d \in Daemons : stage[d] \in {"confine", "serving"} => path = d /\ Live(path)

\* The connections of a process that the hook has in its count, and those of
\* them that are served.
Counted(d) == {c \in Conns : conn[c] \in {"open", "refused"} /\ home[c] = d}
Served(d) == {c \in Conns : conn[c] = "open" /\ home[c] = d}

(***************************************************************************)
(* The connection cap does not drift (newHTTPServer): whatever is accepted *)
(* and refused, taken over and closed, the counter is the number of        *)
(* connections the server has in hand, refused ones until they are closed  *)
(* and those a handler took over no longer, and of these it serves at most *)
(* MaxConnections.                                                         *)
(***************************************************************************)
ConnectionsCapped ==
    \A d \in Daemons :
        active[d] = Cardinality(Counted(d)) /\ Cardinality(Served(d)) <= MaxConnections
=============================================================================
