---------------------------- MODULE StartProofs ----------------------------
(***************************************************************************)
(* Proofs about Listener, Install and Setup: any number of processes on a  *)
(* socket, of connections, of runs of the installer and of invocations of  *)
(* init.                                                                   *)
(***************************************************************************)
EXTENDS Setup, Listener, Install, FiniteSetTheorems, SequenceTheorems, TLAPS

-----------------------------------------------------------------------------
(* Listener: who owns the name.                                            *)

StagesT == {"off", "dial", "remove", "bind", "listen", "chmod", "confine", "serving", "close",
            "closing", "draining", "gone"}

\* A process from its bind to its unlink.
Owns(d) == stage[d] \in {"listen", "chmod", "confine", "serving", "close"}

\* One process at a time is on its way to its socket, whoever owns the name is
\* what the name refers to, and a process that is about to remove the name has
\* found that nobody does.
NameInv ==
    /\ stage \in [Daemons -> StagesT]
    /\ \A d, e \in Daemons : Binding(d) /\ Binding(e) => d = e
    /\ \A d \in Daemons : Owns(d) => path = d /\ (stage[d] # "listen" => d \in listening)
    /\ \A d, e \in Daemons : stage[d] = "remove" => ~Owns(e)

\* What one move of a process does to the stages.
LEMMA MoveFacts ==
    ASSUME stage \in [Daemons -> StagesT], NEW d \in Daemons, NEW s \in StagesT, Goes(d, s)
    PROVE  stage' \in [Daemons -> StagesT] /\ stage'[d] = s
           /\ \A e \in Daemons : e # d => stage'[e] = stage[e]
  BY DEF Goes

\* Every step keeps the name.
LEMMA NameNext == NameInv /\ [ListenerNext]_listenerVars => NameInv'
<1> SUFFICES ASSUME NameInv, [ListenerNext]_listenerVars PROVE NameInv'
  OBVIOUS
<1> USE ListenerAssumption
<1>0. stage \in [Daemons -> StagesT] BY DEF NameInv
<1>1. ASSUME NEW d \in Daemons, Inspect(d) PROVE NameInv'
  <2>1. PICK s \in {"bind", "gone", "dial"} : Goes(d, s)
    BY <1>1 DEF Inspect
  <2>2. /\ stage' \in [Daemons -> StagesT] /\ stage'[d] = s
        /\ \A e \in Daemons : e # d => stage'[e] = stage[e]
    BY <1>0, <2>1, MoveFacts DEF StagesT
  <2>3. UNCHANGED <<path, listening>> /\ \A e \in Daemons : ~Binding(e)
    BY <1>1 DEF Inspect
  <2> QED BY <2>2, <2>3 DEF NameInv, Binding, Owns
<1>2. ASSUME NEW d \in Daemons, Dial(d) PROVE NameInv'
  <2>1. PICK s \in {"gone", "remove"} : Goes(d, s) /\ (s = "remove" => ~Live(path))
    BY <1>2 DEF Dial
  <2>2. /\ stage' \in [Daemons -> StagesT] /\ stage'[d] = s
        /\ \A e \in Daemons : e # d => stage'[e] = stage[e]
    BY <1>0, <2>1, MoveFacts DEF StagesT
  <2>3. UNCHANGED <<path, listening>> /\ stage[d] = "dial"
    BY <1>2 DEF Dial
  <2>4. \A e \in Daemons : s = "remove" => ~Owns(e)
    BY <2>1, <2>3 DEF NameInv, Binding, Owns, Live
  <2> QED BY <2>2, <2>3, <2>4 DEF NameInv, Binding, Owns
<1>3. ASSUME NEW d \in Daemons, Remove(d) PROVE NameInv'
  <2>1. PICK s \in {"gone", "bind"} : Goes(d, s)
    BY <1>3 DEF Remove
  <2>2. /\ stage' \in [Daemons -> StagesT] /\ stage'[d] = s
        /\ \A e \in Daemons : e # d => stage'[e] = stage[e]
    BY <1>0, <2>1, MoveFacts DEF StagesT
  <2>3. UNCHANGED listening /\ stage[d] = "remove"
    BY <1>3 DEF Remove
  <2> QED BY <2>2, <2>3 DEF NameInv, Binding, Owns
<1>4. ASSUME NEW d \in Daemons, Bind(d) PROVE NameInv'
  <2>1. PICK s \in {"gone", "listen"} :
            /\ Goes(d, s)
            /\ s = "listen" => path = Vacant /\ path' = d
            /\ s = "gone" => UNCHANGED path
    BY <1>4 DEF Bind
  <2>2. /\ stage' \in [Daemons -> StagesT] /\ stage'[d] = s
        /\ \A e \in Daemons : e # d => stage'[e] = stage[e]
    BY <1>0, <2>1, MoveFacts DEF StagesT
  <2>3. UNCHANGED listening /\ stage[d] = "bind"
    BY <1>4 DEF Bind
  <2>4. \A e \in Daemons : s = "listen" => ~Owns(e)
    BY <2>1 DEF NameInv
  <2> QED BY <2>1, <2>2, <2>3, <2>4 DEF NameInv, Binding, Owns
<1>5. ASSUME NEW d \in Daemons, Listen(d) PROVE NameInv'
  <2>1. Goes(d, "chmod") /\ stage[d] = "listen" /\ listening' = listening \union {d}
        /\ UNCHANGED path
    BY <1>5 DEF Listen
  <2>2. /\ stage' \in [Daemons -> StagesT] /\ stage'[d] = "chmod"
        /\ \A e \in Daemons : e # d => stage'[e] = stage[e]
    BY <1>0, <2>1, MoveFacts DEF StagesT
  <2> QED BY <2>1, <2>2 DEF NameInv, Binding, Owns
<1>6. ASSUME NEW d \in Daemons, Chmod(d) \/ Confine(d) \/ Stop(d) PROVE NameInv'
  <2>1. PICK s \in {"confine", "serving", "close"} : Goes(d, s)
    BY <1>6 DEF Chmod, Confine, Stop
  <2>2. /\ stage' \in [Daemons -> StagesT] /\ stage'[d] = s
        /\ \A e \in Daemons : e # d => stage'[e] = stage[e]
    BY <1>0, <2>1, MoveFacts DEF StagesT
  <2>3. UNCHANGED <<path, listening>> /\ stage[d] \in {"chmod", "confine", "serving"}
    BY <1>6 DEF Chmod, Confine, Stop
  <2> QED BY <2>2, <2>3 DEF NameInv, Binding, Owns
<1>7. ASSUME NEW d \in Daemons, CloseUnlinks(d) PROVE NameInv'
  <2>1. Goes(d, "closing") /\ stage[d] = "close" /\ UNCHANGED listening
    BY <1>7 DEF CloseUnlinks
  <2>2. /\ stage' \in [Daemons -> StagesT] /\ stage'[d] = "closing"
        /\ \A e \in Daemons : e # d => stage'[e] = stage[e]
    BY <1>0, <2>1, MoveFacts DEF StagesT
  <2>3. \A e \in Daemons : Owns(e) => e = d
    BY <2>1 DEF NameInv, Owns
  <2> QED BY <2>1, <2>2, <2>3 DEF NameInv, Binding, Owns
<1>8. ASSUME NEW d \in Daemons, Closes(d) \/ Returns(d) \/ Dies(d) PROVE NameInv'
  <2>1. PICK s \in {"draining", "gone"} : Goes(d, s)
    BY <1>8 DEF Closes, Returns, Dies
  <2>2. /\ stage' \in [Daemons -> StagesT] /\ stage'[d] = s
        /\ \A e \in Daemons : e # d => stage'[e] = stage[e]
    BY <1>0, <2>1, MoveFacts DEF StagesT
  <2>3. UNCHANGED path /\ \A e \in Daemons : e # d /\ e \in listening => e \in listening'
    BY <1>8 DEF Closes, Returns, Dies
  <2> QED BY <2>2, <2>3 DEF NameInv, Binding, Owns
<1>9. ASSUME UNCHANGED <<path, listening, stage>> PROVE NameInv'
  BY <1>9 DEF NameInv, Binding, Owns
<1>10. ASSUME NEW c \in Conns, Hijacked(c) \/ ConnEnds(c) \/ \E d \in Daemons : Accept(c, d)
       PROVE  NameInv'
  BY <1>9, <1>10 DEF Hijacked, ConnEnds, Accept
<1>11. CASE UNCHANGED listenerVars
  BY <1>9, <1>11 DEF listenerVars
<1> QED BY <1>1, <1>2, <1>3, <1>4, <1>5, <1>6, <1>7, <1>8, <1>10, <1>11 DEF ListenerNext

(***************************************************************************)
(* The name of the socket, for any number of processes that start, stop    *)
(* and die (safeUnixListen, UnixListener.Close).                           *)
(***************************************************************************)
THEOREM NameInductive == ListenerSpec => []NameInv
<1>1. ListenerInit => NameInv
  BY ListenerAssumption DEF ListenerInit, NameInv, Binding, Owns, StagesT
<1> QED BY <1>1, NameNext, PTL DEF ListenerSpec

(***************************************************************************)
(* Whoever serves is who the name refers to, and it answers.               *)
(***************************************************************************)
THEOREM ServersAreReachable == ListenerSpec => []ServingIsReachable
<1>1. NameInv => ServingIsReachable
  BY DEF NameInv, Owns, ServingIsReachable, Live
<1> QED BY <1>1, NameInductive, PTL

ConnStates == {"none", "open", "refused", "hijacked"}

ConnInv ==
    /\ conn \in [Conns -> ConnStates] /\ home \in [Conns -> Daemons]
    /\ active \in [Daemons -> Nat]
    /\ \A d \in Daemons : /\ active[d] = Cardinality(Counted(d))
                          /\ Cardinality(Served(d)) <= MaxConnections

\* Sets of connections are finite.
LEMMA ConnSets ==
    ASSUME NEW S \in SUBSET Conns
    PROVE  /\ IsFiniteSet(S) /\ Cardinality(S) \in Nat
           /\ \A T \in SUBSET S : IsFiniteSet(T) /\ Cardinality(T) \in Nat
                                  /\ Cardinality(T) <= Cardinality(S)
           /\ \A c \in Conns \ S : Cardinality(S \union {c}) = Cardinality(S) + 1
           /\ \A c \in S : Cardinality(S \ {c}) = Cardinality(S) - 1
<1>1. IsFiniteSet(S)
  BY ListenerAssumption, FS_Subset
<1>2. Cardinality(S) \in Nat
  BY <1>1, FS_CardinalityType
<1>3. \A T \in SUBSET S : IsFiniteSet(T) /\ Cardinality(T) <= Cardinality(S)
  BY <1>1, FS_Subset
<1>4. \A T \in SUBSET S : Cardinality(T) \in Nat
  BY <1>3, FS_CardinalityType
<1>5. \A c \in Conns \ S : Cardinality(S \union {c}) = Cardinality(S) + 1
  BY <1>1, FS_AddElement
<1>6. \A c \in S : Cardinality(S \ {c}) = Cardinality(S) - 1
  BY <1>1, FS_RemoveElement
<1> QED BY <1>1, <1>2, <1>3, <1>4, <1>5, <1>6

\* A step that leaves the counted connections of e alone and serves no more of
\* them keeps the books of e.
LEMMA SameBooks ==
    ASSUME ConnInv, NEW e \in Daemons, Counted(e)' = Counted(e), Served(e)' \subseteq Served(e),
           active'[e] = active[e]
    PROVE  active'[e] = Cardinality(Counted(e)') /\ Cardinality(Served(e)') <= MaxConnections
<1>1. Served(e) \in SUBSET Conns BY DEF Served
<1>2. Cardinality(Served(e)') \in Nat /\ Cardinality(Served(e)) \in Nat
      /\ Cardinality(Served(e)') <= Cardinality(Served(e))
  BY <1>1, ConnSets
<1> QED BY <1>2, ListenerAssumption DEF ConnInv

\* Every step keeps the count.
LEMMA ConnNext == ConnInv /\ [ListenerNext]_listenerVars => ConnInv'
<1> SUFFICES ASSUME ConnInv, [ListenerNext]_listenerVars PROVE ConnInv'
  OBVIOUS
<1>0. /\ conn \in [Conns -> ConnStates] /\ home \in [Conns -> Daemons]
      /\ active \in [Daemons -> Nat]
  BY DEF ConnInv
<1> USE ListenerAssumption DEF ConnStates
<1>1. ASSUME NEW c \in Conns, NEW d \in Daemons, Accept(c, d) PROVE ConnInv'
  <2>1. PICK s \in {"open", "refused"} :
            /\ conn[c] = "none" /\ conn' = [conn EXCEPT ![c] = s]
            /\ home' = [home EXCEPT ![c] = d] /\ active' = [active EXCEPT ![d] = @ + 1]
            /\ s = "open" => active'[d] <= MaxConnections
    <3>1. active' \in [Daemons -> Nat]
      BY <1>0, <1>1 DEF Accept
    <3>2. active'[d] \in Nat BY <3>1
    <3>3. CASE active'[d] > MaxConnections
      BY <1>1, <3>3 DEF Accept
    <3>4. CASE ~(active'[d] > MaxConnections)
      <4>1. active'[d] <= MaxConnections BY <3>2, <3>4
      <4> QED BY <1>1, <3>4, <4>1 DEF Accept
    <3> QED BY <3>3, <3>4
  <2>2. /\ conn' \in [Conns -> ConnStates] /\ home' \in [Conns -> Daemons]
        /\ active' \in [Daemons -> Nat]
    BY <1>0, <2>1
  <2>3. ASSUME NEW e \in Daemons, e # d
        PROVE  active'[e] = Cardinality(Counted(e)') /\ Cardinality(Served(e)') <= MaxConnections
    <3>1. Counted(e)' = Counted(e) /\ Served(e)' \subseteq Served(e) /\ active'[e] = active[e]
      BY <1>0, <2>1, <2>3 DEF Counted, Served
    <3> QED BY <3>1, SameBooks
  <2>4. Counted(d)' = Counted(d) \union {c} /\ c \in Conns \ Counted(d)
    BY <1>0, <2>1 DEF Counted
  <2>5. Counted(d) \in SUBSET Conns /\ Counted(d)' \in SUBSET Conns
    BY DEF Counted
  <2>6. Cardinality(Counted(d)') = Cardinality(Counted(d)) + 1
    BY <2>4, <2>5, ConnSets
  <2>7. active'[d] = Cardinality(Counted(d)')
    <3>1. active'[d] = active[d] + 1 BY <1>0, <2>1
    <3> QED BY <3>1, <2>6 DEF ConnInv
  <2>8. Cardinality(Served(d)') <= MaxConnections
    <3>1. CASE s = "open"
      <4>1. Served(d)' \in SUBSET (Counted(d)')
        BY DEF Served, Counted
      <4>2. Cardinality(Served(d)') \in Nat /\ Cardinality(Served(d)') <= Cardinality(Counted(d)')
        BY <2>5, <4>1, ConnSets
      <4> QED BY <2>1, <2>2, <2>7, <3>1, <4>2
    <3>2. CASE s = "refused"
      <4>1. Served(d)' = Served(d)
        BY <1>0, <2>1, <3>2 DEF Served
      <4> QED BY <4>1 DEF ConnInv
    <3> QED BY <3>1, <3>2
  <2>9. \A e \in Daemons : active'[e] = Cardinality(Counted(e)')
                           /\ Cardinality(Served(e)') <= MaxConnections
    BY <2>3, <2>7, <2>8
  <2> QED BY <2>2, <2>9 DEF ConnInv
<1>2. ASSUME NEW c \in Conns, NEW s \in {"none", "hijacked"},
             conn[c] \in {"open", "refused"}, conn' = [conn EXCEPT ![c] = s], home' = home,
             active' = [active EXCEPT ![home[c]] = @ - 1]
      PROVE  ConnInv'
  <2> DEFINE d == home[c]
  <2>1. /\ conn[c] \in {"open", "refused"} /\ conn' = [conn EXCEPT ![c] = s] /\ home' = home
        /\ active' = [active EXCEPT ![d] = @ - 1] /\ s \notin {"open", "refused"}
    BY <1>2
  <2>2. d \in Daemons BY <1>0
  <2>3. PICK h \in Daemons : h = d BY <2>2
  <2>4. Counted(h)' = Counted(h) \ {c} /\ c \in Counted(h)
    BY <1>0, <2>1, <2>3 DEF Counted
  <2>5. Counted(h) \in SUBSET Conns BY DEF Counted
  <2>6. Cardinality(Counted(h)') = Cardinality(Counted(h)) - 1 /\ Cardinality(Counted(h)) \in Nat
    BY <2>4, <2>5, ConnSets
  <2>7. active'[h] = Cardinality(Counted(h)')
    <3>1. active'[h] = active[h] - 1 BY <1>0, <2>1, <2>3
    <3> QED BY <3>1, <2>6 DEF ConnInv
  <2>8. Counted(h)' \in SUBSET Conns BY <2>4, <2>5
  <2>9. active'[h] \in Nat BY <2>7, <2>8, ConnSets
  <2>10. /\ conn' \in [Conns -> ConnStates] /\ home' \in [Conns -> Daemons]
         /\ active' \in [Daemons -> Nat]
    <3>1. active' = [active EXCEPT ![h] = active'[h]]
      BY <1>0, <2>1, <2>3
    <3>2. active' \in [Daemons -> Nat]
      BY <1>0, <3>1, <2>9
    <3> QED BY <1>0, <2>1, <3>2
  <2>11. Cardinality(Served(h)') <= MaxConnections
    <3>1. Served(h) \in SUBSET Conns /\ Served(h)' \in SUBSET Served(h)
      BY <1>0, <2>1 DEF Served
    <3>2. Cardinality(Served(h)') \in Nat /\ Cardinality(Served(h)) \in Nat
          /\ Cardinality(Served(h)') <= Cardinality(Served(h))
      BY <3>1, ConnSets
    <3> QED BY <3>2 DEF ConnInv
  <2>12. ASSUME NEW e \in Daemons, e # h
         PROVE  active'[e] = Cardinality(Counted(e)') /\ Cardinality(Served(e)') <= MaxConnections
    <3>1. Counted(e)' = Counted(e) /\ Served(e)' \subseteq Served(e) /\ active'[e] = active[e]
      BY <1>0, <2>1, <2>3, <2>12 DEF Counted, Served
    <3> QED BY <3>1, SameBooks
  <2>13. \A e \in Daemons : active'[e] = Cardinality(Counted(e)')
                            /\ Cardinality(Served(e)') <= MaxConnections
    BY <2>7, <2>11, <2>12
  <2> QED BY <2>10, <2>13 DEF ConnInv
<1>3. ASSUME NEW d \in Daemons, Returns(d) \/ Dies(d) PROVE ConnInv'
  <2>1. conn' = Dropped(d) /\ active' = [active EXCEPT ![d] = 0] /\ home' = home
    BY <1>3 DEF Returns, Dies
  <2>2. /\ conn' \in [Conns -> ConnStates] /\ home' \in [Conns -> Daemons]
        /\ active' \in [Daemons -> Nat]
    BY <1>0, <2>1 DEF Dropped
  <2>3. ASSUME NEW e \in Daemons, e # d
        PROVE  active'[e] = Cardinality(Counted(e)') /\ Cardinality(Served(e)') <= MaxConnections
    <3>1. Counted(e)' = Counted(e) /\ Served(e)' \subseteq Served(e) /\ active'[e] = active[e]
      BY <1>0, <2>1, <2>3 DEF Counted, Served, Dropped
    <3> QED BY <3>1, SameBooks
  <2>4. Counted(d)' = {} /\ Served(d)' = {} /\ active'[d] = 0
    BY <1>0, <2>1 DEF Counted, Served, Dropped
  <2>5. active'[d] = Cardinality(Counted(d)') /\ Cardinality(Served(d)') <= MaxConnections
    BY <2>4, FS_EmptySet
  <2>6. \A e \in Daemons : active'[e] = Cardinality(Counted(e)')
                           /\ Cardinality(Served(e)') <= MaxConnections
    BY <2>3, <2>5
  <2> QED BY <2>2, <2>6 DEF ConnInv
<1>4. ASSUME UNCHANGED <<active, conn, home>> PROVE ConnInv'
  BY <1>4 DEF ConnInv, Counted, Served
<1>5. ASSUME NEW d \in Daemons,
             \/ Inspect(d) \/ Dial(d) \/ Remove(d) \/ Bind(d) \/ Listen(d) \/ Chmod(d)
             \/ Confine(d) \/ Stop(d) \/ CloseUnlinks(d) \/ Closes(d)
      PROVE  ConnInv'
  BY <1>4, <1>5
     DEF Inspect, Dial, Remove, Bind, Listen, Chmod, Confine, Stop, CloseUnlinks, Closes
<1>6. CASE UNCHANGED listenerVars
  BY <1>4, <1>6 DEF listenerVars
<1>7. ASSUME NEW c \in Conns, Hijacked(c) PROVE ConnInv'
  BY <1>2, <1>7 DEF Hijacked
<1>8. ASSUME NEW c \in Conns, ConnEnds(c), conn[c] # "hijacked" PROVE ConnInv'
  <2>1. conn[c] \in {"open", "refused"} BY <1>0, <1>8 DEF ConnEnds
  <2> QED BY <1>2, <1>8, <2>1 DEF ConnEnds
<1>9. ASSUME NEW c \in Conns, ConnEnds(c), conn[c] = "hijacked" PROVE ConnInv'
  <2>1. conn' = [conn EXCEPT ![c] = "none"] /\ active' = active /\ home' = home
    BY <1>9 DEF ConnEnds
  <2>2. \A e \in Daemons : Counted(e)' = Counted(e) /\ Served(e)' \subseteq Served(e)
                           /\ active'[e] = active[e]
    BY <1>0, <1>9, <2>1 DEF Counted, Served
  <2>3. \A e \in Daemons : active'[e] = Cardinality(Counted(e)')
                           /\ Cardinality(Served(e)') <= MaxConnections
    BY <2>2, SameBooks
  <2>4. conn' \in [Conns -> ConnStates] BY <1>0, <2>1
  <2> QED BY <1>0, <2>1, <2>3, <2>4 DEF ConnInv
<1> QED BY <1>1, <1>3, <1>5, <1>6, <1>7, <1>8, <1>9 DEF ListenerNext

(***************************************************************************)
(* The counter of a server is the number of its connections, refused ones  *)
(* included and taken over ones not (the ConnState hook of newHTTPServer). *)
(***************************************************************************)
THEOREM ConnInductive == ListenerSpec => []ConnInv
<1>1. ListenerInit => ConnInv
  <2> SUFFICES ASSUME ListenerInit PROVE ConnInv OBVIOUS
  <2>1. \A d \in Daemons : Counted(d) = {} /\ Served(d) = {}
    BY DEF ListenerInit, Counted, Served
  <2>2. Cardinality({}) = 0 BY FS_EmptySet
  <2> QED BY SMTT(60), <2>1, <2>2, ListenerAssumption DEF ListenerInit, ConnInv, ConnStates
<1> QED BY <1>1, ConnNext, PTL DEF ListenerSpec

(***************************************************************************)
(* The count of the hook never drifts, and a server never serves more of   *)
(* the connections in it than it may.                                      *)
(***************************************************************************)
THEOREM CapHolds == ListenerSpec => []ConnectionsCapped
<1>1. ConnInv => ConnectionsCapped
  BY DEF ConnInv, ConnectionsCapped
<1> QED BY <1>1, ConnInductive, PTL

-----------------------------------------------------------------------------
(* Install: what a run has got done.                                       *)

InstallInv ==
    /\ step \in {"off", "account", "mkdir", "chown", "ensure", "own", "units"}
    /\ todo \in Seq(Artifacts) /\ want \subseteq Artifacts
    /\ file \in [Artifacts -> [is : Nat, read : BOOLEAN]]
    /\ peppers \in Nat /\ hashed \in Nat
    /\ step \in {"mkdir", "chown", "ensure", "own", "units"} => account
    /\ step \in {"ensure", "own", "units"} => dir = "service"
    /\ step \in {"account", "mkdir", "chown", "ensure", "own"} => todo # <<>>
    /\ step = "own" => Present(todo[1])
    /\ step = "units" => todo = <<>>
    /\ step # "off" => ~installed
    /\ step \in {"account", "mkdir", "chown"} => want = {}
    /\ step \in {"ensure", "own", "units"} =>
          \A f \in want : (\E i \in 1..Len(todo) : todo[i] = f) \/ (Present(f) /\ file[f].read)
    /\ InstallSuffices

\* The list of artifacts is one.
LEMMA AuthList ==
    ASSUME NEW created PROVE AuthArtifacts(created) \in Seq(Artifacts)
<1>1. <<>> \in Seq(Artifacts) BY EmptySeq
<1>2. \A f \in Artifacts : <<f>> \in Seq(Artifacts) OBVIOUS
<1>3. "users" \in Artifacts /\ "pepper" \in Artifacts BY DEF Artifacts, Auth
<1>4. <<"pepper", "users">> \in Seq(Artifacts)
  <2> HIDE DEF Artifacts
  <2> QED BY <1>3
<1> DEFINE part(f) == IF names[f] = "named" THEN <<f>> ELSE <<>>
<1>5. \A f \in Artifacts : part(f) \in Seq(Artifacts)
  BY <1>1, <1>2
<1>6. part("users") \o part("pepper") \in Seq(Artifacts)
  <2>1. part("users") \in Seq(Artifacts) /\ part("pepper") \in Seq(Artifacts)
    BY <1>3, <1>5
  <2> HIDE DEF part
  <2> QED BY <2>1, ConcatProperties
<1> QED BY <1>4, <1>6 DEF AuthArtifacts

\* The artifact at hand and those after it.
LEMMA TodoFacts ==
    ASSUME NEW T, NEW s \in Seq(T), s # <<>>
    PROVE  /\ Head(s) = s[1] /\ s[1] \in T /\ Tail(s) \in Seq(T)
           /\ \A i \in 1..Len(s) : i = 1 \/ \E j \in 1..Len(Tail(s)) : Tail(s)[j] = s[i]
<1>1. Len(s) \in Nat /\ Len(s) # 0
  BY EmptySeq
<1>2. Head(s) = s[1] /\ s[1] \in T /\ Tail(s) \in Seq(T) /\ Len(Tail(s)) = Len(s) - 1
  BY <1>1, HeadTailProperties
<1>3. ASSUME NEW i \in 1..Len(s), i # 1
      PROVE  \E j \in 1..Len(Tail(s)) : Tail(s)[j] = s[i]
  <2>1. i - 1 \in 1..Len(Tail(s)) BY <1>1, <1>2, <1>3
  <2>2. Tail(s)[i - 1] = s[(i - 1) + 1] BY <2>1, <1>1, HeadTailProperties
  <2>3. (i - 1) + 1 = i BY <1>1
  <2> QED BY <2>1, <2>2, <2>3
<1> QED BY <1>2, <1>3

\* An artifact that is there and has been given to the service is dealt with.
LEMMA EnsuredFacts ==
    ASSUME InstallInv, step \in {"ensure", "own"}, Present(todo[1]),
           file' = [file EXCEPT ![Head(todo)].read = TRUE], Ensured(Head(todo)),
           UNCHANGED <<account, dir, peppers, installed, hashed>>
    PROVE  InstallInv'
<1>1. /\ todo \in Seq(Artifacts) /\ todo # <<>> /\ want \subseteq Artifacts
      /\ file \in [Artifacts -> [is : Nat, read : BOOLEAN]]
      /\ account /\ dir = "service" /\ ~installed /\ peppers \in Nat /\ hashed \in Nat
      /\ hashed # 0 => file["pepper"].is = hashed
      /\ \A g \in want : (\E i \in 1..Len(todo) : todo[i] = g) \/ (Present(g) /\ file[g].read)
  BY DEF InstallInv, InstallSuffices
<1>2. /\ Head(todo) = todo[1] /\ todo[1] \in Artifacts /\ Tail(todo) \in Seq(Artifacts)
      /\ \A i \in 1..Len(todo) : i = 1 \/ \E j \in 1..Len(Tail(todo)) : Tail(todo)[j] = todo[i]
  BY <1>1, TodoFacts
<1>3. PICK f \in Artifacts : f = todo[1] /\ f = Head(todo)
  BY <1>2
<1>4. /\ file' \in [Artifacts -> [is : Nat, read : BOOLEAN]]
      /\ \A g \in Artifacts : file'[g].is = file[g].is /\ (file[g].read => file'[g].read)
      /\ file'[f].read
  BY ZenonT(60), <1>1, <1>3
<1>5. \A g \in Artifacts : Present(g) => Present(g)'
  BY <1>4 DEF Present
<1>6. Present(f)' BY <1>3, <1>5
<1>7. todo' \in Seq(Artifacts)
  BY <1>2, <1>3, AuthList DEF Ensured
<1>8. want' \subseteq Artifacts
      /\ \A g \in want' : (\E i \in 1..Len(todo') : todo'[i] = g) \/ (Present(g)' /\ file'[g].read)
  <2>1. CASE f = "config"
    <3>1. want' = {f} \union {todo'[i] : i \in DOMAIN todo'} BY <1>3, <2>1 DEF Ensured
    <3>2. DOMAIN todo' = 1..Len(todo') /\ \A i \in DOMAIN todo' : todo'[i] \in Artifacts
      BY <1>7
    <3> QED BY <3>1, <3>2, <1>4, <1>6
  <2>2. CASE f # "config"
    <3>1. want' = want /\ todo' = Tail(todo) BY <1>3, <2>2 DEF Ensured
    <3>2. ASSUME NEW g \in want
          PROVE  (\E i \in 1..Len(todo') : todo'[i] = g) \/ (Present(g)' /\ file'[g].read)
      <4>1. g \in Artifacts BY <1>1
      <4>2. CASE Present(g) /\ file[g].read
        BY <4>1, <4>2, <1>4, <1>5
      <4>3. CASE g = f
        BY <4>3, <1>4, <1>6
      <4>4. CASE \E i \in 1..Len(todo) : todo[i] = g /\ g # f
        BY <4>4, <1>2, <1>3, <3>1
      <4> QED BY <1>1, <4>2, <4>3, <4>4
    <3> QED BY <1>1, <3>1, <3>2
  <2> QED BY <2>1, <2>2
<1>9. step' \in {"ensure", "units"} /\ (step' = "units" <=> todo' = <<>>)
  BY DEF Ensured
<1>10. InstallSuffices'
  <2>1. "pepper" \in Artifacts BY DEF Artifacts, Auth
  <2> QED BY <1>1, <1>4, <2>1 DEF InstallSuffices
<1> QED BY <1>1, <1>4, <1>7, <1>8, <1>9, <1>10 DEF InstallInv

\* Every step keeps what the run has got done.
LEMMA InstallNextInv == InstallInv /\ [InstallNext]_installVars => InstallInv'
<1> SUFFICES ASSUME InstallInv, [InstallNext]_installVars PROVE InstallInv'
  OBVIOUS
<1>0. /\ todo \in Seq(Artifacts) /\ want \subseteq Artifacts
      /\ file \in [Artifacts -> [is : Nat, read : BOOLEAN]]
      /\ peppers \in Nat /\ hashed \in Nat
  BY DEF InstallInv
<1>f. "users" \in Artifacts /\ "pepper" \in Artifacts /\ "config" \in Artifacts
  BY DEF Artifacts, Auth
<1>1. CASE Provision
  <2>1. <<"config">> \in Seq(Artifacts) /\ <<"config">> # <<>>
    BY <1>f
  <2> QED BY <1>1, <2>1 DEF Provision, InstallInv, InstallSuffices, Present
<1>2. CASE EnsureAccount
  BY <1>2 DEF EnsureAccount, InstallInv, InstallSuffices, Present
<1>3. CASE MakeDir
  BY <1>3 DEF MakeDir, InstallInv, InstallSuffices, Present
<1>4. CASE OwnDir
  BY <1>4 DEF OwnDir, InstallInv, InstallSuffices, Present
<1>5. CASE WriteArtifact
  <2>1. todo # <<>> /\ step = "ensure"
    BY <1>5 DEF WriteArtifact, InstallInv
  <2>2. Head(todo) = todo[1] /\ todo[1] \in Artifacts
    BY <1>0, <2>1, TodoFacts
  <2>3. PICK f \in Artifacts : f = todo[1] /\ f = Head(todo)
    BY <2>2
  <2>4. PICK n \in Nat : n # 0 /\ file' = [file EXCEPT ![f] = [is |-> n, read |-> FALSE]]
    <3>1. Contents(f) \in Nat /\ Contents(f) # 0 BY <1>0 DEF Contents
    <3>2. file' = [file EXCEPT ![f] = [is |-> Contents(f), read |-> FALSE]]
      BY <1>5, <2>3 DEF WriteArtifact
    <3> QED BY <3>1, <3>2
  <2>5. /\ file' \in [Artifacts -> [is : Nat, read : BOOLEAN]]
        /\ file'[f].is # 0 /\ \A g \in Artifacts : g # f => file'[g] = file[g]
    BY <1>0, <2>4
  <2>6. ~Present(f) /\ step' = "own" /\ UNCHANGED <<todo, account, dir, want, installed, hashed>>
        /\ peppers' \in Nat
    BY <1>0, <1>5, <2>3 DEF WriteArtifact
  <2>7. \A g \in Artifacts : Present(g) => file'[g] = file[g]
    BY <2>5, <2>6
  <2>8. hashed # 0 => file'["pepper"].is = hashed
    BY <1>f, <2>7 DEF InstallInv, InstallSuffices, Present
  <2>9. ~installed /\ account /\ dir = "service"
    BY <2>1 DEF InstallInv
  <2>10. \A g \in want : (\E i \in 1..Len(todo) : todo[i] = g) \/ (Present(g)' /\ file'[g].read)
    BY <1>0, <2>1, <2>7 DEF InstallInv, Present
  <2>11. Present(todo[1])' BY <2>3, <2>5, <2>6 DEF Present
  <2>12. InstallSuffices' BY <2>6, <2>8, <2>9 DEF InstallSuffices
  <2> QED BY <1>0, <2>1, <2>5, <2>6, <2>9, <2>10, <2>11, <2>12 DEF InstallInv
<1>6. CASE OwnArtifact
  BY SMTT(60), <1>6, EnsuredFacts DEF OwnArtifact, InstallInv
<1>7. CASE ReassertOwnership
  <2>1. todo # <<>> BY <1>7 DEF ReassertOwnership, InstallInv
  <2>2. Head(todo) = todo[1] BY <1>0, <2>1, TodoFacts
  <2> QED BY <1>7, <2>2, EnsuredFacts DEF ReassertOwnership
<1>8. CASE InstallUnits
  <2>1. todo = <<>> BY <1>8 DEF InstallUnits, InstallInv
  <2>2. \A f \in want : Present(f) /\ file[f].read
    <3>1. Len(todo) = 0 BY <2>1
    <3>2. 1..Len(todo) = {} BY <3>1
    <3> QED BY <1>8, <3>2 DEF InstallUnits, InstallInv
  <2> QED BY <1>8, <2>2 DEF InstallUnits, InstallInv, InstallSuffices, Present
<1>9. CASE RunFails
  BY <1>9 DEF RunFails, InstallInv, InstallSuffices, Present
<1>10. CASE KeyCreate
  <2>1. PICK r \in BOOLEAN : /\ file' = [file EXCEPT !["users"] = [is |-> 1, read |-> r]]
                             /\ r = Replaced("users")
    BY <1>0, <1>f, <1>10 DEF KeyCreate, Replaced
  <2>2. /\ file' \in [Artifacts -> [is : Nat, read : BOOLEAN]]
        /\ file'["users"].is = 1 /\ file'["users"].read = r
        /\ \A g \in Artifacts : g # "users" => file'[g] = file[g]
    BY <1>0, <1>f, <2>1
  <2>3. /\ step = "off" /\ hashed' = file["pepper"].is
        /\ UNCHANGED <<step, todo, account, dir, peppers, want, installed>>
    BY <1>10 DEF KeyCreate
  <2>4. hashed' \in Nat /\ file'["pepper"].is = hashed'
    BY <1>0, <1>f, <2>2, <2>3
  <2>5. ASSUME installed, NEW f \in want PROVE Present(f)' /\ file'[f].read
    <3>1. f \in Artifacts /\ Present(f) /\ file[f].read /\ dir = "service"
      BY <1>0, <2>5 DEF InstallInv, InstallSuffices
    <3>2. CASE f = "users"
      BY <2>1, <2>2, <3>1, <3>2 DEF Replaced, Present
    <3>3. CASE f # "users"
      BY <2>2, <3>1, <3>3 DEF Present
    <3> QED BY <3>2, <3>3
  <2>6. InstallSuffices'
    BY <2>3, <2>4, <2>5 DEF InstallSuffices, InstallInv
  <2> QED BY <2>2, <2>3, <2>4, <2>6 DEF InstallInv
<1>11. CASE InitCommits
  <2>1. /\ step = "off" /\ peppers' = peppers + 1
        /\ file' = [f \in Artifacts |-> [is |-> Contents(f), read |-> dir = "service"]]
        /\ \A f \in Artifacts : ~Present(f)
        /\ UNCHANGED <<step, todo, account, dir, want, installed, hashed>>
    BY <1>11 DEF InitCommits
  <2>2. \A f \in Artifacts : Contents(f) \in Nat /\ Contents(f) # 0
    BY <1>0 DEF Contents
  <2>3. /\ file' \in [Artifacts -> [is : Nat, read : BOOLEAN]]
        /\ \A f \in Artifacts : file'[f].is # 0 /\ file'[f].read = (dir = "service")
    BY <2>1, <2>2
  <2>4. hashed = 0 BY <1>f, <2>1 DEF InstallInv, InstallSuffices, Present
  <2>5. ASSUME installed, NEW f \in want PROVE Present(f)' /\ file'[f].read
    <3>1. f \in Artifacts /\ dir = "service"
      BY <1>0, <2>5 DEF InstallInv, InstallSuffices
    <3> QED BY <2>3, <3>1 DEF Present
  <2>6. InstallSuffices'
    BY <2>1, <2>4, <2>5 DEF InstallSuffices, InstallInv
  <2>7. peppers' \in Nat BY <1>0, <2>1
  <2> QED BY <2>1, <2>3, <2>6, <2>7 DEF InstallInv
<1>12. CASE EditConfig \/ RemoveConfig
  <2>1. PICK n \in {0, 1}, r \in BOOLEAN : file' = [file EXCEPT !["config"] = [is |-> n, read |-> r]]
    BY <1>0, <1>f, <1>12 DEF EditConfig, RemoveConfig
  <2>2. /\ file' \in [Artifacts -> [is : Nat, read : BOOLEAN]]
        /\ file'["pepper"] = file["pepper"]
    BY <1>0, <1>f, <2>1
  <2>3. /\ step = "off" /\ installed' = FALSE
        /\ UNCHANGED <<step, todo, account, dir, peppers, want, hashed>>
    BY <1>12 DEF EditConfig, RemoveConfig
  <2>4. InstallSuffices'
    BY <2>2, <2>3 DEF InstallSuffices, InstallInv
  <2> QED BY <2>2, <2>3, <2>4 DEF InstallInv
<1>13. CASE StartOver
  BY <1>13 DEF StartOver, InstallInv, InstallSuffices
<1>14. CASE UNCHANGED installVars
  BY <1>14 DEF installVars, InstallInv, InstallSuffices, Present
<1> QED BY <1>1, <1>2, <1>3, <1>4, <1>5, <1>6, <1>7, <1>8, <1>9, <1>10, <1>11, <1>12, <1>13,
           <1>14 DEF InstallNext

(***************************************************************************)
(* What a run of the installer has got done, whatever it found and however *)
(* many runs failed before it (Provision.Run).                             *)
(***************************************************************************)
THEOREM InstallInductive == InstallSpec => []InstallInv
<1>1. InstallInit => InstallInv
  BY EmptySeq DEF InstallInit, InstallInv, InstallSuffices
<1> QED BY <1>1, InstallNextInv, PTL DEF InstallSpec

(***************************************************************************)
(* A run that reports success was enough, and no run invalidates a key.    *)
(***************************************************************************)
THEOREM InstallIsEnough == InstallSpec => []InstallSuffices
<1>1. InstallInv => InstallSuffices BY DEF InstallInv
<1> QED BY <1>1, InstallInductive, PTL

-----------------------------------------------------------------------------
(* Setup: how far each invocation has got.                                 *)

\* The steps that publish a file, and the steps that make that durable.
LinkAt(f) == IF f = 1 THEN 7 ELSE IF f = 2 THEN 9 ELSE 12
SyncAt(f) == IF f = 3 THEN 14 ELSE 11

\* What the name of a published file may refer to.
Mine(i, f) == IF f = 2 THEN {i, Foreign} ELSE {i}

SetupTypes ==
    /\ at \in [Inits -> 0..15] /\ undo \in [Inits -> 0..7]
    /\ over \in [Inits -> {"no", "done", "failed", "killed"}]
    /\ final \in [Files -> Entries] /\ disk \in [Files -> SUBSET Entries]
    /\ seen \in [Inits -> Entries]
    /\ temp \in [Inits -> SUBSET Files] /\ whole \in [Inits -> SUBSET Files]
    /\ published \in [Inits -> SUBSET Files]
    /\ readOnly \in BOOLEAN /\ crashed \in BOOLEAN

\* What is recorded of an invocation is what its place in the program says.
Progress(i) ==
    /\ undo[i] # 0 => at[i] \in 1..14
    /\ over[i] = "failed" => at[i] = 0 \/ undo[i] = 7
    /\ over[i] = "done" => at[i] = 15
    /\ crashed => over[i] # "no"
    /\ seen[i] # Free => seen[i] = i /\ undo[i] \in 1..3 /\ 4 - undo[i] \in published[i]
    /\ \A f \in Files :
          /\ f \in published[i] <=> at[i] > LinkAt(f)
          /\ f \in whole[i] <=> at[i] > 3 + f
          /\ undo[i] = 0 => (f \in temp[i] <=> f < at[i] /\ at[i] <= LinkAt(f) + 1)

\* A name refers to an invocation's inode only if it was published; what was
\* published stays until the invocation itself takes it back, through a crash
\* if the directory was synced; and the rollback takes the configuration back
\* first, if it can take back anything.
Names(i) ==
    /\ \A f \in Files :
          /\ final[f] = i \/ i \in disk[f] => f \in published[i]
          /\ ~crashed /\ undo[i] <= 4 - f /\ at[i] > LinkAt(f) => final[f] \in Mine(i, f)
          /\ undo[i] = 0 /\ at[i] > SyncAt(f) =>
                final[f] \in Mine(i, f) /\ disk[f] \subseteq Mine(i, f)
          /\ ~readOnly /\ ~crashed =>
                /\ undo[i] > 4 - f => final[f] # i
                /\ undo[i] > 7 - f => f \notin temp[i]
    /\ ~crashed /\ final[Config] = i =>
          final[1] = i /\ final[2] \in {i, Foreign} /\ (undo[i] >= 2 => readOnly)

SetupInv == SetupTypes /\ \A i \in Inits : Progress(i) /\ Names(i)

Call(o, f) == [op |-> o, file |-> f]

\* The program, call by call.
LEMMA ProgramFacts ==
    /\ DOMAIN Program = 1..14 /\ Len(Program) = 14
    /\ \A k \in 1..3 : Program[k] = Call("create", k) /\ Program[3 + k] = Call("write", k)
    /\ Program[7] = Call("link", 1) /\ Program[8] = Call("unlink", 1)
    /\ Program[9] = Call("link", 2) /\ Program[10] = Call("unlink", 2)
    /\ Program[11] = Call("sync", 0)
    /\ Program[12] = Call("link", 3) /\ Program[13] = Call("unlink", 3)
    /\ Program[14] = Call("sync", 0)
<1>1. PICK c1, c2, c3, c4, c5, c6, c7, c8, c9, c10, c11, c12, c13, c14 :
          /\ c1 = Call("create", 1) /\ c2 = Call("create", 2) /\ c3 = Call("create", 3)
          /\ c4 = Call("write", 1) /\ c5 = Call("write", 2) /\ c6 = Call("write", 3)
          /\ c7 = Call("link", 1) /\ c8 = Call("unlink", 1)
          /\ c9 = Call("link", 2) /\ c10 = Call("unlink", 2) /\ c11 = Call("sync", 0)
          /\ c12 = Call("link", 3) /\ c13 = Call("unlink", 3) /\ c14 = Call("sync", 0)
  OBVIOUS
<1> DEFINE P == (<<c1>> \o <<c2>> \o <<c3>> \o <<c4>> \o <<c5>> \o <<c6>>)
                  \o (<<c7>> \o <<c8>>) \o (<<c9>> \o <<c10>>) \o <<c11>>
                  \o (<<c12>> \o <<c13>>) \o <<c14>>
<1>2. Program = P
  BY <1>1 DEF Program, Prepare, Publish, Do, Call
<1>3. Len(P) = 14 OBVIOUS
<1>4. DOMAIN P = 1..14 OBVIOUS
<1>5. P[1] = c1 /\ P[2] = c2 /\ P[3] = c3 /\ P[4] = c4 /\ P[5] = c5 OBVIOUS
<1>6. P[6] = c6 /\ P[7] = c7 /\ P[8] = c8 /\ P[9] = c9 /\ P[10] = c10 OBVIOUS
<1>7. P[11] = c11 /\ P[12] = c12 /\ P[13] = c13 /\ P[14] = c14 OBVIOUS
<1> HIDE DEF P
<1> QED BY <1>1, <1>2, <1>3, <1>4, <1>5, <1>6, <1>7

\* What call an invocation is at.
LEMMA CallFacts ==
    ASSUME NEW i \in Inits
    PROVE  /\ At(i, "create") => at[i] \in 1..3 /\ File(i) = at[i]
           /\ At(i, "write") => at[i] \in 4..6 /\ File(i) = at[i] - 3
           /\ At(i, "link") => File(i) \in Files /\ at[i] = LinkAt(File(i))
           /\ At(i, "unlink") => File(i) \in Files /\ at[i] = LinkAt(File(i)) + 1
           /\ At(i, "sync") => at[i] \in {11, 14}
<1> SUFFICES ASSUME at[i] \in DOMAIN Program
             PROVE  LET p == Program[at[i]] IN
                    /\ p.op = "create" => at[i] \in 1..3 /\ p.file = at[i]
                    /\ p.op = "write" => at[i] \in 4..6 /\ p.file = at[i] - 3
                    /\ p.op = "link" => p.file \in Files /\ at[i] = LinkAt(p.file)
                    /\ p.op = "unlink" => p.file \in Files /\ at[i] = LinkAt(p.file) + 1
                    /\ p.op = "sync" => at[i] \in {11, 14}
  BY DEF At, File
<1>1. PICK k \in 1..14 : k = at[i]
  BY ProgramFacts
<1>2. CASE k \in 1..3
  BY <1>1, <1>2, ProgramFacts DEF Call
<1>3. CASE k \in 4..6
  <2>1. k - 3 \in 1..3 /\ 3 + (k - 3) = k BY <1>3
  <2>2. Program[k] = Call("write", k - 3) BY <2>1, ProgramFacts
  <2> QED BY <1>1, <1>3, <2>2 DEF Call
<1>4. CASE k = 7 \/ k = 8
  BY <1>1, <1>4, ProgramFacts DEF Call, LinkAt, Files
<1>5. CASE k = 9 \/ k = 10
  BY <1>1, <1>5, ProgramFacts DEF Call, LinkAt, Files
<1>6. CASE k = 12 \/ k = 13
  BY <1>1, <1>6, ProgramFacts DEF Call, LinkAt, Files
<1>7. CASE k = 11 \/ k = 14
  BY <1>1, <1>7, ProgramFacts DEF Call
<1> QED BY <1>2, <1>3, <1>4, <1>5, <1>6, <1>7

\* The places of the calls, spelled out.
LEMMA Places ==
    /\ Files = {1, 2, 3} /\ Config = 3
    /\ LinkAt(1) = 7 /\ LinkAt(2) = 9 /\ LinkAt(3) = 12
    /\ SyncAt(1) = 11 /\ SyncAt(2) = 11 /\ SyncAt(3) = 14
  BY DEF Files, Config, LinkAt, SyncAt

\* An invocation that a step does not touch.
LEMMA Untouched ==
    ASSUME SetupInv, NEW j \in Inits,
           at'[j] = at[j], undo'[j] = undo[j], seen'[j] = seen[j], over'[j] = over[j],
           temp'[j] = temp[j], whole'[j] = whole[j], published'[j] = published[j],
           UNCHANGED <<crashed, readOnly>>
    PROVE  Progress(j)' /\ (UNCHANGED <<final, disk>> => Names(j)')
<1>1. Progress(j) /\ Names(j) BY DEF SetupInv
<1>2. Progress(j)' BY <1>1 DEF Progress
<1>3. UNCHANGED <<final, disk>> => Names(j)' BY <1>1 DEF Names
<1> QED BY <1>2, <1>3

\* Arguments checked, or refused.
LEMMA BeginKeeps ==
    ASSUME SetupInv, NEW i \in Inits, Start(i) \/ Refuse(i) PROVE SetupInv'
<1>0. SetupTypes /\ Progress(i) /\ Names(i) BY DEF SetupInv
<1>1. at[i] = 0 /\ undo[i] = 0 /\ over[i] = "no" /\ ~crashed
  BY DEF Start, Refuse, Running
<1>2. /\ UNCHANGED <<undo, seen, final, temp, disk, whole, published, readOnly, crashed>>
      /\ \/ at' = [at EXCEPT ![i] = 1] /\ over' = over
         \/ at' = at /\ over' = [over EXCEPT ![i] = "failed"]
  BY <1>1 DEF Start, Refuse, Advance, rest
<1>3. SetupTypes'
  BY <1>0, <1>2 DEF SetupTypes
<1>4. ASSUME NEW j \in Inits, j # i PROVE Progress(j)' /\ Names(j)'
  BY <1>0, <1>2, <1>4, Untouched DEF SetupTypes
<1>5. /\ at'[i] \in {0, 1} /\ undo'[i] = 0 /\ over'[i] \in {"no", "failed"}
      /\ over'[i] = "failed" => at'[i] = 0
  BY <1>0, <1>1, <1>2 DEF SetupTypes
<1>6. Progress(i)'
  BY <1>0, <1>1, <1>2, <1>5, Places DEF Progress
<1>7. Names(i)'
  BY <1>0, <1>1, <1>2, <1>5, Places DEF Names, SetupTypes
<1> QED BY <1>3, <1>4, <1>6, <1>7 DEF SetupInv

\* The calls that touch the temporary files only.
LEMMA PrepareKeeps ==
    ASSUME SetupInv, NEW i \in Inits, Create(i) \/ Write(i) \/ Unlink(i) PROVE SetupInv'
<1>0. SetupTypes /\ Progress(i) /\ Names(i) BY DEF SetupInv
<1>1. undo[i] = 0 /\ over[i] = "no" /\ ~crashed /\ at[i] \in 1..14
  BY ProgramFacts DEF Create, Write, Unlink, At, Running
<1>2. PICK k \in 1..14 : k = at[i] BY <1>1
<1>3. /\ UNCHANGED <<undo, seen, over, final, disk, published, readOnly, crashed>>
      /\ at' = [at EXCEPT ![i] = k + 1]
  BY <1>2 DEF Create, Write, Unlink, Advance, rest
<1>4. PICK f \in Files, T \in SUBSET Files, W \in SUBSET Files :
          /\ temp' = [temp EXCEPT ![i] = T] /\ whole' = [whole EXCEPT ![i] = W]
          /\ \/ k \in 1..3 /\ f = k /\ T = temp[i] \union {f} /\ W = whole[i]
             \/ k \in 4..6 /\ f = k - 3 /\ T = temp[i] /\ W = whole[i] \union {f}
             \/ k = LinkAt(f) + 1 /\ T = temp[i] \ {f} /\ W = whole[i]
  <2>0. temp[i] \in SUBSET Files /\ whole[i] \in SUBSET Files /\ temp = [temp EXCEPT ![i] = temp[i]]
        /\ whole = [whole EXCEPT ![i] = whole[i]]
    BY <1>0 DEF SetupTypes
  <2>1. CASE Create(i)
    <3>1. k \in 1..3 /\ File(i) = k BY <1>2, <2>1, CallFacts DEF Create
    <3>2. k \in Files /\ temp[i] \union {k} \in SUBSET Files BY <2>0, <3>1 DEF Files
    <3>3. temp' = [temp EXCEPT ![i] = temp[i] \union {k}] /\ whole' = whole
      BY <2>1, <3>1 DEF Create, CreateInDir
    <3> QED BY <2>0, <3>1, <3>2, <3>3
  <2>2. CASE Write(i)
    <3>1. k \in 4..6 /\ File(i) = k - 3 BY <1>2, <2>2, CallFacts DEF Write
    <3>2. k - 3 \in Files /\ whole[i] \union {k - 3} \in SUBSET Files BY <2>0, <3>1 DEF Files
    <3>3. whole' = [whole EXCEPT ![i] = whole[i] \union {k - 3}] /\ temp' = temp
      BY <2>2, <3>1 DEF Write, WriteAll
    <3> QED BY <2>0, <3>1, <3>2, <3>3
  <2>3. CASE Unlink(i)
    <3>1. File(i) \in Files /\ k = LinkAt(File(i)) + 1 BY <1>2, <2>3, CallFacts DEF Unlink
    <3>2. temp[i] \ {File(i)} \in SUBSET Files BY <2>0
    <3>3. temp' = [temp EXCEPT ![i] = temp[i] \ {File(i)}] /\ whole' = whole
      BY <2>3 DEF Unlink, UnlinkInDir
    <3> QED BY <2>0, <3>1, <3>2, <3>3
  <2> QED BY <2>1, <2>2, <2>3
<1>5. /\ at'[i] = k + 1 /\ temp'[i] = T /\ whole'[i] = W
      /\ \A j \in Inits : j # i => at'[j] = at[j] /\ temp'[j] = temp[j] /\ whole'[j] = whole[j]
  BY <1>0, <1>3, <1>4 DEF SetupTypes
<1>6. SetupTypes'
  BY <1>0, <1>3, <1>4 DEF SetupTypes
<1>7. ASSUME NEW j \in Inits, j # i PROVE Progress(j)' /\ Names(j)'
  BY <1>3, <1>5, <1>7, Untouched
<1>8. Progress(i)'
  <2>1. ASSUME NEW g \in Files
        PROVE  /\ g \in published[i] <=> k + 1 > LinkAt(g)
               /\ g \in W <=> k + 1 > 3 + g
               /\ g \in T <=> g < k + 1 /\ k + 1 <= LinkAt(g) + 1
    <3>1. /\ g \in published[i] <=> k > LinkAt(g)
          /\ g \in whole[i] <=> k > 3 + g
          /\ g \in temp[i] <=> g < k /\ k <= LinkAt(g) + 1
      BY <1>0, <1>1, <1>2 DEF Progress
    <3> QED BY <1>4, <3>1, Places
  <2>2. seen[i] = Free BY <1>0, <1>1 DEF Progress
  <2> QED BY <1>1, <1>3, <1>5, <2>1, <2>2 DEF Progress
<1>9. Names(i)'
  <2>1. ASSUME NEW g \in Files
        PROVE  /\ k + 1 > LinkAt(g) => k > LinkAt(g)
               /\ k + 1 > SyncAt(g) => k > SyncAt(g)
               /\ ~(0 > 4 - g) /\ ~(0 > 7 - g)
    BY <1>4, Places
  <2> QED BY <1>0, <1>1, <1>2, <1>3, <1>5, <2>1 DEF Names
<1> QED BY <1>6, <1>7, <1>8, <1>9 DEF SetupInv

\* A name that is free, or another's, is nobody else's.
LEMMA NotMine ==
    ASSUME NEW j \in Inits, NEW f \in Files, NEW x, x = Free \/ (x \in Inits /\ x # j)
    PROVE  x \notin Mine(j, f) /\ x # j /\ x # Foreign
  BY SetupAssumption DEF Mine

\* A name is published.
LEMMA LinkKeeps ==
    ASSUME SetupInv, NEW i \in Inits, Link(i) PROVE SetupInv'
<1>0. SetupTypes /\ Progress(i) /\ Names(i) BY DEF SetupInv
<1>1. undo[i] = 0 /\ over[i] = "no" /\ ~crashed /\ at[i] \in 1..14
  BY ProgramFacts DEF Link, At, Running
<1>2. PICK k \in 1..14 : k = at[i] BY <1>1
<1>3. PICK f \in Files : f = File(i) /\ k = LinkAt(f)
  BY <1>2, CallFacts DEF Link
<1>4. /\ UNCHANGED <<undo, seen, over, temp, whole, readOnly, crashed>>
      /\ at' = [at EXCEPT ![i] = k + 1] /\ final[f] = Free
      /\ final' = [final EXCEPT ![f] = i] /\ disk' = [disk EXCEPT ![f] = @ \union {i}]
      /\ published' = [published EXCEPT ![i] = @ \union {f}]
  BY <1>2, <1>3 DEF Link, Advance, LinkInDir, Entry, rest
<1>5. /\ at'[i] = k + 1 /\ published'[i] = published[i] \union {f} /\ final'[f] = i
      /\ disk'[f] = disk[f] \union {i}
      /\ \A j \in Inits : j # i => at'[j] = at[j] /\ published'[j] = published[j]
      /\ \A g \in Files : g # f => final'[g] = final[g] /\ disk'[g] = disk[g]
  BY <1>0, <1>4 DEF SetupTypes
<1>6. SetupTypes'
  <2>1. published[i] \union {f} \in SUBSET Files BY <1>0 DEF SetupTypes
  <2>2. k + 1 \in 0..15 OBVIOUS
  <2>3. i \in Entries BY DEF Entries
  <2> QED BY <1>0, <1>4, <2>1, <2>2, <2>3 DEF SetupTypes
<1>7. Progress(i)'
  <2>1. ASSUME NEW g \in Files
        PROVE  /\ g \in published'[i] <=> k + 1 > LinkAt(g)
               /\ g \in whole[i] <=> k + 1 > 3 + g
               /\ g \in temp[i] <=> g < k + 1 /\ k + 1 <= LinkAt(g) + 1
    <3>1. /\ g \in published[i] <=> k > LinkAt(g)
          /\ g \in whole[i] <=> k > 3 + g
          /\ g \in temp[i] <=> g < k /\ k <= LinkAt(g) + 1
      BY <1>0, <1>1, <1>2 DEF Progress
    <3> QED BY <1>3, <1>5, <3>1, Places
  <2>2. seen[i] = Free BY <1>0, <1>1 DEF Progress
  <2> QED BY <1>1, <1>4, <1>5, <2>1, <2>2 DEF Progress
<1>8. Names(i)'
  <2>1. ASSUME NEW g \in Files
        PROVE  /\ k + 1 > LinkAt(g) => g = f \/ k > LinkAt(g)
               /\ k + 1 > SyncAt(g) => k > SyncAt(g)
               /\ ~(0 > 4 - g) /\ ~(0 > 7 - g)
    BY <1>3, Places
  <2>2. i \in Mine(i, f) BY DEF Mine
  <2>3. ASSUME NEW g \in Files
        PROVE  /\ final'[g] = i \/ i \in disk'[g] => g \in published'[i]
               /\ k + 1 > LinkAt(g) => final'[g] \in Mine(i, g)
               /\ k + 1 > SyncAt(g) => final'[g] \in Mine(i, g) /\ disk'[g] \subseteq Mine(i, g)
    <3>1. /\ final[g] = i \/ i \in disk[g] => g \in published[i]
          /\ k > LinkAt(g) => final[g] \in Mine(i, g)
          /\ k > SyncAt(g) => final[g] \in Mine(i, g) /\ disk[g] \subseteq Mine(i, g)
      <4>1. 0 <= 4 - g BY Places
      <4> QED BY <1>0, <1>1, <1>2, <4>1 DEF Names
    <3> QED BY <1>5, <2>1, <2>2, <3>1
  <2>4. final'[3] = i => final'[1] = i /\ final'[2] \in {i, Foreign}
    <3>1. CASE f = 3
      <4>1. k > LinkAt(1) /\ k > LinkAt(2) /\ 1 \in Files /\ 2 \in Files
        BY <1>3, <3>1, Places
      <4>2. final[1] \in Mine(i, 1) /\ final[2] \in Mine(i, 2)
        <5>1. 0 <= 4 - 1 /\ 0 <= 4 - 2 OBVIOUS
        <5> QED BY <1>0, <1>1, <1>2, <4>1, <5>1 DEF Names
      <4> QED BY <1>5, <3>1, <4>1, <4>2 DEF Mine
    <3>2. CASE f # 3
      <4>1. 3 \in Files /\ ~(k > LinkAt(3)) BY <1>3, <3>2, Places
      <4>2. final[3] # i BY <1>0, <1>2, <4>1 DEF Names, Progress
      <4> QED BY <1>5, <3>2, <4>1, <4>2
    <3> QED BY <3>1, <3>2
  <2> QED BY <1>1, <1>4, <1>5, <2>1, <2>3, <2>4, Places DEF Names
<1>9. ASSUME NEW j \in Inits, j # i PROVE Progress(j)' /\ Names(j)'
  <2>1. Progress(j)' BY <1>4, <1>5, <1>9, Untouched
  <2>2. Names(j) BY DEF SetupInv
  <2>3. final[f] \notin Mine(j, f) /\ final'[f] # j /\ final[f] # j /\ final[f] # Foreign
    BY <1>4, <1>5, <1>9, SetupAssumption, NotMine
  <2>4. final'[3] = j => final'[1] = j /\ final'[2] \in {j, Foreign} /\ (undo[j] >= 2 => readOnly)
    <3> SUFFICES ASSUME final'[3] = j PROVE final'[1] = j /\ final'[2] \in {j, Foreign}
                                             /\ (undo[j] >= 2 => readOnly)
      OBVIOUS
    <3>1. f # 3 /\ final[3] = j BY <1>5, <2>3, Places
    <3>2. final[1] = j /\ final[2] \in {j, Foreign} /\ (undo[j] >= 2 => readOnly)
      BY <1>1, <2>2, <3>1, Places DEF Names
    <3>3. f # 1 /\ f # 2 BY <2>3, <3>2
    <3> QED BY <3>1, <3>3, Places
  <2>5. ASSUME NEW g \in Files, undo[j] = 0, at[j] > SyncAt(g) PROVE g # f
    BY <2>2, <2>3, <2>5 DEF Names
  <2>6. Names(j)'
    BY <1>1, <1>4, <1>5, <1>9, <2>2, <2>3, <2>4, <2>5, Places DEF Names
  <2> QED BY <2>1, <2>6
<1> QED BY <1>6, <1>7, <1>8, <1>9 DEF SetupInv

\* What is published becomes durable.
LEMMA SyncKeeps ==
    ASSUME SetupInv, NEW i \in Inits, SyncDir(i) PROVE SetupInv'
<1>0. SetupTypes /\ Progress(i) BY DEF SetupInv
<1>1. undo[i] = 0 /\ over[i] = "no" /\ ~crashed /\ at[i] \in {11, 14}
  BY CallFacts DEF SyncDir, At, Running
<1>2. PICK k \in {11, 14} : k = at[i] BY <1>1
<1>3. /\ UNCHANGED <<undo, seen, over, final, temp, whole, published, readOnly, crashed>>
      /\ at' = [at EXCEPT ![i] = k + 1] /\ disk' = [f \in Files |-> {final[f]}]
  BY <1>2 DEF SyncDir, Advance, FsyncDir, rest
<1>4. at'[i] = k + 1 /\ \A j \in Inits : j # i => at'[j] = at[j]
  BY <1>0, <1>3 DEF SetupTypes
<1>5. SetupTypes'
  BY <1>0, <1>3 DEF SetupTypes
<1>6. Progress(i)'
  <2>1. ASSUME NEW g \in Files
        PROVE  /\ g \in published[i] <=> k + 1 > LinkAt(g)
               /\ g \in whole[i] <=> k + 1 > 3 + g
               /\ g \in temp[i] <=> g < k + 1 /\ k + 1 <= LinkAt(g) + 1
    <3>1. /\ g \in published[i] <=> k > LinkAt(g)
          /\ g \in whole[i] <=> k > 3 + g
          /\ g \in temp[i] <=> g < k /\ k <= LinkAt(g) + 1
      BY <1>0, <1>1, <1>2 DEF Progress
    <3> QED BY <3>1, Places
  <2>2. seen[i] = Free BY <1>0, <1>1 DEF Progress
  <2> QED BY <1>1, <1>3, <1>4, <2>1, <2>2 DEF Progress
<1>7. ASSUME NEW j \in Inits PROVE Progress(j)' /\ Names(j)'
  <2>1. Progress(j)'
    <3>1. CASE j = i BY <1>6, <3>1
    <3>2. CASE j # i BY <1>3, <1>4, <3>2, Untouched
    <3> QED BY <3>1, <3>2
  <2>2. Names(j) /\ at[j] \in Nat /\ at'[j] \in Nat
    <3>1. at[j] \in 0..15 /\ at'[j] \in 0..15
      BY <1>0, <1>5 DEF SetupTypes
    <3>2. Names(j)
      BY <1>0 DEF SetupInv
    <3> QED BY <3>1, <3>2
  <2>3. ASSUME NEW g \in Files
        PROVE  /\ at'[j] > LinkAt(g) => at[j] > LinkAt(g)
               /\ at'[j] > SyncAt(g) => at[j] > LinkAt(g)
    BY <1>2, <1>4, <2>2, Places
  <2>4. Names(j)'
    <3>1. \A g \in Files : 0 <= 4 - g BY Places
    <3> QED BY <1>1, <1>3, <2>2, <2>3, <3>1 DEF Names
  <2> QED BY <2>1, <2>4
<1> QED BY <1>5, <1>7 DEF SetupInv

\* An invocation ends, or gives up.
LEMMA EndKeeps ==
    ASSUME SetupInv, NEW i \in Inits, Done(i) \/ Undone(i) \/ Killed(i) \/ Fails(i)
    PROVE  SetupInv'
<1>0. SetupTypes /\ Progress(i) /\ Names(i) BY DEF SetupInv
<1>1. /\ UNCHANGED <<at, seen, final, temp, disk, whole, published, readOnly, crashed>>
      /\ over[i] = "no"
      /\ \/ over' = [over EXCEPT ![i] = "done"] /\ undo' = undo /\ at[i] > 14
         \/ over' = [over EXCEPT ![i] = "failed"] /\ undo' = undo /\ undo[i] = 7
         \/ over' = [over EXCEPT ![i] = "killed"] /\ undo' = undo
         \/ over' = over /\ undo' = [undo EXCEPT ![i] = 1] /\ undo[i] = 0 /\ at[i] \in 1..14
                         /\ ~crashed
  BY ProgramFacts DEF Done, Undone, Killed, Fails, Running, rest
<1>2. SetupTypes'
  BY <1>0, <1>1 DEF SetupTypes
<1>3. ASSUME NEW j \in Inits, j # i PROVE Progress(j)' /\ Names(j)'
  BY <1>0, <1>1, <1>3, Untouched DEF SetupTypes
<1>4. /\ at[i] \in 0..15 /\ undo[i] \in 0..7
      /\ \/ over'[i] = "done" /\ undo'[i] = undo[i] /\ at[i] > 14
         \/ over'[i] = "failed" /\ undo'[i] = undo[i] /\ undo[i] = 7
         \/ over'[i] = "killed" /\ undo'[i] = undo[i]
         \/ over'[i] = "no" /\ undo'[i] = 1 /\ undo[i] = 0 /\ at[i] \in 1..14 /\ ~crashed
  BY <1>0, <1>1 DEF SetupTypes
<1>5. Progress(i)'
  BY <1>0, <1>1, <1>4 DEF Progress
<1>6. Names(i)'
  <2>1. CASE undo'[i] = undo[i]
    BY <1>0, <1>1, <2>1 DEF Names
  <2>2. CASE undo'[i] = 1 /\ undo[i] = 0
    <3>1. \A g \in Files : ~(1 > 4 - g) /\ ~(1 > 7 - g) /\ 0 <= 4 - g BY Places
    <3> QED BY <1>0, <1>1, <2>2, <3>1 DEF Names
  <2> QED BY <1>4, <2>1, <2>2
<1> QED BY <1>2, <1>3, <1>5, <1>6 DEF SetupInv

\* What a rollback is about to take back is its own, or a key command's.
LEMMA Ahead ==
    ASSUME SetupInv, NEW i \in Inits, undo[i] \in 1..3, seen[i] # Free, ~crashed
    PROVE  LET f == 4 - undo[i] IN
           /\ f \in Files /\ f \in published[i] /\ seen[i] = i
           /\ final[f] = i \/ (f = 2 /\ final[f] = Foreign)
           /\ final[1] = i
<1> DEFINE f == 4 - undo[i]
<1>1. SetupTypes /\ Progress(i) /\ Names(i) BY DEF SetupInv
<1>2. f \in published[i] /\ f \in Files /\ seen[i] = i
  BY <1>1, Places DEF Progress
<1>3. at[i] > LinkAt(f) /\ undo[i] <= 4 - f /\ at[i] \in 0..15 /\ undo[i] \in 1..3
  BY <1>1, <1>2 DEF Progress, SetupTypes
<1>4. final[f] \in Mine(i, f)
  BY <1>1, <1>2, <1>3 DEF Names
<1>5. at[i] > LinkAt(1) /\ undo[i] <= 4 - 1 /\ 1 \in Files
  BY <1>2, <1>3, Places
<1>6. final[1] \in Mine(i, 1)
  BY <1>1, <1>5 DEF Names
<1> QED BY <1>2, <1>4, <1>6 DEF Mine

\* A rollback looks at a name.
LEMMA LooksKeeps ==
    ASSUME SetupInv, NEW i \in Inits, Looks(i) PROVE SetupInv'
<1>0. SetupTypes /\ Progress(i) /\ Names(i) BY DEF SetupInv
<1>1. PICK u \in 1..3 : u = undo[i] BY DEF Looks
<1>2. PICK f \in Files : f = 4 - u BY <1>1, Places
<1>3. /\ UNCHANGED <<at, over, final, temp, disk, whole, published, readOnly, crashed>>
      /\ seen[i] = Free /\ ~crashed
      /\ \/ /\ f \in published[i] /\ final[f] = i
            /\ seen' = [seen EXCEPT ![i] = i] /\ undo' = undo
         \/ /\ f \notin published[i] \/ final[f] # i
            /\ undo' = [undo EXCEPT ![i] = u + 1] /\ seen' = seen
  BY <1>1, <1>2 DEF Looks, Undoing, NextUndo, Removable
<1>4. SetupTypes'
  <2>1. i \in Entries BY DEF Entries
  <2>2. u + 1 \in 0..7 OBVIOUS
  <2> QED BY <1>0, <1>3, <2>1, <2>2 DEF SetupTypes
<1>5. ASSUME NEW j \in Inits, j # i PROVE Progress(j)' /\ Names(j)'
  BY <1>0, <1>3, <1>5, Untouched DEF SetupTypes
<1>6. at[i] \in 1..14 BY <1>0, <1>1 DEF Progress
<1>7. CASE undo' = undo /\ seen' = [seen EXCEPT ![i] = i] /\ f \in published[i]
  <2>1. seen'[i] = i /\ undo'[i] = u BY <1>0, <1>1, <1>7 DEF SetupTypes
  <2>2. Progress(i)' BY <1>0, <1>1, <1>2, <1>3, <1>7, <2>1 DEF Progress
  <2>3. Names(i)' BY <1>0, <1>3, <1>7 DEF Names
  <2> QED BY <1>4, <1>5, <2>2, <2>3 DEF SetupInv
<1>8. CASE /\ f \notin published[i] \/ final[f] # i
           /\ undo' = [undo EXCEPT ![i] = u + 1] /\ seen' = seen
  <2>1. undo'[i] = u + 1 /\ seen'[i] = Free BY <1>0, <1>3, <1>8 DEF SetupTypes
  <2>2. Progress(i)' BY <1>0, <1>1, <1>3, <1>6, <2>1 DEF Progress
  <2>3. final[f] # i BY <1>0, <1>8 DEF Names
  <2>4. ASSUME NEW g \in Files
        PROVE  /\ u + 1 > 4 - g => g = f \/ u > 4 - g
               /\ u + 1 <= 4 - g => u <= 4 - g
               /\ ~(u + 1 > 7 - g) /\ u + 1 # 0
    BY <1>2, Places
  <2>5. final[3] # i \/ readOnly
    <3> SUFFICES ASSUME ~readOnly PROVE final[3] # i OBVIOUS
    <3>1. u > 4 - 3 => final[3] # i BY <1>0, <1>1, <1>3, Places DEF Names
    <3>2. u = 1 => f = 3 BY <1>2
    <3> QED BY <2>3, <3>1, <3>2
  <2>6. Names(i)'
    BY <1>0, <1>1, <1>3, <2>1, <2>3, <2>4, <2>5, Places DEF Names
  <2> QED BY <1>4, <1>5, <2>2, <2>6 DEF SetupInv
<1> QED BY <1>3, <1>7, <1>8

\* A rollback unlinks a name.  It still holds the pepper, so that no other
\* invocation relies on the users file that it may take away.
LEMMA RemovesKeeps ==
    ASSUME SetupInv, NEW i \in Inits, Removes(i) PROVE SetupInv'
<1>0. SetupTypes /\ Progress(i) /\ Names(i) BY DEF SetupInv
<1>1. PICK u \in 1..3 : u = undo[i] BY DEF Removes
<1>2. PICK f \in Files : f = 4 - u BY <1>1, Places
<1>3. /\ UNCHANGED <<at, over, temp, whole, published, readOnly, crashed>>
      /\ seen[i] # Free /\ ~crashed
      /\ undo' = [undo EXCEPT ![i] = u + 1] /\ seen' = [seen EXCEPT ![i] = Free]
      /\ \/ readOnly /\ final' = final /\ disk' = disk
         \/ /\ ~readOnly /\ final' = [final EXCEPT ![f] = Free]
            /\ disk' = [disk EXCEPT ![f] = @ \union {Free}]
  BY <1>1, <1>2 DEF Removes, Undoing, NextUndo, Entry
<1>4. /\ final[f] = i \/ (f = 2 /\ final[f] = Foreign)
      /\ final[1] = i
  BY <1>1, <1>2, <1>3, Ahead
<1>5. SetupTypes'
  <2>1. Free \in Entries BY DEF Entries
  <2>2. u + 1 \in 0..7 OBVIOUS
  <2> QED BY SMTT(60), <1>0, <1>3, <2>1, <2>2 DEF SetupTypes
<1>6. /\ undo'[i] = u + 1 /\ seen'[i] = Free /\ at[i] \in 1..14
      /\ \A j \in Inits : j # i => undo'[j] = undo[j] /\ seen'[j] = seen[j]
  <2>1. at[i] \in 1..14 BY <1>0, <1>1 DEF Progress
  <2> QED BY <1>0, <1>3, <2>1 DEF SetupTypes
<1>7. /\ \A g \in Files : g # f => final'[g] = final[g] /\ disk'[g] = disk[g]
      /\ readOnly => final'[f] = final[f] /\ disk'[f] = disk[f]
      /\ ~readOnly => final'[f] = Free /\ disk'[f] = disk[f] \union {Free}
  BY <1>0, <1>3 DEF SetupTypes
<1>8. Progress(i)'
  BY <1>0, <1>1, <1>3, <1>6 DEF Progress
<1>9. Free # i /\ Free # Foreign /\ i # Foreign
  BY SetupAssumption
<1>10. Names(i)'
  <2>1. ASSUME NEW g \in Files
        PROVE  /\ u + 1 > 4 - g => g = f \/ u > 4 - g
               /\ u + 1 <= 4 - g => u <= 4 - g /\ g # f
               /\ ~(u + 1 > 7 - g) /\ u + 1 # 0
    BY <1>2, Places
  <2>2. ASSUME NEW g \in Files
        PROVE  /\ final'[g] = i => final[g] = i
               /\ i \in disk'[g] => i \in disk[g]
    BY <1>7, <1>9
  <2>3. final'[3] = i => final'[1] = i /\ final'[2] \in {i, Foreign} /\ readOnly
    <3> SUFFICES ASSUME final'[3] = i
                 PROVE  final'[1] = i /\ final'[2] \in {i, Foreign} /\ readOnly
      OBVIOUS
    <3>1. final[3] = i BY <2>2, Places
    <3>2. final[1] = i /\ final[2] \in {i, Foreign} /\ (u >= 2 => readOnly)
      BY <1>0, <1>1, <1>3, <3>1, Places DEF Names
    <3>3. readOnly
      <4>1. CASE u >= 2 BY <3>2, <4>1
      <4>2. CASE u = 1
        <5>1. f = 3 BY <1>2, <4>2
        <5> QED BY <1>7, <1>9, <5>1
      <4> QED BY <4>1, <4>2
    <3> QED BY <1>7, <3>2, <3>3, Places
  <2>4. ASSUME NEW g \in Files
        PROVE  /\ u > 4 - g /\ ~readOnly => final[g] # i
               /\ u <= 4 - g /\ at[i] > LinkAt(g) => final[g] \in Mine(i, g)
               /\ final[g] = i \/ i \in disk[g] => g \in published[i]
    BY <1>0, <1>1, <1>3 DEF Names
  <2> QED BY <1>3, <1>6, <1>7, <1>9, <2>1, <2>2, <2>3, <2>4, Places DEF Names
<1>11. ASSUME NEW j \in Inits, j # i PROVE Progress(j)' /\ Names(j)'
  <2>1. Progress(j)' BY <1>3, <1>6, <1>11, Untouched
  <2>2. Names(j) /\ at[j] \in 0..15 /\ undo[j] \in 0..7 BY <1>0 DEF SetupInv, SetupTypes
  <2>3. final[1] # j /\ final[3] # j
    <3>1. final[1] # j BY <1>4, <1>11
    <3>2. final[3] # j BY <1>3, <2>2, <3>1, Places DEF Names
    <3> QED BY <3>1, <3>2
  \* An invocation that counts on the name would hold the pepper too.
  <2>4. ASSUME undo[j] <= 4 - f, at[j] > LinkAt(f) PROVE FALSE
    <3>1. 1 \in Files /\ undo[j] <= 4 - 1 /\ at[j] > LinkAt(1) BY <2>2, <2>4, Places
    <3>2. final[1] \in Mine(j, 1) BY <1>3, <2>2, <3>1 DEF Names
    <3> QED BY <2>3, <3>2 DEF Mine
  <2>5. Names(j)'
    <3>1. Free # j BY SetupAssumption
    <3>2. ASSUME NEW g \in Files
          PROVE  /\ final'[g] = j => final[g] = j
                 /\ j \in disk'[g] => j \in disk[g]
      BY <1>7, <3>1
    <3>3. undo[j] = 0 /\ at[j] > SyncAt(f) => undo[j] <= 4 - f /\ at[j] > LinkAt(f)
      BY <2>2, Places
    <3>4. final'[3] # j BY <2>3, <3>2, Places
    <3>5. ASSUME NEW g \in Files
          PROVE  /\ undo[j] <= 4 - g /\ at[j] > LinkAt(g) => final'[g] \in Mine(j, g)
                 /\ undo[j] = 0 /\ at[j] > SyncAt(g) =>
                       final'[g] \in Mine(j, g) /\ disk'[g] \subseteq Mine(j, g)
      <4>1. CASE g = f BY <2>4, <3>3, <4>1
      <4>2. CASE g # f BY <1>3, <1>7, <2>2, <4>2 DEF Names
      <4> QED BY <4>1, <4>2
    <3> QED BY <1>3, <1>6, <1>11, <2>2, <3>2, <3>4, <3>5, Places DEF Names
  <2> QED BY <2>1, <2>5
<1> QED BY <1>5, <1>8, <1>10, <1>11 DEF SetupInv

\* A rollback unlinks a temporary name.
LEMMA RemovesTempKeeps ==
    ASSUME SetupInv, NEW i \in Inits, RemovesTemp(i) PROVE SetupInv'
<1>0. SetupTypes /\ Progress(i) /\ Names(i) BY DEF SetupInv
<1>1. PICK u \in 4..6 : u = undo[i] BY DEF RemovesTemp
<1>2. PICK f \in Files : f = 7 - u BY <1>1, Places
<1>3. /\ UNCHANGED <<at, seen, over, final, disk, whole, published, readOnly, crashed>>
      /\ undo' = [undo EXCEPT ![i] = u + 1] /\ ~crashed
      /\ \/ temp' = [temp EXCEPT ![i] = @ \ {f}]
         \/ readOnly /\ temp' = temp
  BY <1>1, <1>2 DEF RemovesTemp, Undoing, NextUndo, UnlinkInDir, rest
<1>4. SetupTypes'
  <2>1. u + 1 \in 0..7 OBVIOUS
  <2> QED BY <1>0, <1>3, <2>1 DEF SetupTypes
<1>5. /\ undo'[i] = u + 1 /\ at[i] \in 1..14
      /\ readOnly \/ temp'[i] = temp[i] \ {f}
      /\ \A j \in Inits : j # i => undo'[j] = undo[j] /\ temp'[j] = temp[j]
  <2>1. at[i] \in 1..14 BY <1>0, <1>1 DEF Progress
  <2> QED BY <1>0, <1>3, <2>1 DEF SetupTypes
<1>6. Progress(i)'
  BY <1>0, <1>1, <1>3, <1>5 DEF Progress
<1>7. Names(i)'
  <2>1. ASSUME NEW g \in Files
        PROVE  /\ u > 4 - g /\ ~(u + 1 <= 4 - g) /\ u + 1 # 0
               /\ u + 1 > 7 - g => u > 7 - g \/ g = f
    BY <1>2, Places
  <2> QED BY <1>0, <1>1, <1>3, <1>5, <2>1, Places DEF Names
<1>8. ASSUME NEW j \in Inits, j # i PROVE Progress(j)' /\ Names(j)'
  BY <1>3, <1>5, <1>8, Untouched
<1> QED BY <1>4, <1>6, <1>7, <1>8 DEF SetupInv

\* The key command.
LEMMA KeyKeeps ==
    ASSUME SetupInv, KeyLoads \/ KeyRenames \/ KeySyncs \/ KeyStops PROVE SetupInv'
<1>0. SetupTypes BY DEF SetupInv
<1>1. UNCHANGED <<at, undo, seen, over, temp, whole, published, readOnly, crashed>> /\ ~crashed
  BY DEF KeyLoads, KeyRenames, KeySyncs, KeyStops
<1>2. \/ final' = final /\ disk' = disk
      \/ final' = [final EXCEPT ![2] = Foreign] /\ disk' = [disk EXCEPT ![2] = @ \union {Foreign}]
      \/ final' = final /\ disk' = [f \in Files |-> {final[f]}]
  BY DEF KeyLoads, KeyRenames, KeySyncs, KeyStops, Entry, FsyncDir, Users
<1>3. SetupTypes'
  <2>1. Foreign \in Entries BY DEF Entries
  <2> QED BY <1>0, <1>1, <1>2, <2>1 DEF SetupTypes
<1>4. ASSUME NEW j \in Inits PROVE Progress(j)' /\ Names(j)'
  <2>1. Progress(j)' BY <1>1, Untouched
  <2>2. Names(j) /\ at[j] \in 0..15 /\ undo[j] \in 0..7 BY <1>0 DEF SetupInv, SetupTypes
  <2>3. Foreign \in Mine(j, 2) /\ Foreign # j BY SetupAssumption DEF Mine
  <2>4. CASE final' = final /\ disk' = disk
    BY <1>1, <2>1, <2>2, <2>4 DEF Names
  <2>5. CASE /\ final' = [final EXCEPT ![2] = Foreign]
             /\ disk' = [disk EXCEPT ![2] = @ \union {Foreign}]
    <3>1. /\ final'[2] = Foreign /\ disk'[2] = disk[2] \union {Foreign}
          /\ \A g \in Files : g # 2 => final'[g] = final[g] /\ disk'[g] = disk[g]
      BY <1>0, <2>5, Places DEF SetupTypes
    <3>2. final'[3] = j => final'[1] = j /\ final'[2] \in {j, Foreign} /\ (undo[j] >= 2 => readOnly)
      BY <1>1, <2>2, <3>1, Places DEF Names
    <3>3. ASSUME NEW g \in Files
          PROVE  /\ final'[g] = j => final[g] = j
                 /\ j \in disk'[g] => j \in disk[g]
                 /\ final[g] \in Mine(j, g) => final'[g] \in Mine(j, g)
                 /\ disk[g] \subseteq Mine(j, g) => disk'[g] \subseteq Mine(j, g)
      BY <2>3, <3>1
    <3> QED BY <1>1, <2>1, <2>2, <3>2, <3>3, Places DEF Names
  <2>6. CASE final' = final /\ disk' = [f \in Files |-> {final[f]}]
    <3>1. \A g \in Files : disk'[g] = {final[g]} BY <2>6
    <3> QED BY <1>1, <2>1, <2>2, <2>6, <3>1 DEF Names
  <2> QED BY <1>2, <2>1, <2>4, <2>5, <2>6
<1> QED BY <1>3, <1>4 DEF SetupInv

\* The environment.
LEMMA WorldKeeps ==
    ASSUME SetupInv, TurnsReadOnly \/ MachineCrash PROVE SetupInv'
<1>0. SetupTypes BY DEF SetupInv
<1>1. CASE TurnsReadOnly
  <2>1. /\ UNCHANGED <<at, undo, seen, over, final, temp, disk, whole, published, crashed>>
        /\ readOnly' = TRUE
    BY <1>1 DEF TurnsReadOnly
  <2>2. SetupTypes' BY <1>0, <2>1 DEF SetupTypes
  <2>3. ASSUME NEW j \in Inits PROVE Progress(j)' /\ Names(j)'
    <3>1. Progress(j) /\ Names(j) BY DEF SetupInv
    <3>2. Progress(j)' BY <2>1, <3>1 DEF Progress
    <3>3. Names(j)' BY <2>1, <3>1 DEF Names
    <3> QED BY <3>2, <3>3
  <2> QED BY <2>2, <2>3 DEF SetupInv
<1>2. CASE MachineCrash
  <2>1. /\ UNCHANGED <<at, undo, seen, temp, whole, published, readOnly>> /\ crashed' = TRUE
        /\ ~crashed
        /\ disk' = [f \in Files |-> {final'[f]}]
        /\ over' = [i \in Inits |-> IF over[i] = "no" THEN "killed" ELSE over[i]]
    BY <1>2 DEF MachineCrash
  <2>2. PICK p \in disk[1], u \in disk[2], c \in disk[3] : final' = <<p, u, c>>
    BY <1>2 DEF MachineCrash, Users, Config
  <2>3. final' \in [Files -> Entries] /\ \A g \in Files : final'[g] \in disk[g]
    <3>1. p \in Entries /\ u \in Entries /\ c \in Entries
      BY <1>0, <2>2, Places DEF SetupTypes
    <3>2. final'[1] = p /\ final'[2] = u /\ final'[3] = c BY <2>2
    <3>3. final' \in [1..3 -> Entries] BY <2>2, <3>1
    <3> QED BY <2>2, <3>2, <3>3, Places DEF Files
  <2>4. SetupTypes'
    <3>1. disk' \in [Files -> SUBSET Entries] BY <2>1, <2>3
    <3>2. over' \in [Inits -> {"no", "done", "failed", "killed"}]
      BY <1>0, <2>1 DEF SetupTypes
    <3> QED BY <1>0, <2>1, <2>3, <3>1, <3>2 DEF SetupTypes
  <2>5. ASSUME NEW j \in Inits PROVE Progress(j)' /\ Names(j)'
    <3>1. Progress(j) /\ Names(j) BY DEF SetupInv
    <3>2. over'[j] # "no" /\ (over'[j] \in {"done", "failed"} => over[j] = over'[j])
      BY <2>1
    <3>3. Progress(j)' BY <2>1, <3>1, <3>2 DEF Progress
    <3>4. ASSUME NEW g \in Files
          PROVE  /\ disk'[g] = {final'[g]}
                 /\ final'[g] = j => j \in disk[g]
                 /\ disk[g] \subseteq Mine(j, g) => final'[g] \in Mine(j, g)
      BY <2>1, <2>3
    <3>5. Names(j)' BY <2>1, <3>1, <3>4 DEF Names
    <3> QED BY <3>3, <3>5
  <2> QED BY <2>4, <2>5 DEF SetupInv
<1> QED BY <1>1, <1>2

(***************************************************************************)
(* How far each invocation has got, and what the names refer to, for any   *)
(* number of invocations (commitInitArtifacts, rollbackCommitFiles).       *)
(***************************************************************************)
THEOREM SetupInductive == SetupSpec => []SetupInv
<1>1. SetupInit => SetupInv
  <2> SUFFICES ASSUME SetupInit PROVE SetupInv OBVIOUS
  <2>1. final \in [Files -> {Free, Foreign}] /\ disk = [f \in Files |-> {final[f]}]
    BY DEF SetupInit
  <2>2. SetupTypes
    <3>1. final \in [Files -> Entries] /\ disk \in [Files -> SUBSET Entries]
      BY <2>1 DEF Entries
    <3>2. /\ at \in [Inits -> 0..15] /\ undo \in [Inits -> 0..7]
          /\ over \in [Inits -> {"no", "done", "failed", "killed"}] /\ seen \in [Inits -> Entries]
      BY DEF SetupInit, Entries
    <3>3. /\ temp \in [Inits -> SUBSET Files] /\ whole \in [Inits -> SUBSET Files]
          /\ published \in [Inits -> SUBSET Files]
      BY DEF SetupInit
    <3>4. readOnly \in BOOLEAN /\ crashed \in BOOLEAN BY DEF SetupInit
    <3> QED BY <3>1, <3>2, <3>3, <3>4 DEF SetupTypes
  <2>3. ASSUME NEW i \in Inits PROVE Progress(i) /\ Names(i)
    <3>1. /\ at[i] = 0 /\ undo[i] = 0 /\ over[i] = "no" /\ temp[i] = {} /\ whole[i] = {}
          /\ published[i] = {} /\ crashed = FALSE /\ seen[i] = Free
      BY DEF SetupInit
    <3>2. \A g \in Files : final[g] # i /\ i \notin disk[g]
      BY <2>1, SetupAssumption
    <3>3. Progress(i) BY <3>1, Places DEF Progress
    <3>4. Names(i) BY <3>1, <3>2, Places DEF Names
    <3> QED BY <3>3, <3>4
  <2> QED BY <2>2, <2>3 DEF SetupInv
<1>2. SetupInv /\ [SetupNext]_setupVars => SetupInv'
  <2> SUFFICES ASSUME SetupInv, [SetupNext]_setupVars PROVE SetupInv' OBVIOUS
  <2>1. CASE UNCHANGED setupVars
    BY <2>1 DEF setupVars, SetupInv, SetupTypes, Progress, Names
  <2> QED BY <2>1, BeginKeeps, PrepareKeeps, LinkKeeps, SyncKeeps, EndKeeps, LooksKeeps,
            RemovesKeeps, RemovesTempKeeps, KeyKeeps, WorldKeeps
          DEF SetupNext
<1> QED BY <1>1, <1>2, PTL DEF SetupSpec

(***************************************************************************)
(* Wherever init stops, a configuration at its path can be used.           *)
(***************************************************************************)
THEOREM ConfigsAreUsable == SetupSpec => []ConfigIsUsable
<1>1. SetupInv => ConfigIsUsable
  <2> SUFFICES ASSUME SetupInv, NEW i \in Inits, final[Config] = i, ~(crashed /\ undo[i] # 0)
               PROVE  final[1] = i /\ final[2] \in {i, Foreign} /\ whole[i] = Files
    BY DEF ConfigIsUsable, Users
  <2>0. Progress(i) /\ Names(i) /\ at[i] \in 0..15 /\ whole[i] \subseteq Files
    BY DEF SetupInv, SetupTypes
  <2>1. at[i] > 12 BY <2>0, Places DEF Progress, Names
  <2>2. whole[i] = Files
    <3>1. \A g \in Files : at[i] > 3 + g BY <2>0, <2>1, Places
    <3> QED BY <2>0, <3>1 DEF Progress
  <2>3. CASE ~crashed
    BY <2>0, <2>2, <2>3, Places DEF Names
  <2>4. CASE undo[i] = 0
    <3>1. \A g \in {1, 2} : g \in Files /\ at[i] > LinkAt(g) /\ at[i] > SyncAt(g)
      BY <2>0, <2>1, Places
    <3>2. \A g \in {1, 2} : final[g] \in Mine(i, g)
      BY <2>0, <2>4, <3>1 DEF Names
    <3> QED BY <2>2, <3>2 DEF Mine
  <2> QED BY <2>3, <2>4
<1> QED BY <1>1, SetupInductive, PTL

(***************************************************************************)
(* An init that reports failure leaves nothing, one that reports success   *)
(* leaves everything, crash or no crash.                                   *)
(***************************************************************************)
THEOREM InitIsAllOrNothing == SetupSpec => []AllOrNothing
<1>1. SetupInv => AllOrNothing
  <2> SUFFICES ASSUME SetupInv, NEW i \in Inits
               PROVE  /\ over[i] = "failed" /\ ~readOnly /\ ~crashed =>
                            temp[i] = {} /\ \A f \in Files : final[f] # i
                      /\ over[i] = "done" =>
                            temp[i] = {} /\ \A f \in Files : final[f] \in {i, Foreign}
    BY DEF AllOrNothing
  <2>0. Progress(i) /\ Names(i) /\ at[i] \in 0..15 /\ undo[i] \in 0..7 /\ temp[i] \subseteq Files
    BY DEF SetupInv, SetupTypes
  <2>1. ASSUME over[i] = "failed", ~readOnly, ~crashed
        PROVE  temp[i] = {} /\ \A f \in Files : final[f] # i
    <3>1. CASE undo[i] = 7
      <4>1. \A f \in Files : undo[i] > 4 - f /\ undo[i] > 7 - f BY <3>1, Places
      <4> QED BY <2>0, <2>1, <4>1 DEF Names
    <3>2. CASE at[i] = 0
      <4>1. undo[i] = 0 BY <2>0, <3>2 DEF Progress
      <4>2. \A f \in Files : f \notin temp[i] /\ f \notin published[i]
        BY <2>0, <3>2, <4>1, Places DEF Progress
      <4> QED BY <2>0, <4>2 DEF Names
    <3> QED BY <2>0, <2>1, <3>1, <3>2 DEF Progress
  <2>2. ASSUME over[i] = "done"
        PROVE  temp[i] = {} /\ \A f \in Files : final[f] \in {i, Foreign}
    <3>1. at[i] = 15 /\ undo[i] = 0 BY <2>0, <2>2 DEF Progress
    <3>2. \A f \in Files : f \notin temp[i] BY <2>0, <3>1, Places DEF Progress
    <3>3. \A f \in Files : at[i] > LinkAt(f) /\ at[i] > SyncAt(f) BY <3>1, Places
    <3>4. \A f \in Files : final[f] \in Mine(i, f) BY <2>0, <3>1, <3>3 DEF Names
    <3> QED BY <2>0, <3>2, <3>4 DEF Mine
  <2> QED BY <2>1, <2>2
<1> QED BY <1>1, SetupInductive, PTL

(***************************************************************************)
(* No init replaces a name, and its rollback takes away only a name at     *)
(* which it has seen its own inode, and there only that inode or the users *)
(* file of a key command (linkInDir, rollbackCommitFiles).                 *)
(***************************************************************************)
THEOREM OthersArePreserved == SetupSpec => OthersPreserved
<1> DEFINE Kept(f) ==
              final'[f] # final[f] /\ ~crashed' =>
                  \/ final[f] = Free
                  \/ f = Users /\ final'[f] = Foreign /\ key' # key
                  \/ \E i \in Inits :
                        /\ undo[i] = 4 - f /\ undo'[i] # undo[i] /\ seen[i] = i
                        /\ final'[f] = Free
                        /\ final[f] = i \/ (f = Users /\ final[f] = Foreign)
<1>1. ASSUME SetupInv, [SetupNext]_setupVars PROVE [\A f \in Files : Kept(f)]_setupVars
  <2>0. SetupTypes BY <1>1 DEF SetupInv
  <2>1. ASSUME NEW i \in Inits, Link(i) PROVE \A f \in Files : Kept(f)
    <3>1. \A f \in Files : final'[f] # final[f] => final[f] = Free
      BY <2>0, <2>1 DEF Link, LinkInDir, Entry, SetupTypes
    <3> QED BY <3>1
  <2>2. ASSUME NEW i \in Inits, Removes(i) PROVE \A f \in Files : Kept(f)
    <3> SUFFICES ASSUME NEW f \in Files, final'[f] # final[f] PROVE Kept(f)
      OBVIOUS
    <3>1. undo[i] \in 1..3 /\ seen[i] # Free /\ ~crashed /\ undo' = [undo EXCEPT ![i] = @ + 1]
      BY <2>2 DEF Removes, Undoing, NextUndo
    <3>2. ~readOnly /\ final' = [final EXCEPT ![4 - undo[i]] = Free]
      BY <2>2 DEF Removes, Entry
    <3>3. f = 4 - undo[i] /\ final'[f] = Free
      BY <2>0, <3>1, <3>2 DEF SetupTypes
    <3>4. seen[i] = i /\ (final[f] = i \/ (f = 2 /\ final[f] = Foreign))
      BY <1>1, <3>1, <3>3, Ahead
    <3>5. undo[i] = 4 - f /\ undo'[i] # undo[i]
      BY <2>0, <3>1, <3>3, Places DEF SetupTypes
    <3> QED BY <3>3, <3>4, <3>5 DEF Users
  <2>3. CASE KeyRenames
    <3>1. final' = [final EXCEPT ![Users] = Foreign] /\ key' # key
      BY <2>3 DEF KeyRenames, Entry
    <3> QED BY <2>0, <3>1 DEF SetupTypes
  <2>4. CASE MachineCrash
    BY <2>4 DEF MachineCrash
  <2>5. ASSUME final' = final PROVE \A f \in Files : Kept(f)
    BY <2>5
  <2>6. ASSUME NEW i \in Inits,
               \/ Start(i) \/ Refuse(i) \/ Create(i) \/ Write(i) \/ Unlink(i) \/ SyncDir(i)
               \/ Done(i) \/ Fails(i) \/ Looks(i) \/ RemovesTemp(i) \/ Undone(i) \/ Killed(i)
        PROVE  \A f \in Files : Kept(f)
    <3>1. final' = final
      BY <2>6 DEF Start, Refuse, Create, Write, Unlink, SyncDir, Done, Fails, Looks, RemovesTemp,
                  Undone, Killed
    <3> QED BY <2>5, <3>1
  <2>7. CASE TurnsReadOnly \/ KeyLoads \/ KeySyncs \/ KeyStops
    BY <2>5, <2>7 DEF TurnsReadOnly, KeyLoads, KeySyncs, KeyStops
  <2>8. CASE UNCHANGED setupVars
    BY <2>8
  <2> HIDE DEF Kept
  <2> QED BY <1>1, <2>1, <2>2, <2>3, <2>4, <2>6, <2>7, <2>8 DEF SetupNext
<1> QED BY <1>1, SetupInductive, PTL DEF SetupSpec, OthersPreserved
=============================================================================
