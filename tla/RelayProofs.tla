---------------------------- MODULE RelayProofs ----------------------------
(***************************************************************************)
(* Proofs about Relay, for every size of the body, of the budget and of    *)
(* the answer, and every length of the stream.                             *)
(***************************************************************************)
EXTENDS Relay, SequenceTheorems, TLAPS

-----------------------------------------------------------------------------
(* The inductive invariant.                                                *)

Before == {"body", "load", "swap", "read", "resolve", "prepare", "forward"}
Pumping == {"top", "await", "write"}
Labels == Before \union {"buffered"} \union Pumping \union {"finish", "done"}
Events == Kinds \union Errors
Phases == {"reading", "routing", "queued", "waiting", "sending", "streaming"}
EntryT == [phase : Phases, in : Nat, out : Nat, tokens : BOOLEAN]

\* The counter is what this request and the others hold, and what a swap is
\* about to add still fits if the counter is what was loaded.
Holdings ==
    /\ pc \in Labels
    /\ mine \in 0..MaxBody /\ body \in 0..mine
    /\ cur \in Int /\ decl \in -1..(MaxBody + 1)
    /\ \E k \in Nat : others = k * Weight
    /\ used = mine * Weight + others /\ used <= Total
    /\ pc \in {"body", "load", "swap", "done"} => mine = 0
    /\ pc = "swap" => cur + Reserve(decl) * Weight <= Total
    /\ pc = "read" => body = 0 /\ mine = Reserve(decl)

\* Where the reader stands, seen from the relay.
Hands ==
    /\ pc \in Labels /\ rpc \in {"none", "parked", "reading", "offer", "gone"}
    /\ want \in {0, 1} /\ done \in BOOLEAN
    /\ partial \in Kinds \union {None} /\ offer \in Events \union {None}
    /\ rpc = "offer" => offer \in Events
    /\ pc \in Before \union {"buffered"} => rpc = "none"
    /\ rpc = "none" => want = 0 /\ ~done /\ partial = None /\ pc \notin Pumping
    /\ pc \in Pumping => ~done /\ rpc # "gone"
    /\ pc \in {"top", "write"} => rpc = "parked" /\ want = 0
    /\ pc = "await" => (want = 1 <=> rpc = "parked")

\* What the client has of what the stream brought.
Prefix == Len(out) <= Len(sent) /\ \A i \in 1..Len(out) : out[i] = sent[i]

Streamed ==
    /\ sent \in Seq(Events) /\ out \in Seq(Kinds) /\ ev \in Kinds \union {None}
    /\ injected \in BOOLEAN
    /\ pc \in Before \union {"buffered"} => sent = <<>> /\ out = <<>>
    /\ pc = "top" => sent = out
    /\ pc = "write" => ev \in Kinds /\ sent = Append(out, ev)
    /\ pc = "await" =>
          sent = IF rpc = "offer" /\ ~Swallowed(offer) THEN Append(out, offer) ELSE out
    /\ rpc # "none" => Prefix
    /\ pc \in Before \union Pumping => class = ""
    /\ rpc # "none" /\ class = "ok" => rpc = "gone" /\ sent = Append(out, "eof")

\* How much the client has, and what the registry shows of it.
Counted ==
    /\ bytesOut \in Nat
    /\ pc # "done" => live \in EntryT
    /\ pc = "done" => live = None
    /\ pc \in Before => bytesOut = 0 /\ live.out = 0
    /\ rpc # "none" /\ MaxResponseBytes > 0 =>
          /\ bytesOut <= MaxResponseBytes
          /\ pc = "write" => bytesOut + Size(ev) <= MaxResponseBytes
    /\ rpc # "none" /\ pc # "done" => live.phase = "streaming" /\ live.out = bytesOut

\* Whoever got something is charged.
Billed ==
    /\ usage \in BOOLEAN
    /\ rpc # "none" => \A i \in 1..Len(out) : out[i] \in Reports => usage
    /\ pc = "write" /\ ev \in Reports => usage
    /\ pc = "buffered" => class = "ok"
    /\ pc \in {"finish", "done"} /\ rpc # "none" => class # "rejected"
    /\ pc \in {"finish", "done"} /\ rpc = "none" /\ out # <<>> => class = "ok"
    /\ pc = "done" => charge = Charged

RelayInv == Holdings /\ Hands /\ Streamed /\ Counted /\ Billed

-----------------------------------------------------------------------------
(* The budget.                                                             *)

LEMMA Distributes ==
    ASSUME NEW a \in Int, NEW b \in Int, NEW w \in Int
    PROVE  (a + b) * w = a * w + b * w /\ (a - b) * w = a * w - b * w
  OBVIOUS

LEMMA ReserveFacts ==
    ASSUME NEW n \in -1..(MaxBody + 1)
    PROVE  Reserve(n) \in 0..MaxBody
  BY RelayAssumption DEF Reserve

\* Steps that leave the budget alone.
LEMMA BudgetAlone ==
    ASSUME Holdings, UNCHANGED budgetVars,
           pc' = pc \/ pc' \in {"resolve", "prepare", "forward", "buffered", "top", "await", "write", "finish"}
    PROVE  Holdings'
  BY DEF Holdings, budgetVars, Labels, Before, Pumping

LEMMA HoldingsKeep ==
    ASSUME Holdings, [Next]_vars
    PROVE  Holdings'
  <1>1. /\ MaxBody \in Nat \ {0} /\ Weight \in Nat \ {0} /\ Total \in Nat
        /\ mine \in Nat /\ body \in Nat
    BY RelayAssumption DEF Holdings
  <1>2. PICK k \in Nat : others = k * Weight
    BY DEF Holdings
  <1>3. k * Weight \in Nat /\ others \in Nat /\ mine * Weight \in Nat /\ used \in Nat
    BY <1>1, <1>2 DEF Holdings
  <1>4. CASE OthersAcquire
    <2>1. (k + 1) * Weight = k * Weight + Weight
      BY <1>1
    <2>2. /\ UNCHANGED <<pc, decl, cur, mine, body>>
          /\ used' = used + Weight /\ others' = (k + 1) * Weight /\ used + Weight <= Total
          /\ others' = others + Weight
      BY <1>1, <1>2, <1>4, <2>1 DEF OthersAcquire
    <2>3. used' = mine' * Weight + others' /\ used' <= Total
      BY <1>1, <1>3, <2>2 DEF Holdings
    <2>4. k + 1 \in Nat
      OBVIOUS
    <2> QED
      BY <2>2, <2>3, <2>4 DEF Holdings
  <1>5. CASE OthersRelease
    <2>1. k # 0
      BY <1>1, <1>2, <1>5 DEF OthersRelease
    <2>2. k - 1 \in Nat /\ (k - 1) * Weight = k * Weight - Weight
      BY <1>1, <2>1
    <2>3. /\ UNCHANGED <<pc, decl, cur, mine, body>>
          /\ used' = used - Weight /\ others' = (k - 1) * Weight /\ others' = others - Weight
      BY <1>2, <1>5, <2>2 DEF OthersRelease
    <2>4. used' = mine' * Weight + others' /\ used' <= Total
      BY <1>1, <1>3, <2>3 DEF Holdings
    <2> QED
      BY <2>2, <2>3, <2>4 DEF Holdings
  <1>6. CASE ReadBodyStarts
    <2>1. UNCHANGED <<used, others, cur, mine, body>> /\ pc = "body" /\ mine = 0
      BY <1>6 DEF ReadBodyStarts, Holdings
    <2>2. pc' \in {"resolve", "finish", "read", "load"} /\ decl' \in -1..(MaxBody + 1)
      BY <1>6 DEF ReadBodyStarts, Answer, Holdings
    <2>3. pc' = "read" => Reserve(decl') = 0
      BY <1>6 DEF ReadBodyStarts, Answer
    <2> QED
      BY <1>1, <2>1, <2>2, <2>3 DEF Holdings, Labels, Before, Pumping
  <1>7. CASE Load
    <2>1. Reserve(decl) \in 0..MaxBody
      BY ReserveFacts DEF Holdings
    <2>2. Reserve(decl) * Weight \in Nat
      BY <1>1, <2>1
    <2>3. /\ UNCHANGED <<used, others, decl, mine, body>> /\ cur' = used /\ pc = "load"
          /\ pc' = "finish" \/ (pc' = "swap" /\ ~(used + Reserve(decl) * Weight > Total))
          /\ Reserve(decl)' = Reserve(decl)
      BY <1>7 DEF Load, Answer, Reserve
    <2>4. pc' = "swap" => cur' + Reserve(decl)' * Weight <= Total
      BY <1>1, <1>3, <2>2, <2>3
    <2> QED
      BY <1>3, <2>3, <2>4 DEF Holdings, Labels, Before
  <1>8. CASE CompareAndSwap
    <2>1. CASE used = cur
      <3>1. Reserve(decl) \in 0..MaxBody
        BY ReserveFacts DEF Holdings
      <3>2. mine * Weight = 0 /\ mine = 0 /\ body = 0 /\ used = others
        BY <1>1, <1>3, <1>8 DEF CompareAndSwap, Holdings
      <3>3. /\ UNCHANGED <<others, decl, cur, body>>
            /\ used' = others + Reserve(decl) * Weight /\ mine' = Reserve(decl) /\ pc' = "read"
            /\ used' <= Total
        BY <1>8, <2>1, <3>2 DEF CompareAndSwap, Holdings
      <3>4. Reserve(decl) * Weight \in Nat
        BY <1>1, <3>1
      <3>5. used' = mine' * Weight + others'
        BY <1>3, <3>3, <3>4
      <3>6. body' \in 0..mine'
        BY <3>1, <3>2, <3>3
      <3>7. Reserve(decl)' = Reserve(decl)
        BY <3>3 DEF Reserve
      <3> QED
        BY <3>1, <3>2, <3>3, <3>5, <3>6, <3>7 DEF Holdings, Labels, Before
    <2>2. CASE used # cur
      BY <1>8, <2>2 DEF CompareAndSwap, Holdings, Labels, Before
    <2> QED
      BY <2>1, <2>2
  <1>9. CASE ReadBody
    <2>1. /\ decl' = 0 /\ cur' = 0 /\ UNCHANGED others /\ pc = "read"
          /\ body = 0 /\ mine = Reserve(decl) /\ decl \in -1..(MaxBody + 1)
      BY <1>9 DEF ReadBody, Holdings
    <2>2. CASE Answer("rejected") /\ UNCHANGED <<used, mine, body, live>>
      <3>1. 0 \in -1..(MaxBody + 1) /\ pc' = "finish" /\ 0 \in Int
        BY <1>1, <2>2 DEF Answer
      <3> QED
        BY <2>1, <2>2, <3>1 DEF Holdings, Labels
    <2>3. ASSUME decl <= MaxBody, NEW n \in 0..MaxBody, BodyRead(n) PROVE Holdings'
      <3>1. n <= mine
        BY <1>1, <2>1, <2>3 DEF BodyRead, Reserve
      <3>2. body' = n /\ pc' = "resolve" /\ mine' = n /\ used' = used - (mine - n) * Weight
        <4>1. CASE n < mine
          BY <2>3, <4>1 DEF BodyRead
        <4>2. CASE ~(n < mine)
          <5>1. n = mine /\ (mine - n) * Weight = 0
            BY <1>1, <3>1, <4>2
          <5> QED
            BY <1>3, <2>3, <4>2, <5>1 DEF BodyRead
        <4> QED
          BY <4>1, <4>2
      <3>3. (mine - n) * Weight = mine * Weight - n * Weight /\ n * Weight \in Nat
        BY <1>1, Distributes
      <3>4. mine - n \in Nat /\ (mine - n) * Weight \in Nat
        BY <1>1, <3>1
      <3>5. used' = mine' * Weight + others' /\ used' <= Total
        BY <1>1, <1>3, <2>1, <3>2, <3>3, <3>4 DEF Holdings
      <3>6. 0 \in -1..(MaxBody + 1) /\ n \in 0..n
        BY <1>1
      <3> QED
        BY <1>2, <2>1, <2>3, <3>2, <3>5, <3>6 DEF Holdings, Labels, Before
    <2> QED
      BY <1>9, <2>2, <2>3 DEF ReadBody
  <1>10. CASE Finish
    <2>1. /\ UNCHANGED <<others, decl, cur>> /\ pc' = "done"
          /\ used' = used - mine * Weight /\ mine' = 0 /\ body' = 0
      BY <1>10 DEF Finish
    <2>2. used' = others /\ 0 * Weight = 0 /\ used' <= Total
      BY <1>1, <1>3, <2>1 DEF Holdings
    <2> QED
      BY <1>1, <1>3, <2>1, <2>2 DEF Holdings, Labels
  <1>11. CASE Resolve \/ Prepare \/ Attempt \/ ForwardBuffers \/ ForwardFails \/ ForwardStreams
              \/ WriteBuffered
    BY <1>11, BudgetAlone
    DEF Resolve, Prepare, Attempt, ForwardBuffers, ForwardFails, ForwardStreams, WriteBuffered, Answer
  <1>12. CASE PumpTop \/ TakeError \/ TakeEvent \/ WriteEvent \/ IdleTimeout
    BY <1>12, BudgetAlone DEF PumpTop, TakeError, TakeEvent, WriteEvent, IdleTimeout, PumpReturns, Answer
  <1>13. CASE Reader \/ Upstream \/ ClientLeaves \/ UNCHANGED vars
    BY <1>13, BudgetAlone DEF Reader, ReaderWakes, ReaderLeaves, ReadCanceled, Upstream,
       LineArrives, EventEnds, StreamEnds, ReadFails, Returns, ClientLeaves, vars
  <1> QED
    BY <1>4, <1>5, <1>6, <1>7, <1>8, <1>9, <1>10, <1>11, <1>12, <1>13
    DEF Next, Handler, Environment

-----------------------------------------------------------------------------
(* Relay and reader.                                                       *)

\* The steps of the handler outside pump: the reader is not there, or not
\* looked at.
LEMMA HandsAlone ==
    ASSUME Hands, UNCHANGED readerVars, 
           \/ pc \in Before /\ pc' \in Before \union {"buffered", "finish"}
           \/ pc = "buffered" /\ pc' = "finish"
           \/ pc = "finish" /\ pc' = "done"
           \/ pc' = pc
    PROVE  Hands'
  BY DEF Hands, readerVars, Labels, Before, Pumping

LEMMA HandsKeep ==
    ASSUME Hands, [Next]_vars
    PROVE  Hands'
  <1>1. None \notin Events
    BY RelayAssumption DEF Events
  <1>2. CASE ReadBodyStarts \/ Load \/ CompareAndSwap \/ ReadBody
    BY <1>2, HandsAlone DEF ReadBodyStarts, Load, CompareAndSwap, ReadBody, BodyRead, Answer, Before
  <1>3. CASE Resolve \/ Prepare \/ Attempt \/ ForwardBuffers \/ ForwardFails
    BY <1>3, HandsAlone DEF Resolve, Prepare, Attempt, ForwardBuffers, ForwardFails, Answer, Before
  <1>4. CASE WriteBuffered \/ Finish \/ OthersAcquire \/ OthersRelease \/ ClientLeaves \/ UNCHANGED vars
    BY <1>4, HandsAlone DEF WriteBuffered, Finish, OthersAcquire, OthersRelease, ClientLeaves, vars
  <1>5. CASE ForwardStreams
    BY <1>5 DEF ForwardStreams, Hands, Labels, Before, Pumping
  <1>6. CASE PumpTop \/ WriteEvent
    <2>1. /\ UNCHANGED <<rpc, partial, offer>> /\ pc \in {"top", "write"}
          /\ \/ pc' = "finish" /\ done' = TRUE /\ want' = want
             \/ pc' = "await" /\ done' = done /\ want' = 1
             \/ pc' = "top" /\ done' = done /\ want' = want
      BY <1>6 DEF PumpTop, WriteEvent, PumpReturns, Answer
    <2>2. CASE pc' = "finish" /\ done' = TRUE /\ want' = want
      BY <2>1, <2>2 DEF Hands, Labels, Before, Pumping
    <2>3. CASE pc' = "await" /\ done' = done /\ want' = 1
      BY <2>1, <2>3 DEF Hands, Labels, Before, Pumping
    <2>4. CASE pc' = "top" /\ done' = done /\ want' = want
      BY <2>1, <2>4 DEF Hands, Labels, Before, Pumping
    <2> QED
      BY <2>1, <2>2, <2>3, <2>4
  <1>7. CASE IdleTimeout \/ TakeError \/ TakeEvent
    BY <1>7 DEF IdleTimeout, TakeError, TakeEvent, PumpReturns, Answer, Hands, Labels, Before, Pumping
  <1>8. CASE ReaderWakes \/ ReaderLeaves \/ LineArrives
    BY <1>8 DEF ReaderWakes, ReaderLeaves, LineArrives, Hands, Labels, Before, Pumping
  <1>9. CASE EventEnds \/ StreamEnds \/ ReadFails \/ ReadCanceled
    <2>1. \E r \in Events : Returns(r)
      BY <1>9 DEF EventEnds, StreamEnds, ReadFails, ReadCanceled, Hands, Events, Errors
    <2>2. rpc = "reading" /\ UNCHANGED <<pc, want, done>>
      BY <1>9 DEF EventEnds, StreamEnds, ReadFails, ReadCanceled
    <2> QED
      BY <2>1, <2>2 DEF Returns, Hands, Labels, Before, Pumping
  <1> QED
    BY <1>2, <1>3, <1>4, <1>5, <1>6, <1>7, <1>8, <1>9
    DEF Next, Handler, Reader, Upstream, Environment

-----------------------------------------------------------------------------
(* What the client sees.                                                   *)

\* One more element.
LEMMA AppendFacts ==
    ASSUME NEW T, NEW s \in Seq(T), NEW x \in T
    PROVE  /\ Append(s, x) \in Seq(T)
           /\ Len(s) \in Nat /\ Len(Append(s, x)) = Len(s) + 1
           /\ \A i \in 1..Len(s) : Append(s, x)[i] = s[i]
           /\ Append(s, x)[Len(s) + 1] = x
  BY AppendProperties, LenProperties

\* The stream grows at its end.
LEMMA PrefixGrows ==
    ASSUME Streamed, Prefix, NEW x \in Events, sent' = Append(sent, x), out' = out
    PROVE  Prefix' /\ sent' \in Seq(Events)
  <1>1. sent \in Seq(Events) /\ Len(out) \in Nat
    BY LenProperties DEF Streamed
  <1>2. /\ Append(sent, x) \in Seq(Events)
        /\ Len(sent) \in Nat /\ Len(Append(sent, x)) = Len(sent) + 1
        /\ \A i \in 1..Len(sent) : Append(sent, x)[i] = sent[i]
    BY <1>1, AppendFacts
  <1> QED
    BY <1>1, <1>2 DEF Prefix

\* Steps before the answer.
LEMMA StreamedBefore ==
    ASSUME Hands, Streamed, pc \in Before, pc' \in Before \union {"buffered", "finish"},
           UNCHANGED <<sent, out, ev, rpc>>, injected' \in BOOLEAN,
           pc' \in Before => class' = class
    PROVE  Streamed'
  BY DEF Hands, Streamed, Before, Pumping

\* Steps that do not touch the stream.
LEMMA StreamedAlone ==
    ASSUME Streamed, UNCHANGED <<sent, out, ev, injected, class, rpc, offer>>,
           pc' = pc \/ pc' = "done"
    PROVE  Streamed'
  BY ZenonT(60) DEF Streamed, Prefix, Swallowed, Before, Pumping

\* nextEvent returns: the stream brought one more event, or a chunk that is
\* swallowed.
LEMMA StreamedReturns ==
    ASSUME Hands, Streamed, NEW r \in Events, Returns(r), rpc = "reading",
           UNCHANGED <<pc, out, ev, injected, class>>
    PROVE  Streamed'
  <1>1. rpc' = "offer" /\ offer' = r /\ sent' = IF Swallowed(r) THEN sent ELSE Append(sent, r)
    BY DEF Returns
  <1>2. Prefix /\ class # "ok" /\ pc \notin Before \union {"buffered", "top", "write"}
    BY DEF Hands, Streamed, Before
  <1>3. pc = "await" => sent = out
    BY DEF Streamed
  <1>4. Prefix' /\ sent' \in Seq(Events)
    <2>1. CASE Swallowed(r)
      BY <1>1, <1>2, <2>1 DEF Prefix, Streamed
    <2>2. CASE ~Swallowed(r)
      BY <1>1, <1>2, <2>2, PrefixGrows
    <2> QED
      BY <2>1, <2>2
  <1>5. Swallowed(offer)' <=> Swallowed(r)
    BY <1>1 DEF Swallowed
  <1>6. pc' = "await" => sent' = IF rpc' = "offer" /\ ~Swallowed(offer)' THEN Append(out', offer') ELSE out'
    BY <1>1, <1>3, <1>5
  <1> QED
    BY <1>1, <1>2, <1>4, <1>6 DEF Streamed

LEMMA StreamedKeep ==
    ASSUME Hands, Streamed, [Next]_vars
    PROVE  Streamed'
  <1>1. CASE ReadBodyStarts \/ Load \/ CompareAndSwap \/ ReadBody
    <2>1. /\ UNCHANGED <<sent, out, ev, rpc, injected>>
          /\ pc \in Before /\ pc' \in Before \union {"finish"} /\ (pc' \in Before => class' = class)
      BY <1>1 DEF ReadBodyStarts, Load, CompareAndSwap, ReadBody, BodyRead, Answer, Before,
                  readerVars, relayVars, requestVars
    <2> QED
      BY <2>1, StreamedBefore DEF Streamed
  <1>2. CASE Resolve \/ Prepare \/ Attempt \/ ForwardBuffers \/ ForwardFails
    <2>1. /\ UNCHANGED <<sent, out, ev, rpc>> /\ pc \in Before
          /\ pc' \in Before \union {"buffered", "finish"} /\ (pc' \in Before => class' = class)
      BY <1>2 DEF Resolve, Prepare, Attempt, ForwardBuffers, ForwardFails, Answer, Before,
                  readerVars, relayVars
    <2>2. injected' \in BOOLEAN
      BY <1>2 DEF Resolve, Prepare, Attempt, ForwardBuffers, ForwardFails, Streamed
    <2> QED
      BY <2>1, <2>2, StreamedBefore
  <1>3. CASE Finish \/ OthersAcquire \/ OthersRelease \/ ClientLeaves \/ UNCHANGED vars
    BY <1>3, StreamedAlone DEF Finish, OthersAcquire, OthersRelease, ClientLeaves, vars,
       readerVars, relayVars, requestVars
  <1>4. CASE WriteBuffered
    <2>1. /\ UNCHANGED <<sent, ev, rpc, injected, class>> /\ pc = "buffered" /\ pc' = "finish"
          /\ out' \in {<<"id">>, <<"data">>}
      BY <1>4 DEF WriteBuffered, readerVars, requestVars
    <2>2. out' \in Seq(Kinds)
      <3>1. "id" \in Kinds /\ "data" \in Kinds
        BY DEF Kinds
      <3>2. <<"id">> \in Seq(Kinds) /\ <<"data">> \in Seq(Kinds)
        BY <3>1
      <3> QED
        BY <2>1, <3>2
    <2> QED
      BY <2>1, <2>2 DEF Hands, Streamed, Before, Pumping
  <1>5. CASE ForwardStreams
    <2>1. /\ UNCHANGED <<sent, out, ev, injected, class>> /\ pc = "forward" /\ pc' = "top"
          /\ rpc' = "parked"
      BY <1>5 DEF ForwardStreams, relayVars
    <2>2. sent = <<>> /\ out = <<>> /\ class = ""
      BY <2>1 DEF Streamed, Before
    <2>3. Prefix'
      <3>1. Len(out') = 0 /\ Len(sent') = 0
        BY <2>1, <2>2
      <3> QED
        BY <3>1 DEF Prefix
    <2> QED
      BY <2>1, <2>2, <2>3 DEF Streamed, Before
  <1>6. CASE PumpTop
    <2>1. /\ UNCHANGED <<sent, out, ev, injected, rpc>> /\ pc = "top" /\ rpc = "parked"
          /\ \/ pc' = "finish" /\ class' = "client_canceled"
             \/ pc' = "await" /\ class' = class
      BY <1>6 DEF PumpTop, PumpReturns, Answer, relayVars, requestVars, Hands
    <2> QED
      BY <2>1 DEF Streamed, Prefix, Before, Pumping
  <1>7. CASE IdleTimeout
    <2>1. /\ UNCHANGED <<sent, out, ev, injected, rpc>> /\ pc = "await"
          /\ pc' = "finish" /\ class' = "backend_stream_error"
      BY <1>7 DEF IdleTimeout, PumpReturns, Answer, relayVars, requestVars
    <2> QED
      BY <2>1 DEF Streamed, Prefix, Before, Pumping
  <1>8. CASE TakeError
    <2>1. /\ UNCHANGED <<sent, out, ev, injected>> /\ pc = "await" /\ rpc = "offer" /\ offer \in Errors
          /\ rpc' = "gone" /\ pc' = "finish" /\ class' = ErrorClass(offer)
      BY <1>8 DEF TakeError, PumpReturns, Answer, relayVars, requestVars
    <2>2. ~Swallowed(offer)
      BY <2>1 DEF Swallowed, UsageOnly, Errors
    <2>3. class' = "ok" => offer = "eof"
      BY <2>1 DEF ErrorClass
    <2> QED
      BY <2>1, <2>2, <2>3 DEF Streamed, Prefix, Before, Pumping
  <1>9. CASE TakeEvent
    <2>1. /\ UNCHANGED <<sent, out, injected>> /\ pc = "await" /\ rpc = "offer" /\ offer \in Kinds
          /\ rpc' = "parked"
          /\ \/ Swallowed(offer) /\ pc' = "top" /\ ev' = ev /\ class' = class
             \/ pc' = "finish" /\ ev' = ev /\ class' = "backend_stream_error"
             \/ ~Swallowed(offer) /\ pc' = "write" /\ ev' = offer /\ class' = class
      BY <1>9 DEF TakeEvent, PumpReturns, Answer
    <2>2. Prefix'
      BY <2>1 DEF Streamed, Prefix
    <2> QED
      BY <2>1, <2>2 DEF Streamed, Before, Pumping
  <1>10. CASE WriteEvent
    <2>1. /\ UNCHANGED <<sent, injected, rpc>> /\ pc = "write" /\ rpc = "parked" /\ ev' = None
          /\ \/ out' = Append(out, ev) /\ pc' = "top" /\ class' = class
             \/ out' = out /\ pc' = "finish" /\ class' = "client_write_error"
      BY <1>10 DEF WriteEvent, PumpReturns, Answer, Hands
    <2>2. CASE out' = Append(out, ev) /\ pc' = "top" /\ class' = class
      <3>1. out' = sent' /\ out' \in Seq(Kinds)
        <4>1. out \in Seq(Kinds) /\ ev \in Kinds /\ sent = Append(out, ev)
          BY <2>1 DEF Streamed
        <4> QED
          BY <2>1, <2>2, <4>1, AppendFacts
      <3>2. Prefix'
        <4>1. Len(out') \in Nat
          BY <3>1, LenProperties
        <4> QED
          BY <3>1, <4>1 DEF Prefix
      <3> QED
        BY <2>1, <2>2, <3>1, <3>2 DEF Streamed, Before, Pumping
    <2>3. CASE out' = out /\ pc' = "finish" /\ class' = "client_write_error"
      BY <2>1, <2>3 DEF Streamed, Prefix, Before, Pumping
    <2> QED
      BY <2>1, <2>2, <2>3
  <1>11. CASE ReaderWakes \/ ReaderLeaves \/ LineArrives
    <2>1. /\ UNCHANGED <<pc, sent, out, ev, injected, class>>
          /\ rpc \in {"parked", "offer", "reading"} /\ rpc' \in {"reading", "gone"}
          /\ rpc' = "reading" => rpc \in {"parked", "reading"}
          /\ rpc' = "gone" => done
      BY <1>11 DEF ReaderWakes, ReaderLeaves, LineArrives, relayVars, requestVars
    <2>2. pc \notin Before \union {"buffered"} /\ (rpc' = "gone" => pc # "await") /\ Prefix'
      BY <2>1 DEF Hands, Streamed, Prefix, Pumping
    <2> QED
      BY <2>1, <2>2 DEF Streamed
  <1>12. CASE EventEnds \/ StreamEnds \/ ReadFails \/ ReadCanceled
    <2>1. PICK r \in Events : Returns(r)
      BY <1>12 DEF EventEnds, StreamEnds, ReadFails, ReadCanceled, Hands, Events, Errors
    <2>2. rpc = "reading" /\ UNCHANGED <<pc, out, ev, injected, class>>
      BY <1>12 DEF EventEnds, StreamEnds, ReadFails, ReadCanceled, relayVars, requestVars
    <2> QED
      BY <2>1, <2>2, StreamedReturns
  <1> QED
    BY <1>1, <1>2, <1>3, <1>4, <1>5, <1>6, <1>7, <1>8, <1>9, <1>10, <1>11, <1>12
    DEF Next, Handler, Reader, Upstream, Environment

-----------------------------------------------------------------------------
(* How much the client has.                                                *)

\* What the updates of the registry leave alone.
LEMMA EntryFacts ==
    ASSUME live \in EntryT, NEW p \in Phases, NEW n \in Nat, NEW b \in BOOLEAN
    PROVE  /\ Phase(p) \in EntryT /\ Phase(p).phase = p /\ Phase(p).out = live.out
           /\ Wrote(n) \in EntryT /\ Wrote(n).phase = live.phase /\ Wrote(n).out = live.out + n
           /\ Tokens(b) \in EntryT /\ Tokens(b).phase = live.phase /\ Tokens(b).out = live.out
           /\ [Phase(p) EXCEPT !.in = n] \in EntryT /\ [Phase(p) EXCEPT !.in = n].out = live.out
           /\ [Wrote(n) EXCEPT !.phase = p] \in EntryT
  <1>1. /\ live = [phase |-> live.phase, in |-> live.in, out |-> live.out, tokens |-> live.tokens]
        /\ live.phase \in Phases /\ live.in \in Nat /\ live.out \in Nat /\ live.tokens \in BOOLEAN
    BY DEF EntryT
  <1>2. Phase(p) = [phase |-> p, in |-> live.in, out |-> live.out, tokens |-> live.tokens]
    BY <1>1 DEF Phase
  <1>3. Wrote(n) = [phase |-> live.phase, in |-> live.in, out |-> live.out + n, tokens |-> live.tokens]
    BY <1>1 DEF Wrote
  <1>4. PICK t \in BOOLEAN :
          Tokens(b) = [phase |-> live.phase, in |-> live.in, out |-> live.out, tokens |-> t]
    <2>1. (live.tokens \/ b) \in BOOLEAN
      OBVIOUS
    <2>2. Tokens(b) = [phase |-> live.phase, in |-> live.in, out |-> live.out,
                       tokens |-> (live.tokens \/ b)]
      BY <1>1 DEF Tokens
    <2> QED
      BY <2>1, <2>2
  <1>5. Phase(p) \in EntryT /\ Phase(p).phase = p /\ Phase(p).out = live.out
    BY <1>1, <1>2 DEF EntryT
  <1>6. Wrote(n) \in EntryT /\ Wrote(n).phase = live.phase /\ Wrote(n).out = live.out + n
    BY <1>1, <1>3 DEF EntryT
  <1>7. Tokens(b) \in EntryT /\ Tokens(b).phase = live.phase /\ Tokens(b).out = live.out
    BY <1>1, <1>4 DEF EntryT
  <1>8. [Phase(p) EXCEPT !.in = n] \in EntryT /\ [Phase(p) EXCEPT !.in = n].out = live.out
    BY <1>5 DEF EntryT
  <1>9. [Wrote(n) EXCEPT !.phase = p] \in EntryT
    BY <1>6 DEF EntryT
  <1> QED
    BY <1>5, <1>6, <1>7, <1>8, <1>9

LEMMA SizeFacts ==
    ASSUME NEW k
    PROVE  Size(k) \in Nat
  BY DEF Size

\* Before the answer nothing was written.
LEMMA CountedBefore ==
    ASSUME Hands, Counted, pc \in Before, pc' \in Before \union {"finish"},
           UNCHANGED <<bytesOut, rpc>>, live' \in EntryT, live'.out = live.out
    PROVE  Counted'
  BY DEF Hands, Counted, Before

\* Steps of relay and reader that write nothing.
LEMMA CountedAlone ==
    ASSUME Counted, UNCHANGED <<bytesOut, live>>, rpc' = "none" <=> rpc = "none",
           \/ pc' = pc /\ ev' = ev
           \/ pc \notin {"done"} /\ pc' \in {"await", "finish"}
    PROVE  Counted'
  BY DEF Counted, Before

LEMMA CountedKeep ==
    ASSUME Hands, Counted, [Next]_vars
    PROVE  Counted'
  <1>1. CASE ReadBodyStarts \/ Load \/ CompareAndSwap \/ ReadBody
    <2>1. /\ UNCHANGED <<bytesOut, rpc>> /\ pc \in Before /\ pc' \in Before \union {"finish"}
          /\ \/ live' = live
             \/ live' = Phase("routing")
             \/ \E n \in 0..MaxBody : live' = [Phase("routing") EXCEPT !.in = n]
      BY <1>1 DEF ReadBodyStarts, Load, CompareAndSwap, ReadBody, BodyRead, Answer, Before,
                  readerVars, relayVars, requestVars
    <2>2. live \in EntryT
      BY <2>1 DEF Counted, Before
    <2>3. live' \in EntryT /\ live'.out = live.out
      <3>1. "routing" \in Phases /\ \A n \in 0..MaxBody : n \in Nat
        BY RelayAssumption DEF Phases
      <3>2. Phase("routing") \in EntryT /\ Phase("routing").out = live.out
        BY <2>2, <3>1, EntryFacts
      <3>3. \A n \in 0..MaxBody : /\ [Phase("routing") EXCEPT !.in = n] \in EntryT
                                  /\ [Phase("routing") EXCEPT !.in = n].out = live.out
        BY <2>2, <3>1, EntryFacts
      <3> QED
        BY <2>1, <2>2, <3>2, <3>3
    <2> QED
      BY <2>1, <2>3, CountedBefore
  <1>2. CASE Resolve \/ Prepare \/ Attempt \/ ForwardFails
    <2>1. /\ UNCHANGED <<bytesOut, rpc>> /\ pc \in Before /\ pc' \in Before \union {"finish"}
          /\ live' \in {live, Phase("queued"), Phase("waiting")}
      BY <1>2 DEF Resolve, Prepare, Attempt, ForwardFails, Answer, Before, readerVars, relayVars
    <2>2. live \in EntryT
      BY <2>1 DEF Counted, Before
    <2>3. /\ Phase("queued") \in EntryT /\ Phase("queued").out = live.out
          /\ Phase("waiting") \in EntryT /\ Phase("waiting").out = live.out
      BY <2>2, EntryFacts DEF Phases
    <2> QED
      BY <2>1, <2>2, <2>3, CountedBefore
  <1>3. CASE ForwardBuffers
    <2>1. /\ pc = "forward" /\ pc' = "buffered" /\ UNCHANGED rpc
          /\ bytesOut' = Size("data") /\ live' = [Wrote(Size("data")) EXCEPT !.phase = "sending"]
      BY <1>3 DEF ForwardBuffers, readerVars
    <2>2. Size("data") \in Nat /\ live \in EntryT /\ rpc = "none"
      BY <2>1, SizeFacts DEF Counted, Hands, Before
    <2>3. live' \in EntryT
      BY <2>1, <2>2, EntryFacts DEF Phases
    <2> QED
      BY <2>1, <2>2, <2>3 DEF Counted, Before
  <1>4. CASE WriteBuffered \/ PumpTop \/ IdleTimeout \/ TakeError
    <2>1. /\ UNCHANGED <<bytesOut, live>> /\ (rpc' = "none" <=> rpc = "none")
          /\ pc # "done" /\ pc' \in {"await", "finish"}
      BY <1>4 DEF WriteBuffered, PumpTop, IdleTimeout, TakeError, PumpReturns, Answer,
                  readerVars, relayVars, requestVars
    <2> QED
      BY <2>1, CountedAlone
  <1>5. CASE Finish
    <2>1. pc' = "done" /\ live' = None /\ UNCHANGED <<bytesOut, rpc>>
      BY <1>5 DEF Finish, readerVars, relayVars
    <2> QED
      BY <2>1 DEF Counted, Before
  <1>6. CASE ForwardStreams
    <2>1. /\ pc = "forward" /\ pc' = "top" /\ rpc' = "parked" /\ live' = Phase("streaming")
          /\ UNCHANGED bytesOut
      BY <1>6 DEF ForwardStreams, relayVars
    <2>2. live \in EntryT /\ bytesOut = 0 /\ live.out = 0
      BY <2>1 DEF Counted, Before
    <2>3. live' \in EntryT /\ live'.phase = "streaming" /\ live'.out = 0
      BY <2>1, <2>2, EntryFacts DEF Phases
    <2> QED
      BY <2>1, <2>2, <2>3, RelayAssumption DEF Counted, Before
  <1>7. CASE TakeEvent
    <2>1. /\ pc = "await" /\ pc' \in {"top", "finish", "write"} /\ rpc = "offer" /\ rpc' = "parked"
          /\ live' = Tokens(offer \in Reports) /\ UNCHANGED bytesOut
          /\ pc' = "write" /\ MaxResponseBytes > 0 =>
                ev' = offer /\ ~(bytesOut + Size(offer) > MaxResponseBytes)
      BY <1>7 DEF TakeEvent, PumpReturns, Answer
    <2>2. live \in EntryT /\ (offer \in Reports) \in BOOLEAN
      BY <2>1 DEF Counted
    <2>3. live' \in EntryT /\ live'.phase = live.phase /\ live'.out = live.out
      BY <2>1, <2>2, EntryFacts DEF Phases
    <2>4. pc' = "write" /\ MaxResponseBytes > 0 => bytesOut + Size(ev') <= MaxResponseBytes
      BY <2>1, SizeFacts, RelayAssumption DEF Counted
    <2> QED
      BY <2>1, <2>3, <2>4 DEF Counted, Before
  <1>8. CASE WriteEvent
    <2>1. /\ pc = "write" /\ rpc # "none" /\ UNCHANGED rpc
          /\ \/ bytesOut' = bytesOut + Size(ev) /\ live' = Wrote(Size(ev)) /\ pc' = "top"
             \/ UNCHANGED <<bytesOut, live>> /\ pc' = "finish"
      BY <1>8 DEF WriteEvent, PumpReturns, Answer, Hands
    <2>2. CASE bytesOut' = bytesOut + Size(ev) /\ live' = Wrote(Size(ev)) /\ pc' = "top"
      <3>1. Size(ev) \in Nat /\ live \in EntryT /\ bytesOut \in Nat
        BY <2>1, SizeFacts DEF Counted
      <3>2. live' \in EntryT /\ live'.phase = live.phase /\ live'.out = live.out + Size(ev)
        BY <2>2, <3>1, EntryFacts DEF Phases
      <3>3. bytesOut' \in Nat
        BY <2>2, <3>1
      <3> QED
        BY <2>1, <2>2, <3>2, <3>3 DEF Counted, Before
    <2>3. CASE UNCHANGED <<bytesOut, live>> /\ pc' = "finish"
      BY <2>1, <2>3, CountedAlone
    <2> QED
      BY <2>1, <2>2, <2>3
  <1>9. CASE OthersAcquire \/ OthersRelease \/ ClientLeaves \/ UNCHANGED vars
    BY <1>9, CountedAlone DEF OthersAcquire, OthersRelease, ClientLeaves, vars,
       readerVars, relayVars, requestVars
  <1>10. CASE Reader \/ Upstream
    BY <1>10, CountedAlone DEF Reader, ReaderWakes, ReaderLeaves, ReadCanceled, Upstream,
       LineArrives, EventEnds, StreamEnds, ReadFails, Returns, relayVars, requestVars
  <1> QED
    BY <1>1, <1>2, <1>3, <1>4, <1>5, <1>6, <1>7, <1>8, <1>9, <1>10
    DEF Next, Handler, Environment

-----------------------------------------------------------------------------
(* Who is charged.                                                         *)

\* Before the answer nobody owes anything.
LEMMA BilledBefore ==
    ASSUME Hands, Streamed, Billed, pc \in Before, pc' \in Before \union {"buffered", "finish"},
           UNCHANGED <<out, rpc>>, usage' \in BOOLEAN, pc' = "buffered" => class' = "ok"
    PROVE  Billed'
  BY DEF Hands, Streamed, Billed, Before

\* The stream ends or goes on without another event written.
LEMMA BilledAlone ==
    ASSUME Billed, UNCHANGED <<out, usage>>, rpc' = "none" <=> rpc = "none",
           \/ UNCHANGED <<pc, ev, class, charge, op>>
           \/ pc \in Pumping /\ pc' = "await"
           \/ pc \in Pumping /\ pc' = "finish" /\ rpc # "none" /\ class' # "rejected"
    PROVE  Billed'
  BY DEF Billed, Pumping, Charged, Succeeded

LEMMA BilledKeep ==
    ASSUME Hands, Streamed, Billed, [Next]_vars
    PROVE  Billed'
  <1>1. CASE ReadBodyStarts \/ Load \/ CompareAndSwap \/ ReadBody
    <2>1. /\ UNCHANGED <<out, rpc, usage>> /\ pc \in Before /\ pc' \in Before \union {"finish"}
      BY <1>1 DEF ReadBodyStarts, Load, CompareAndSwap, ReadBody, BodyRead, Answer, Before,
                  readerVars, relayVars
    <2> QED
      BY <2>1, BilledBefore DEF Billed, Before
  <1>2. CASE Resolve \/ Prepare \/ Attempt \/ ForwardBuffers \/ ForwardFails
    <2>1. /\ UNCHANGED <<out, rpc>> /\ pc \in Before
          /\ pc' \in Before \union {"buffered", "finish"} /\ (pc' = "buffered" => class' = "ok")
      BY <1>2 DEF Resolve, Prepare, Attempt, ForwardBuffers, ForwardFails, Answer, Before,
                  readerVars, relayVars
    <2>2. usage' \in BOOLEAN
      BY <1>2 DEF Resolve, Prepare, Attempt, ForwardBuffers, ForwardFails, relayVars, Billed
    <2> QED
      BY <2>1, <2>2, BilledBefore
  <1>3. CASE WriteBuffered
    <2>1. pc = "buffered" /\ pc' = "finish" /\ UNCHANGED <<rpc, usage, class>>
      BY <1>3 DEF WriteBuffered, readerVars
    <2> QED
      BY <2>1 DEF Billed, Hands, Before
  <1>4. CASE Finish
    <2>1. /\ pc = "finish" /\ pc' = "done" /\ charge' = Charged
          /\ UNCHANGED <<rpc, usage, class, out, op>>
      BY <1>4 DEF Finish, readerVars, relayVars
    <2>2. Charged' = Charged
      BY <2>1 DEF Charged, Succeeded
    <2> QED
      BY <2>1, <2>2 DEF Billed
  <1>5. CASE ForwardStreams
    <2>1. pc = "forward" /\ pc' = "top" /\ UNCHANGED <<out, usage>>
      BY <1>5 DEF ForwardStreams, relayVars
    <2>2. out = <<>>
      BY <2>1 DEF Streamed, Before
    <2>3. Len(out') = 0
      BY <2>1, <2>2
    <2> QED
      BY <2>1, <2>3 DEF Billed
  <1>6. CASE PumpTop \/ IdleTimeout \/ TakeError
    <2>1. /\ UNCHANGED <<out, usage>> /\ (rpc' = "none" <=> rpc = "none") /\ pc \in Pumping
          /\ pc' = "await" \/ (pc' = "finish" /\ class' # "rejected")
      BY <1>6 DEF PumpTop, IdleTimeout, TakeError, ErrorClass, PumpReturns, Answer, relayVars, Pumping
    <2>2. rpc # "none"
      BY <2>1 DEF Hands
    <2> QED
      BY <2>1, <2>2, BilledAlone
  <1>7. CASE TakeEvent
    <2>1. /\ pc = "await" /\ rpc = "offer" /\ rpc' = "parked" /\ UNCHANGED out
          /\ usage' = (usage \/ offer \in Reports)
          /\ \/ pc' = "top"
             \/ pc' = "finish" /\ class' # "rejected"
             \/ pc' = "write" /\ ev' = offer
      BY <1>7 DEF TakeEvent, PumpReturns, Answer
    <2> QED
      BY <2>1 DEF Billed
  <1>8. CASE WriteEvent
    <2>1. /\ pc = "write" /\ rpc # "none" /\ UNCHANGED <<rpc, usage>>
          /\ \/ out' = Append(out, ev) /\ pc' = "top"
             \/ out' = out /\ pc' = "finish" /\ class' # "rejected"
      BY <1>8 DEF WriteEvent, PumpReturns, Answer, Hands
    <2>2. CASE out' = Append(out, ev) /\ pc' = "top"
      <3>1. out \in Seq(Kinds) /\ ev \in Kinds
        BY <2>1 DEF Streamed
      <3>2. /\ Len(out) \in Nat /\ Len(out') = Len(out) + 1
            /\ \A i \in 1..Len(out) : out'[i] = out[i]
            /\ out'[Len(out) + 1] = ev
        BY <2>2, <3>1, AppendFacts
      <3>3. \A i \in 1..Len(out') : out'[i] \in Reports => usage'
        BY <2>1, <3>2 DEF Billed
      <3> QED
        BY <2>1, <2>2, <3>3 DEF Billed
    <2>3. CASE out' = out /\ pc' = "finish" /\ class' # "rejected"
      BY <2>1, <2>3, BilledAlone DEF Pumping
    <2> QED
      BY <2>1, <2>2, <2>3
  <1>9. CASE OthersAcquire \/ OthersRelease \/ ClientLeaves \/ UNCHANGED vars
    BY <1>9, BilledAlone DEF OthersAcquire, OthersRelease, ClientLeaves, vars,
       readerVars, relayVars, requestVars
  <1>10. CASE Reader \/ Upstream
    BY <1>10, BilledAlone DEF Reader, ReaderWakes, ReaderLeaves, ReadCanceled, Upstream,
       LineArrives, EventEnds, StreamEnds, ReadFails, Returns, relayVars, requestVars
  <1> QED
    BY <1>1, <1>2, <1>3, <1>4, <1>5, <1>6, <1>7, <1>8, <1>9, <1>10
    DEF Next, Handler, Environment

-----------------------------------------------------------------------------
(* The theorems.                                                           *)

LEMMA InitRelay == Init => RelayInv
  <1> SUFFICES ASSUME Init PROVE RelayInv
    OBVIOUS
  <1>1. Holdings
    <2>1. /\ 0 * Weight = 0 /\ 0 + 0 = 0 /\ 0 <= Total /\ 0 \in Nat /\ 0 \in Int
          /\ 0 \in 0..MaxBody /\ 0 \in 0..0 /\ 0 \in -1..(MaxBody + 1)
      BY RelayAssumption
    <2>2. /\ pc = "body" /\ used = 0 /\ others = 0 /\ decl = 0 /\ cur = 0 /\ mine = 0 /\ body = 0
      BY DEF Init
    <2> QED
      BY <2>1, <2>2 DEF Holdings, Labels, Before
  <1>2. Hands
    BY DEF Init, Hands, Labels, Before, Pumping
  <1>3. Streamed
    <2>0. sent = <<>> /\ out = <<>>
      BY DEF Init
    <2>1. sent \in Seq(Events) /\ out \in Seq(Kinds)
      BY <2>0, EmptySeq
    <2> QED
      BY <2>0, <2>1 DEF Init, Streamed, Before
  <1>4. Counted
    <2>1. live \in EntryT /\ live.out = 0
      BY DEF Init, Entry, EntryT, Phases
    <2> QED
      BY <2>1 DEF Init, Counted
  <1>5. Billed
    BY DEF Init, Billed
  <1> QED
    BY <1>1, <1>2, <1>3, <1>4, <1>5 DEF RelayInv

\* The invariant is inductive.
THEOREM RelayInductive == Spec => []RelayInv
  <1>1. ASSUME RelayInv, [Next]_vars PROVE RelayInv'
    BY <1>1, HoldingsKeep, HandsKeep, StreamedKeep, CountedKeep, BilledKeep DEF RelayInv
  <1> QED
    BY <1>1, InitRelay, PTL DEF Spec

\* The counter of the byte budget is exactly what requests hold, never passes
\* the total and covers the body that is in memory, whatever other requests do
\* between a load and its swap.
THEOREM BudgetIsSound == Spec => []BudgetSound
  <1>1. ASSUME RelayInv PROVE BudgetSound
    <2>1. pc = "done" => used = others
      <3>1. \E k \in Nat : others = k * Weight
        BY <1>1 DEF RelayInv, Holdings
      <3>2. others \in Int /\ 0 * Weight = 0
        BY <3>1, RelayAssumption
      <3> QED
        BY <1>1, <3>2 DEF RelayInv, Holdings
    <2> QED
      BY <1>1, <2>1, RelayAssumption DEF RelayInv, Holdings, BudgetSound
  <1> QED
    BY <1>1, RelayInductive, PTL

\* The client sees the backend's events whole, once and in order, without the
\* chunks the proxy asked for, all of them when the request is reported ok,
\* and never more than max_response_bytes.
THEOREM RelayIsFaithful == Spec => []RelayFaithful
  <1>1. ASSUME RelayInv PROVE RelayFaithful
    <2> SUFFICES ASSUME rpc # "none" PROVE
            /\ out = SubSeq(sent, 1, Len(out))
            /\ class = "ok" => sent = Append(out, "eof")
            /\ MaxResponseBytes > 0 => bytesOut <= MaxResponseBytes
            /\ \A e \in Snapshot : e.phase = "streaming" /\ e.out = bytesOut
      BY DEF RelayFaithful
    <2>1. out = SubSeq(sent, 1, Len(out))
      <3>1. sent \in Seq(Events) /\ out \in Seq(Kinds) /\ Prefix
        BY <1>1 DEF RelayInv, Streamed
      <3>2. Len(out) \in Nat /\ Len(sent) \in Nat
        BY <3>1, LenProperties
      <3>3. /\ SubSeq(sent, 1, Len(out)) = [i \in 1..Len(out) |-> sent[i]]
        BY <3>1, <3>2 DEF Prefix
      <3>4. out = [i \in 1..Len(out) |-> out[i]]
        BY <3>1
      <3> QED
        BY <3>1, <3>3, <3>4 DEF Prefix
    <2>2. \A e \in Snapshot : e.phase = "streaming" /\ e.out = bytesOut
      BY <1>1 DEF RelayInv, Counted, Snapshot
    <2> QED
      BY <1>1, <2>1, <2>2 DEF RelayInv, Streamed, Counted
  <1> QED
    BY <1>1, RelayInductive, PTL

\* While the relay checks, writes or has not asked, the reader is parked.
THEOREM ReaderWaits == Spec => []ReaderNeverRunsAhead
  <1>1. RelayInv => ReaderNeverRunsAhead
    BY DEF RelayInv, Hands, ReaderNeverRunsAhead
  <1> QED
    BY <1>1, RelayInductive, PTL

\* Whoever got part of an answer is charged, by the backend's count if a chunk
\* with usage was sent.
THEOREM NobodyIsServedForFree == Spec => []ServedIsCharged
  <1>1. ASSUME RelayInv PROVE ServedIsCharged
    <2> SUFFICES ASSUME pc = "done", op # "byID", out # <<>>
                 PROVE  /\ charge # "none"
                        /\ (\E i \in 1..Len(out) : rpc # "none" /\ out[i] \in Reports)
                             => charge = "reported"
      BY DEF ServedIsCharged
    <2>1. charge = Charged
      BY <1>1 DEF RelayInv, Billed
    <2>2. Succeeded
      BY <1>1 DEF RelayInv, Billed, Succeeded
    <2>3. (\E i \in 1..Len(out) : rpc # "none" /\ out[i] \in Reports) => usage
      BY <1>1 DEF RelayInv, Billed
    <2>4. CASE usage
      BY <2>1, <2>4 DEF Charged
    <2>5. CASE ~usage
      <3>1. charge = "reserved"
        BY <2>1, <2>2, <2>5 DEF Charged
      <3> QED
        BY <2>3, <2>5, <3>1
    <2> QED
      BY <2>4, <2>5
  <1> QED
    BY <1>1, RelayInductive, PTL

\* A generative request leaves with an output limit, and with none above the
\* policy's cap.
THEOREM OutputIsCapped == Spec => []OutputCapped
  <1>1. Init => OutputCapped
    BY DEF Init, OutputCapped
  <1>2. ASSUME OutputCapped, [Next]_vars PROVE OutputCapped'
    <2>1. CASE Prepare
      <3> SUFFICES ASSUME Cap > 0, Generative(op), pc' = "forward"
                   PROVE  /\ limits' # <<None, None>>
                          /\ \A i \in 1..2 : limits'[i] # None => limits'[i] \in 0..Cap
        BY <2>1 DEF OutputCapped, Prepare, Generative
      <3>1. PICK l \in ClientLimits, alt \in ClientLimits \union {None} :
              ~Refused(l) /\ ~Refused(alt) /\ limits' = Capped(l, alt)
        BY <2>1 DEF Prepare, Generative, Refuses, AltLimits, Answer
      <3>2. /\ l \in Int \union {None} /\ alt \in Int \union {None}
            /\ l # None => l \in 0..Cap
            /\ alt # None => alt \in 0..Cap
        BY <3>1, RelayAssumption DEF ClientLimits, Refused
      <3>3. CASE l = None /\ alt = None
        <4>1. limits' = <<Cap, None>> /\ Cap # None /\ Cap \in 0..Cap
          BY <3>1, <3>3, RelayAssumption DEF Capped
        <4> QED
          BY <4>1
      <3>4. CASE ~(l = None /\ alt = None)
        <4>1. limits' = <<l, alt>>
          BY <3>1, <3>4 DEF Capped
        <4> QED
          BY <3>2, <3>4, <4>1
      <3> QED
        BY <3>3, <3>4
    <2>2. CASE ~Prepare
      <3>1. pc' # "forward" \/ (pc = "forward" /\ UNCHANGED <<op, limits>>)
        <4>1. CASE ReadBodyStarts \/ Load \/ CompareAndSwap \/ ReadBody \/ Resolve
          BY <4>1 DEF ReadBodyStarts, Load, CompareAndSwap, ReadBody, BodyRead, Resolve, Answer
        <4>2. CASE Attempt \/ ForwardBuffers \/ ForwardFails \/ ForwardStreams \/ WriteBuffered \/ Finish
          BY <4>2 DEF Attempt, ForwardBuffers, ForwardFails, ForwardStreams, WriteBuffered, Finish, Answer
        <4>3. CASE PumpTop \/ TakeError \/ TakeEvent \/ WriteEvent \/ IdleTimeout
          BY <4>3 DEF PumpTop, TakeError, TakeEvent, WriteEvent, IdleTimeout, PumpReturns, Answer
        <4>4. CASE Reader \/ Upstream
          BY <4>4 DEF Reader, ReaderWakes, ReaderLeaves, ReadCanceled, Upstream,
             LineArrives, EventEnds, StreamEnds, ReadFails, requestVars
        <4>5. CASE OthersAcquire \/ OthersRelease \/ ClientLeaves \/ UNCHANGED vars
          BY <4>5 DEF OthersAcquire, OthersRelease, ClientLeaves, vars, requestVars
        <4> QED
          BY <1>2, <2>2, <4>1, <4>2, <4>3, <4>4, <4>5 DEF Next, Handler, Environment
      <3> QED
        BY <1>2, <3>1 DEF OutputCapped
    <2> QED
      BY <2>1, <2>2
  <1> QED
    BY <1>1, <1>2, PTL DEF Spec
-----------------------------------------------------------------------------
(* The end of a relay.                                                     *)

\* The steps the reader has left before it returns or parks again.
ReaderLeft ==
    CASE rpc = "parked" -> (IF want = 1 THEN 5 ELSE 1)
      [] rpc = "reading" -> (IF partial = None THEN 4 ELSE 3)
      [] rpc = "offer" -> 2
      [] OTHER -> 0

\* The steps of a relay that writes nothing more, those it makes the reader
\* take included.
PumpLeft ==
    CASE pc = "top" -> 7
      [] pc \in {"await", "write"} -> 2
      [] pc = "finish" -> 1
      [] OTHER -> 0

\* Every byte the client may still get is worth one round of relay and reader.
RelayLeft == 6 * (MaxResponseBytes - bytesOut) + PumpLeft + ReaderLeft

\* Where max_response_bytes bounds the answer, a relay has a bounded number of
\* steps: every step of relay, reader, upstream and idle timer brings the
\* request nearer the point where it is settled and the reader is gone, except
\* that of taking a chunk the client did not ask for; and what others do to the
\* budget, or the client by leaving, takes nothing back.
RelayOnlyAdvances ==
    [][MaxResponseBytes > 0 /\ rpc # "none" =>
         \/ RelayLeft' < RelayLeft
         \/ TakeEvent /\ Swallowed(offer)
         \/ (OthersAcquire \/ OthersRelease \/ ClientLeaves) /\ RelayLeft' = RelayLeft]_vars

\* The parts of the measure are numbers.
LEMMA LeftTypes ==
    /\ ReaderLeft \in 0..5 /\ PumpLeft \in 0..7
    /\ ReaderLeft' \in 0..5 /\ PumpLeft' \in 0..7
  BY DEF ReaderLeft, PumpLeft

\* A step that writes nothing advances if the places of relay and reader do.
LEMMA LeftAlone ==
    ASSUME bytesOut \in Nat, bytesOut' = bytesOut,
           PumpLeft' + ReaderLeft' < PumpLeft + ReaderLeft
    PROVE  RelayLeft' < RelayLeft
  <1>1. PICK m \in Int : m = 6 * (MaxResponseBytes - bytesOut)
    BY RelayAssumption
  <1>2. RelayLeft = m + PumpLeft + ReaderLeft /\ RelayLeft' = m + PumpLeft' + ReaderLeft'
    BY <1>1 DEF RelayLeft
  <1>3. PumpLeft \in Int /\ PumpLeft' \in Int /\ ReaderLeft \in Int /\ ReaderLeft' \in Int
    BY LeftTypes
  <1>4. \A a, b, c, d \in Int : c + d < a + b => m + c + d < m + a + b
    OBVIOUS
  <1> QED
    BY <1>2, <1>3, <1>4

\* The relay's own steps.
LEMMA PumpAdvances ==
    ASSUME RelayInv, rpc # "none",
           PumpTop \/ TakeError \/ TakeEvent \/ WriteEvent \/ Finish \/ IdleTimeout
    PROVE  RelayLeft' < RelayLeft \/ (TakeEvent /\ Swallowed(offer))
  <1>0. bytesOut \in Nat
    BY DEF RelayInv, Counted
  <1>1. CASE PumpTop
    <2>1. /\ pc = "top" /\ rpc = "parked" /\ want = 0 /\ rpc' = rpc /\ bytesOut' = bytesOut
          /\ \/ pc' = "finish" /\ want' = 0
             \/ pc' = "await" /\ want' = 1
      BY <1>1 DEF PumpTop, PumpReturns, Answer, RelayInv, Hands, relayVars
    <2> QED
      BY <1>0, <2>1, LeftAlone DEF PumpLeft, ReaderLeft
  <1>2. CASE IdleTimeout
    <2>1. /\ pc = "await" /\ pc' = "finish" /\ rpc' = rpc /\ want' = want /\ partial' = partial
          /\ bytesOut' = bytesOut
      BY <1>2 DEF IdleTimeout, PumpReturns, Answer, relayVars
    <2>2. ReaderLeft' = ReaderLeft /\ PumpLeft' = 1 /\ PumpLeft = 2
      BY <2>1 DEF PumpLeft, ReaderLeft
    <2> QED
      BY <1>0, <2>1, <2>2, LeftAlone, LeftTypes
  <1>3. CASE TakeError
    <2>1. /\ pc = "await" /\ pc' = "finish" /\ rpc = "offer" /\ rpc' = "gone"
          /\ bytesOut' = bytesOut
      BY <1>3 DEF TakeError, PumpReturns, Answer, relayVars
    <2> QED
      BY <1>0, <2>1, LeftAlone DEF PumpLeft, ReaderLeft
  <1>4. CASE TakeEvent /\ ~Swallowed(offer)
    <2>1. /\ pc = "await" /\ pc' \in {"finish", "write"} /\ rpc = "offer" /\ rpc' = "parked"
          /\ want' = want /\ bytesOut' = bytesOut
      BY <1>4 DEF TakeEvent, PumpReturns, Answer
    <2>2. want = 0
      BY <2>1 DEF RelayInv, Hands
    <2> QED
      BY <1>0, <2>1, <2>2, LeftAlone DEF PumpLeft, ReaderLeft
  <1>5. CASE WriteEvent
    <2>1. /\ pc = "write" /\ rpc = "parked" /\ want = 0 /\ rpc' = rpc /\ want' = want
      BY <1>5 DEF WriteEvent, RelayInv, Hands
    <2>2. CASE bytesOut' = bytesOut /\ pc' = "finish"
      BY <1>0, <2>1, <2>2, LeftAlone DEF PumpLeft, ReaderLeft
    <2>3. CASE bytesOut' = bytesOut + Size(ev) /\ pc' = "top"
      <3>1. Size(ev) \in 1..2
        BY DEF Size
      <3>2. PumpLeft = 2 /\ PumpLeft' = 7 /\ ReaderLeft = 1 /\ ReaderLeft' = 1
        BY <2>1, <2>3 DEF PumpLeft, ReaderLeft
      <3> QED
        BY <1>0, <2>3, <3>1, <3>2, RelayAssumption DEF RelayLeft
    <2> QED
      BY <1>5, <2>2, <2>3 DEF WriteEvent, PumpReturns, Answer
  <1>6. CASE Finish
    <2>1. /\ pc = "finish" /\ pc' = "done" /\ UNCHANGED <<rpc, want, partial, bytesOut>>
      BY <1>6 DEF Finish, readerVars, relayVars
    <2>2. ReaderLeft' = ReaderLeft /\ PumpLeft' = 0 /\ PumpLeft = 1
      BY <2>1 DEF PumpLeft, ReaderLeft
    <2> QED
      BY <1>0, <2>1, <2>2, LeftAlone, LeftTypes
  <1> QED
    BY <1>1, <1>2, <1>3, <1>4, <1>5, <1>6

\* The reader's steps.
LEMMA ReaderAdvances ==
    ASSUME RelayInv, Reader \/ Upstream
    PROVE  RelayLeft' < RelayLeft
  <1>0. bytesOut \in Nat /\ None \notin Kinds
    BY RelayAssumption DEF RelayInv, Counted
  <1>1. pc' = pc /\ bytesOut' = bytesOut
    BY DEF Reader, ReaderWakes, ReaderLeaves, ReadCanceled, Upstream, LineArrives, EventEnds,
       StreamEnds, ReadFails, relayVars
  <1>2. PumpLeft' = PumpLeft
    BY <1>1 DEF PumpLeft
  <1>3. ReaderLeft' < ReaderLeft
    <2>1. CASE ReaderWakes
      BY <2>1 DEF ReaderWakes, ReaderLeft
    <2>2. CASE ReaderLeaves
      BY <2>2 DEF ReaderLeaves, ReaderLeft
    <2>3. CASE LineArrives
      BY <1>0, <2>3 DEF LineArrives, ReaderLeft
    <2>4. CASE ReadCanceled \/ EventEnds \/ StreamEnds \/ ReadFails
      BY <2>4 DEF ReadCanceled, EventEnds, StreamEnds, ReadFails, Returns, ReaderLeft
    <2> QED
      BY <2>1, <2>2, <2>3, <2>4 DEF Reader, Upstream
  <1>4. \A a, b, c \in Int : c < b => a + c < a + b
    OBVIOUS
  <1>5. PumpLeft \in Int /\ ReaderLeft \in Int /\ ReaderLeft' \in Int
    BY LeftTypes
  <1>6. PumpLeft' + ReaderLeft' < PumpLeft + ReaderLeft
    BY <1>2, <1>3, <1>4, <1>5
  <1> QED
    BY <1>0, <1>1, <1>6, LeftAlone

\* The measure falls (pump: "done is closed on every exit path"): the safety
\* part of RelayEnds, for streams of every length.
THEOREM RelayAdvances == Spec => RelayOnlyAdvances
  <1>1. RelayInv /\ [Next]_vars =>
          [MaxResponseBytes > 0 /\ rpc # "none" =>
             \/ RelayLeft' < RelayLeft
             \/ TakeEvent /\ Swallowed(offer)
             \/ (OthersAcquire \/ OthersRelease \/ ClientLeaves) /\ RelayLeft' = RelayLeft]_vars
    <2> SUFFICES ASSUME RelayInv, Next, rpc # "none"
                 PROVE  \/ RelayLeft' < RelayLeft
                        \/ TakeEvent /\ Swallowed(offer)
                        \/ /\ OthersAcquire \/ OthersRelease \/ ClientLeaves
                           /\ RelayLeft' = RelayLeft
      OBVIOUS
    <2>1. CASE OthersAcquire \/ OthersRelease \/ ClientLeaves
      <3>1. UNCHANGED <<pc, rpc, want, partial, bytesOut>>
        BY <2>1 DEF OthersAcquire, OthersRelease, ClientLeaves, readerVars, relayVars
      <3> QED
        BY <2>1, <3>1 DEF RelayLeft, PumpLeft, ReaderLeft
    <2>2. pc \notin Before \union {"buffered"}
      BY DEF RelayInv, Hands
    <2>3. ~(\/ ReadBodyStarts \/ Load \/ CompareAndSwap \/ ReadBody \/ Resolve \/ Prepare
            \/ Attempt \/ ForwardBuffers \/ ForwardFails \/ ForwardStreams \/ WriteBuffered)
      BY <2>2 DEF Before, ReadBodyStarts, Load, CompareAndSwap, ReadBody, Resolve, Prepare,
         Attempt, ForwardBuffers, ForwardFails, ForwardStreams, WriteBuffered
    <2> QED
      BY <2>1, <2>3, PumpAdvances, ReaderAdvances DEF Next, Handler, Environment
  <1> QED
    BY <1>1, RelayInductive, PTL DEF Spec, RelayOnlyAdvances
=============================================================================
