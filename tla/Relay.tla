------------------------------- MODULE Relay -------------------------------
(***************************************************************************)
(* One inference request from its body to its settlement: the byte budget  *)
(* the body is read under (readBody, budget), the output cap and the usage *)
(* report the proxy asks for (prepareOutbound), and the relay of the       *)
(* answer, as a live event stream (pump and its reader goroutine, the      *)
(* parser of sse.go) or buffered (writeBuffered).                          *)
(*                                                                         *)
(* Other requests are seen through the budget only: OthersAcquire and      *)
(* OthersRelease are their successful compare-and-swaps.  Retries are the  *)
(* subject of Dispatch; here Forward is its last attempt.  An event is     *)
(* what the relay looks at: its kind and its size.  Along the way the      *)
(* handler keeps the entry of the live registry up to date (internal/      *)
(* inflight), which the admin socket shows.                                *)
(***************************************************************************)
EXTENDS Integers, Sequences

CONSTANTS
    MaxBody,           \* server.max_body_bytes
    Total,             \* budget.total, in weighted bytes
    Weight,            \* budgetWeight
    MaxResponseBytes,  \* server.max_response_bytes
    Cap,               \* policy.max_output_tokens; 0 is no cap
    None               \* no event, no limit in the body

Ops == {"chat", "responses", "embed", "byID"}
Generative(o) == o \in {"chat", "responses"}
Captures(o) == o = "responses"

(***************************************************************************)
(* What the relay distinguishes: an event without data, one naming the     *)
(* response, one with choices, one with choices and usage, the usage-only  *)
(* chunk, and a usage-only chunk whose usage carries no number.            *)
(***************************************************************************)
Kinds == {"note", "id", "data", "both", "only", "void"}
UsageOnly == {"only", "void"}
Reports == {"both", "only"}
Size(k) == IF k = "note" THEN 1 ELSE 2

\* What nextEvent may return besides an event.
Errors == {"eof", "canceled", "error", "panic"}

ASSUME RelayAssumption ==
    /\ MaxBody \in Nat \ {0} /\ Weight \in Nat \ {0}
    /\ Total \in Nat /\ MaxResponseBytes \in Nat /\ Cap \in Nat
    /\ None \notin Int /\ None \notin Kinds \union Errors

VARIABLES
    pc, op,
    used, others,      \* budget.used and the part of it other requests hold
    decl,              \* ContentLength: -1 is unknown
    cur,               \* budget.Acquire: the value it loaded; a local is 0 out of scope
    mine,              \* readBody: reserve
    body,              \* bytes of the body in memory
    stream, injected,  \* the request streams; include_usage was added for it
    limits,            \* the two output limits of the body, until it is forwarded
    live,              \* Registry.live: the entry of the request, or None
    gone,              \* the client's context has ended
    ucanceled,         \* the upstream context has ended
    rpc,               \* the reader goroutine
    want, done,        \* the channels between relay and reader
    partial,           \* sseParser: kind of the event being accumulated
    offer,             \* what the reader sends or is about to send
    ev,                \* the event the relay is about to write
    sent,              \* history: what the stream brought, its end included and
                       \* the swallowed chunks left out
    out, bytesOut,     \* what the client was sent
    captured, known,   \* pump: captured; the affinity table has the response
    usage,             \* the backend's usage was recorded
    class, charge      \* result: class; what account settles

budgetVars == <<used, others, decl, cur, mine, body>>
readerVars == <<rpc, want, done, partial, offer, sent>>
relayVars == <<ev, out, bytesOut, captured, known, usage>>
requestVars == <<op, stream, injected, limits, live>>
vars == <<pc, budgetVars, requestVars, gone, ucanceled, readerVars, relayVars,
          class, charge>>

-----------------------------------------------------------------------------
(* The live registry *)

Entry == [phase |-> "reading", in |-> 0, out |-> 0, tokens |-> FALSE]

Phase(p) == [live EXCEPT !.phase = p]
Wrote(n) == [live EXCEPT !.out = @ + n]
Tokens(reported) == [live EXCEPT !.tokens = @ \/ reported]

\* What the admin socket answers at any time.
Snapshot == {live} \ {None}

-----------------------------------------------------------------------------
\* dispatch begins with Begin.
Init ==
    /\ pc = "body" /\ op \in Ops /\ live = Entry
    /\ used = 0 /\ others = 0 /\ decl = 0 /\ cur = 0 /\ mine = 0 /\ body = 0
    /\ stream = FALSE /\ injected = FALSE /\ limits = <<None, None>>
    /\ gone = FALSE /\ ucanceled = FALSE
    /\ rpc = "none" /\ want = 0 /\ done = FALSE
    /\ partial = None /\ offer = None /\ sent = <<>>
    /\ ev = None /\ out = <<>> /\ bytesOut = 0
    /\ captured = FALSE /\ known = FALSE /\ usage = FALSE
    /\ class = "" /\ charge = "none"

-----------------------------------------------------------------------------
(* The byte budget and the body *)

OthersAcquire ==
    /\ used + Weight <= Total
    /\ used' = used + Weight /\ others' = others + Weight
    /\ UNCHANGED <<pc, decl, cur, mine, body, requestVars, gone, ucanceled,
                   readerVars, relayVars, class, charge>>

OthersRelease ==
    /\ others > 0
    /\ used' = used - Weight /\ others' = others - Weight
    /\ UNCHANGED <<pc, decl, cur, mine, body, requestVars, gone, ucanceled,
                   readerVars, relayVars, class, charge>>

\* fail and the return after it: the deferred calls are Finish.
Answer(c) == pc' = "finish" /\ class' = c

\* The bytes readBody reserves for a declared length.
Reserve(n) == IF n < 0 THEN MaxBody ELSE IF n <= MaxBody THEN n ELSE 0

ReadBodyStarts ==
    /\ pc = "body"
    /\ \/ op = "byID" /\ pc' = "resolve" /\ live' = Phase("routing") /\ UNCHANGED <<decl, class>>
       \/ Answer("rejected") /\ UNCHANGED <<decl, live>>      \* draining, Content-Encoding
       \/ \E n \in -1..(MaxBody + 1) :
            /\ decl' = n /\ UNCHANGED live
            /\ CASE Reserve(n) = 0               -> pc' = "read" /\ UNCHANGED class
                 [] Reserve(n) > Total \div Weight -> Answer("rejected")
                 [] OTHER                        -> pc' = "load" /\ UNCHANGED class
    /\ UNCHANGED <<used, others, cur, mine, body, op, stream, injected, limits, gone, ucanceled,
                   readerVars, relayVars, charge>>

Load ==
    /\ pc = "load"
    /\ cur' = used
    /\ IF used + Reserve(decl) * Weight > Total
       THEN Answer("rejected")
       ELSE pc' = "swap" /\ UNCHANGED class
    /\ UNCHANGED <<used, others, decl, mine, body, requestVars, gone, ucanceled,
                   readerVars, relayVars, charge>>

CompareAndSwap ==
    /\ pc = "swap"
    /\ IF used = cur
       THEN /\ used' = cur + Reserve(decl) * Weight
            /\ mine' = Reserve(decl) /\ pc' = "read"
       ELSE pc' = "load" /\ UNCHANGED <<used, mine>>
    /\ UNCHANGED <<others, decl, cur, body, requestVars, gone, ucanceled,
                   readerVars, relayVars, class, charge>>

\* Mutant: the remainder goes back and again at the end.
BodyReadReleasesTwice(n) ==
    /\ decl < 0 \/ n = decl
    /\ body' = n /\ pc' = "resolve"
    /\ used' = used - (mine - n) * Weight
    /\ live' = [Phase("routing") EXCEPT !.in = n]
    /\ UNCHANGED <<mine, class>>

\* readBodyLimited returned n bytes; the unused part of the reservation goes back.
BodyRead(n) ==
    /\ decl < 0 \/ n = decl
    /\ body' = n /\ pc' = "resolve"
    /\ IF n < mine
       THEN used' = used - (mine - n) * Weight /\ mine' = n
       ELSE UNCHANGED <<used, mine>>
    /\ live' = [Phase("routing") EXCEPT !.in = n]
    /\ UNCHANGED class

ReadBody ==
    /\ pc = "read"
    /\ \/ decl <= MaxBody /\ \E n \in 0..MaxBody : BodyRead(n)
       \/ Answer("rejected") /\ UNCHANGED <<used, mine, body, live>>  \* too large, unreadable
    /\ decl' = 0 /\ cur' = 0
    /\ UNCHANGED <<others, op, stream, injected, limits, gone, ucanceled, readerVars,
                   relayVars, charge>>

-----------------------------------------------------------------------------
(* Target and outbound body *)

\* resolveTarget: only generative operations stream.
Resolve ==
    /\ pc = "resolve"
    /\ \/ Answer("rejected") /\ UNCHANGED stream
       \/ /\ op = "byID" \/ body > 0     \* an empty body names no model
          /\ \E s \in IF Generative(op) THEN BOOLEAN ELSE {FALSE} : stream' = s
          /\ pc' = "prepare" /\ UNCHANGED class
    /\ UNCHANGED <<budgetVars, op, injected, limits, live, gone, ucanceled, readerVars,
                   relayVars, charge>>

\* tokenLimit: a limit the client may send, and whether it is refused.  -1
\* stands for every negative or malformed one.
ClientLimits == {None, -1, 0, Cap, Cap + 1}
Refused(l) == l # None /\ (l < 0 \/ l > Cap)

\* The two limits as forwarded: the cap is added when neither is present.
Capped(l, alt) == IF Cap > 0 /\ l = None /\ alt = None THEN <<Cap, None>>
                                                       ELSE <<l, alt>>

\* Only chat has an alternate field.
AltLimits(o) == IF o = "chat" THEN ClientLimits ELSE {None}

\* Mutant: the alternate spelling is not looked at.
RefusesPrimaryOnly(l, alt) == Refused(l)

Refuses(l, alt) == Refused(l) \/ Refused(alt)

Prepare ==
    /\ pc = "prepare"
    /\ \/ op = "byID" /\ pc' = "forward" /\ UNCHANGED <<injected, limits, class>>
       \/ op = "embed" /\ pc' = "forward" /\ UNCHANGED <<injected, limits, class>>
       \/ /\ Generative(op)
          /\ \E l \in ClientLimits, alt \in AltLimits(op) :
               IF Cap > 0 /\ Refuses(l, alt)
               THEN Answer("rejected") /\ UNCHANGED <<injected, limits>>
               ELSE /\ limits' = Capped(l, alt)
                    /\ \E ensureUsage, asked \in BOOLEAN :
                         injected' = (stream /\ ensureUsage /\ op = "chat" /\ ~asked)
                    /\ pc' = "forward" /\ UNCHANGED class
       \/ op # "byID" /\ Answer("rejected") /\ UNCHANGED <<injected, limits>>  \* quota
    /\ UNCHANGED <<budgetVars, op, stream, live, gone, ucanceled, readerVars, relayVars,
                   charge>>

-----------------------------------------------------------------------------
(* The answer *)

\* The client's context ends; the upstream context is its child.
ClientLeaves ==
    /\ ~gone /\ pc # "done"
    /\ gone' = TRUE /\ ucanceled' = TRUE
    /\ UNCHANGED <<pc, budgetVars, requestVars, readerVars, relayVars, class, charge>>

\* Target, and the call of Forward; its Admitted callback, once it has a slot.
Attempt ==
    /\ pc = "forward"
    /\ \/ live.phase = "routing" /\ live' = Phase("queued")
       \/ live.phase = "queued" /\ live' = Phase("waiting")
    /\ UNCHANGED <<pc, budgetVars, op, stream, injected, limits, gone, ucanceled,
                   readerVars, relayVars, class, charge>>

\* A response that is not a live stream: relayed after its slot was released.
\* Usage is extracted only where the operation consumes it.
ForwardBuffers ==
    /\ pc = "forward" /\ live.phase = "waiting"
    /\ pc' = "buffered" /\ class' = "ok"
    /\ bytesOut' = Size("data") /\ live' = [Wrote(Size("data")) EXCEPT !.phase = "sending"]
    /\ \E u \in IF op = "byID" THEN {FALSE} ELSE BOOLEAN : usage' = u
    /\ limits' = <<None, None>>
    /\ UNCHANGED <<budgetVars, op, stream, injected, gone, ucanceled, readerVars, ev, out,
                   captured, known, charge>>

ForwardFails ==
    /\ pc = "forward"
    /\ Answer(IF gone THEN "client_canceled" ELSE "rejected")
    /\ limits' = <<None, None>>
    /\ UNCHANGED <<budgetVars, op, stream, injected, live, gone, ucanceled, readerVars,
                   relayVars, charge>>

\* A live body: pump starts its reader.
ForwardStreams ==
    /\ pc = "forward" /\ stream /\ live.phase = "waiting"
    /\ pc' = "top" /\ rpc' = "parked" /\ live' = Phase("streaming")
    /\ limits' = <<None, None>>
    /\ UNCHANGED <<budgetVars, op, stream, injected, gone, ucanceled, want, done, partial,
                   offer, sent, relayVars, class, charge>>

\* writeBuffered, whether or not the client takes all of it, then the capture.
WriteBuffered ==
    /\ pc = "buffered"
    /\ \E named \in BOOLEAN : known' = (Captures(op) /\ named)
    /\ out' = IF known' THEN <<"id">> ELSE <<"data">>
    /\ pc' = "finish"
    /\ UNCHANGED <<budgetVars, requestVars, gone, ucanceled, readerVars, ev,
                   bytesOut, captured, usage, class, charge>>

-----------------------------------------------------------------------------
(* pump: the relay *)

\* Mutant: done is not closed.
PumpReturnsOpen(c) ==
    /\ ucanceled' = TRUE /\ UNCHANGED done
    /\ Answer(c)

\* Every exit: close(done), ucancel, res.Close.
PumpReturns(c) ==
    /\ done' = TRUE /\ ucanceled' = TRUE
    /\ Answer(c)

PumpTop ==
    /\ pc = "top"
    /\ IF gone
       THEN PumpReturns("client_canceled") /\ UNCHANGED want
       ELSE want' = 1 /\ pc' = "await" /\ UNCHANGED <<done, ucanceled, class>>
    /\ UNCHANGED <<budgetVars, requestVars, gone, rpc, partial, offer, sent,
                   relayVars, charge>>

\* The idle timer wins the select, also against a reader that is ready to send.
IdleTimeout ==
    /\ pc = "await"
    /\ PumpReturns("backend_stream_error")
    /\ UNCHANGED <<budgetVars, requestVars, gone, rpc, want, partial, offer, sent,
                   relayVars, charge>>

\* Mutant: a stream that broke is taken for one that ended.
ErrorClassLenient(e) == CASE e \in {"eof", "error"}   -> "ok"
                          [] e = "canceled" /\ gone  -> "client_canceled"
                          [] OTHER                   -> "backend_stream_error"

\* The reader's error is received: the reader returns after the send.
ErrorClass(e) == CASE e = "eof"                -> "ok"
                   [] e = "canceled" /\ gone   -> "client_canceled"
                   [] OTHER                    -> "backend_stream_error"

TakeError ==
    /\ pc = "await" /\ rpc = "offer" /\ offer \in Errors
    /\ rpc' = "gone" /\ offer' = None
    /\ PumpReturns(ErrorClass(offer))
    /\ UNCHANGED <<budgetVars, requestVars, gone, want, partial, sent, relayVars,
                   charge>>

\* The proxy asked for this chunk, the client did not.
Swallowed(k) == injected /\ k \in UsageOnly

Capture(k) == Captures(op) /\ ~captured /\ k = "id"

\* Capture, usage, and the bound on what the stream may emit.
TakeEvent ==
    /\ pc = "await" /\ rpc = "offer" /\ offer \in Kinds
    /\ rpc' = "parked" /\ offer' = None
    /\ captured' = (captured \/ Capture(offer))
    /\ known' = (known \/ Capture(offer))
    /\ usage' = (usage \/ offer \in Reports) /\ live' = Tokens(offer \in Reports)
    /\ CASE Swallowed(offer) ->
              pc' = "top" /\ UNCHANGED <<ev, done, ucanceled, class>>
         [] ~Swallowed(offer) /\ bytesOut + Size(offer) > MaxResponseBytes
            /\ MaxResponseBytes > 0 ->
              PumpReturns("backend_stream_error") /\ UNCHANGED ev
         [] OTHER ->
              pc' = "write" /\ ev' = offer /\ UNCHANGED <<done, ucanceled, class>>
    /\ UNCHANGED <<budgetVars, op, stream, injected, limits, gone, want, partial, sent, out, bytesOut,
                   charge>>

WriteEvent ==
    /\ pc = "write"
    /\ \/ /\ out' = Append(out, ev) /\ bytesOut' = bytesOut + Size(ev)
          /\ live' = Wrote(Size(ev))
          /\ pc' = "top" /\ UNCHANGED <<done, ucanceled, class>>
       \/ PumpReturns("client_write_error") /\ UNCHANGED <<out, bytesOut, live>>
    /\ ev' = None
    /\ UNCHANGED <<budgetVars, op, stream, injected, limits, gone, rpc, want, partial, offer, sent,
                   captured, known, usage, charge>>

-----------------------------------------------------------------------------
(* pump: the reader goroutine *)

\* Mutant: the reader does not wait for a token.
ReaderWakesEarly ==
    /\ rpc = "parked"
    /\ rpc' = "reading" /\ want' = 0
    /\ UNCHANGED <<pc, budgetVars, requestVars, gone, ucanceled, done, partial, offer,
                   sent, relayVars, class, charge>>

ReaderWakes ==
    /\ rpc = "parked" /\ want = 1
    /\ rpc' = "reading" /\ want' = 0
    /\ UNCHANGED <<pc, budgetVars, requestVars, gone, ucanceled, done, partial, offer,
                   sent, relayVars, class, charge>>

\* done is closed: the reader leaves from either select.
ReaderLeaves ==
    /\ rpc \in {"parked", "offer"} /\ done
    /\ rpc' = "gone" /\ offer' = None
    /\ UNCHANGED <<pc, budgetVars, requestVars, gone, ucanceled, want, done, partial,
                   sent, relayVars, class, charge>>

\* nextEvent returns r and the reader goes to its second select.
Returns(r) ==
    /\ rpc' = "offer" /\ offer' = r /\ partial' = None
    /\ sent' = IF Swallowed(r) THEN sent ELSE Append(sent, r)

\* The first line of an event; later lines are part of the same event.
LineArrives ==
    /\ rpc = "reading" /\ partial = None
    /\ \E k \in Kinds : partial' = k
    /\ UNCHANGED <<pc, budgetVars, requestVars, gone, ucanceled, rpc, want, done, offer,
                   sent, relayVars, class, charge>>

\* The blank line, or the end of the stream in place of it.
EventEnds ==
    /\ rpc = "reading" /\ partial # None
    /\ Returns(partial)
    /\ UNCHANGED <<pc, budgetVars, requestVars, gone, ucanceled, want, done, relayVars,
                   class, charge>>

StreamEnds ==
    /\ rpc = "reading" /\ partial = None
    /\ Returns("eof")
    /\ UNCHANGED <<pc, budgetVars, requestVars, gone, ucanceled, want, done, relayVars,
                   class, charge>>

\* A failed read, a line or an event past its bound, a panic below nextEvent.
ReadFails ==
    /\ rpc = "reading"
    /\ \E e \in {"error", "panic"} : Returns(e)
    /\ UNCHANGED <<pc, budgetVars, requestVars, gone, ucanceled, want, done, relayVars,
                   class, charge>>

\* The upstream was torn down under the read.
ReadCanceled ==
    /\ rpc = "reading" /\ ucanceled
    /\ Returns("canceled")
    /\ UNCHANGED <<pc, budgetVars, requestVars, gone, ucanceled, want, done, relayVars,
                   class, charge>>

-----------------------------------------------------------------------------
(* The deferred calls of dispatch *)

\* Mutant: only a stream that ended well is charged.
SucceededFully == class = "ok"

\* account: reported usage, else the reservation of a request that succeeded.
Succeeded == class # "rejected" /\ (class = "client_canceled" => rpc # "none")

Charged == IF usage THEN "reported"
           ELSE IF Succeeded /\ op # "byID" THEN "reserved" ELSE "none"

\* ucancel, release, account and End, in this order.
Finish ==
    /\ pc = "finish"
    /\ pc' = "done" /\ ucanceled' = TRUE
    /\ used' = used - mine * Weight /\ mine' = 0 /\ body' = 0
    /\ charge' = Charged /\ live' = None
    /\ UNCHANGED <<others, decl, cur, op, stream, injected, limits, gone, readerVars, relayVars, class>>

Handler ==
    \/ ReadBodyStarts \/ Load \/ CompareAndSwap \/ ReadBody \/ Resolve \/ Prepare
    \/ Attempt \/ ForwardBuffers \/ ForwardFails \/ ForwardStreams \/ WriteBuffered
    \/ PumpTop \/ TakeError \/ TakeEvent \/ WriteEvent \/ Finish

Reader == ReaderWakes \/ ReaderLeaves \/ ReadCanceled

Upstream == LineArrives \/ EventEnds \/ StreamEnds \/ ReadFails

Environment == OthersAcquire \/ OthersRelease \/ ClientLeaves \/ IdleTimeout

Next == Handler \/ Reader \/ Upstream \/ Environment

Spec == Init /\ [][Next]_vars

\* Goroutines run, a torn-down read returns, and the idle timer fires.  The
\* backend owes nothing.
FairSpec ==
    Spec /\ WF_vars(Handler) /\ WF_vars(Reader) /\ WF_vars(IdleTimeout)

-----------------------------------------------------------------------------
TypeOK ==
    /\ pc \in {"body", "load", "swap", "read", "resolve", "prepare", "forward",
               "buffered", "top", "await", "write", "finish", "done"}
    /\ rpc \in {"none", "parked", "reading", "offer", "gone"}
    /\ used \in 0..Total /\ others \in 0..Total /\ cur \in 0..Total
    /\ decl \in -1..(MaxBody + 1) /\ mine \in 0..MaxBody /\ body \in 0..MaxBody
    /\ limits \in (Int \union {None}) \X (Int \union {None})
    /\ want \in {0, 1} /\ bytesOut \in Nat
    /\ partial \in Kinds \union {None} /\ ev \in Kinds \union {None}
    /\ offer \in Kinds \union Errors \union {None}
    /\ sent \in Seq(Kinds \union Errors) /\ out \in Seq(Kinds)

Reading == {"resolve", "prepare", "forward", "buffered", "top", "await", "write"}

(***************************************************************************)
(* The budget bounds what is in memory (budget.Acquire, readBody): the     *)
(* counter is exactly what requests hold, whatever other requests did      *)
(* between a load and its swap; it never passes the total; the bytes of    *)
(* a body stay covered by its reservation, also after the unused part of   *)
(* a worst-case reservation went back; and a finished request holds none.  *)
(***************************************************************************)
BudgetSound ==
    /\ used = mine * Weight + others
    /\ used <= Total
    /\ body <= mine
    /\ pc = "done" => used = others

(***************************************************************************)
(* The stream the client sees (pump): the backend's events whole, once and *)
(* in order, without the chunks the proxy asked for itself; all of them    *)
(* when the request is reported ok; never more than max_response_bytes,    *)
(* of which the live registry shows the same count.                        *)
(***************************************************************************)
RelayFaithful ==
    rpc # "none" =>
        /\ out = SubSeq(sent, 1, Len(out))
        /\ class = "ok" => sent = Append(out, "eof")
        /\ MaxResponseBytes > 0 => bytesOut <= MaxResponseBytes
        /\ \A e \in Snapshot : e.phase = "streaming" /\ e.out = bytesOut

(***************************************************************************)
(* One event is resident at a time (pump: "it never runs ahead of the      *)
(* relay"): while the relay checks, writes or has not yet asked, the       *)
(* reader is parked and holds nothing.                                     *)
(***************************************************************************)
ReaderNeverRunsAhead ==
    pc \in {"top", "write"} => rpc = "parked" /\ want = 0

(***************************************************************************)
(* Nobody is served for free (account): a request whose client got part of *)
(* an answer is charged, also when the stream broke, timed out or the      *)
(* client left; by the backend's count when a chunk with usage was sent.   *)
(***************************************************************************)
ServedIsCharged ==
    pc = "done" /\ op # "byID" /\ out # <<>> =>
        /\ charge # "none"
        /\ (\E i \in 1..Len(out) : rpc # "none" /\ out[i] \in Reports)
             => charge = "reported"

(***************************************************************************)
(* No generative request leaves with more output than the policy allows:   *)
(* both spellings of the limit are checked and one of them is present      *)
(* (prepareOutbound, tokenLimit).                                          *)
(***************************************************************************)
OutputCapped ==
    Cap > 0 /\ Generative(op) /\ pc = "forward" =>
       /\ limits # <<None, None>>
       /\ \A i \in 1..2 : limits[i] # None => limits[i] \in 0..Cap

\* A backend may send usage-only chunks for ever: nothing of them reaches the
\* client and each one restarts the idle timer.
SwallowsStop == <>[][~(TakeEvent /\ Swallowed(offer))]_vars

(***************************************************************************)
(* A relay ends and leaves nothing behind, whatever the backend does short *)
(* of SwallowsStop: it stops answering, never ends its stream, or breaks   *)
(* it in the middle of an event.  The handler settles, the reader          *)
(* goroutine is gone (pump: "done is closed on every exit path"), and the  *)
(* live registry has forgotten the request (dispatch: "holds exactly the   *)
(* requests still in the daemon").                                         *)
(***************************************************************************)
RelayEnds ==
    SwallowsStop => (pc = "top" ~> pc = "done" /\ rpc = "gone" /\ Snapshot = {})
=============================================================================
