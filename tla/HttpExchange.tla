---------------------------- MODULE HttpExchange ----------------------------
(***************************************************************************)
(* One HTTP connection of Web::HttpServer: a pipelined sequence of         *)
(* requests read under the peer's input lock (ProcessInput), the deferred  *)
(* policy decision, the response that a handler builds on its own thread   *)
(* (HttpResponseState), the body it reads meanwhile (RequestBodyState),    *)
(* and the progress thread that continues the peer after their events.     *)
(*                                                                         *)
(* What the client sends is a sequence of tokens: "get" and "last" whole   *)
(* requests ("last" asks to close), "miss" one no route takes, "pre" a     *)
(* CORS preflight, "head"/"headx" the head of a buffered request and       *)
(* "up"/"upx" of a streamed one (x: it expects 100-continue), "piece" and  *)
(* "end" of a body, "bad" what cannot be parsed.  Requests are numbered as *)
(* their heads are parsed.                                                 *)
(***************************************************************************)
EXTENDS Integers, Sequences, FiniteSets, SequencesExt

CONSTANTS
  Scripts,      \* what clients may send, to a server with a request policy or without
  MaxRequests,  \* requests of a script
  MaxInput,     \* maxPipelinedBytes, in tokens
  PauseAt,      \* where OnBytesReceived pauses
  MaxPieces,    \* the credit of a streamed body
  MaxActive,    \* active requests of the server
  Faults        \* failed sends and submissions

Requests == 1..MaxRequests
None == "none"

VARIABLES
  peer,      \* phase, guarded by a policy, input, number of the request, what it asks, started, receiving, reader,
             \* active, policy, awaiting
  turn,      \* who holds mInputMutex, and where in ProcessInput
  net,       \* the script still to come; paused, open, closing after its sends
  resp,      \* each response: phase, transaction (sending, sent, want), retired, close
  decision,  \* each policy decision
  body,      \* the body being streamed: of a request; queued and held pieces; state
  handler,   \* each handler: none, busy; failed when it could not be submitted
  wire,      \* what was sent
  used,      \* RequestBudget.active: of this peer, of the others
  progress,  \* the peer with the progress thread: queued, taken
  draining,
  faults

vars == <<peer, turn, net, resp, decision, body, handler, wire, used, progress, draining, faults>>
rest == <<resp, decision, body, handler, used, draining, progress>>

NewResponse == [phase |-> "new", sending |-> None, sent |-> None, want |-> FALSE, retired |-> FALSE, close |-> FALSE]

Init ==
  /\ \E s \in Scripts :
       /\ net = [script |-> s.sends, paused |-> FALSE, open |-> TRUE, closing |-> FALSE]
       /\ peer = [phase |-> "http", guarded |-> s.policy, input |-> <<>>, number |-> 0, asks |-> None, started |-> FALSE,
                  receiving |-> FALSE, reader |-> FALSE, active |-> 0, policy |-> 0, awaiting |-> FALSE]
  /\ turn = [by |-> None, at |-> None]
  /\ resp = [n \in Requests |-> [NewResponse EXCEPT !.phase = None]]
  /\ decision = [n \in Requests |-> None] /\ handler = [n \in Requests |-> None]
  /\ body = [of |-> 0, queued |-> 0, held |-> 0, state |-> "done"]
  /\ wire = <<>> /\ used = [mine |-> 0, others |-> 0]
  /\ progress = [queued |-> FALSE, taken |-> FALSE] /\ draining = FALSE /\ faults = 0

-----------------------------------------------------------------------------

Close(net0) == [net0 EXCEPT !.open = FALSE]
Resume(net0) == [net0 EXCEPT !.paused = FALSE]
Requested == [progress EXCEPT !.queued = TRUE]
\* Pieces of a body that follow one another are one.
Sent(n, what) ==
  LET part == [n |-> n, what |-> what] IN
  IF what = "piece" /\ wire # <<>> /\ Last(wire) = part THEN wire ELSE Append(wire, part)
Fails == faults < Faults /\ faults' = faults + 1
Closing(p) == [p EXCEPT !.phase = "closing"]

IsFinished(n) == resp[n].phase = "finished" /\ resp[n].retired
Pauses(p) == turn.by = "io" /\ (p.active # 0 \/ p.policy # 0) /\ Len(p.input) >= PauseAt

\* ProcessInput returns; OnBytesReceived then pauses a connection that is ahead.
Leaves(p, net0) ==
  /\ turn' = [by |-> None, at |-> None] /\ peer' = p
  /\ net' = IF Pauses(p) THEN [net0 EXCEPT !.paused = TRUE] ELSE net0

GoesOn(p, net0) == turn' = [turn EXCEPT !.at = "loop"] /\ peer' = p /\ net' = net0

\* Respond, and HttpError, which always closes: a whole response from this thread.
Respond(n, close, p) ==
  \/ /\ net.open /\ wire' = Sent(n, "whole") /\ UNCHANGED faults
     /\ IF close THEN Leaves(Closing(p), [net EXCEPT !.closing = TRUE]) ELSE GoesOn(p, Resume(net))
  \/ /\ Fails \/ (~net.open /\ UNCHANGED faults)
     /\ Leaves(IF close THEN Closing(p) ELSE p, Close(net)) /\ UNCHANGED wire

-----------------------------------------------------------------------------
\* Who takes the input lock.

\* OnBytesReceived; one receive may still come after a pause.
OnBytesReceived ==
  /\ turn.by = None /\ net.open /\ net.script # <<>> /\ (net.paused => Len(peer.input) <= PauseAt)
  /\ \/ /\ peer.phase # "http" /\ net' = [net EXCEPT !.script = <<>>] /\ UNCHANGED <<peer, turn, wire, faults>>
     \/ /\ peer.phase = "http" /\ Len(peer.input) >= MaxInput /\ peer.active # 0
        /\ net' = Close(net) /\ UNCHANGED <<peer, turn, wire, faults>>
     \/ peer.phase = "http" /\ Len(peer.input) >= MaxInput /\ peer.active = 0 /\ Respond(peer.number, TRUE, peer)
     \/ /\ peer.phase = "http" /\ Len(peer.input) < MaxInput
        /\ net' = [net EXCEPT !.script = Tail(@)] /\ turn' = [by |-> "io", at |-> "loop"]
        /\ peer' = [peer EXCEPT !.input = Append(@, Head(net.script))] /\ UNCHANGED <<wire, faults>>
  /\ UNCHANGED rest

\* The progress thread: out of the queue, then the lock.
ProgressTakes ==
  /\ progress.queued /\ ~progress.taken /\ progress' = [queued |-> FALSE, taken |-> TRUE]
  /\ UNCHANGED <<peer, turn, net, resp, decision, body, handler, wire, used, draining, faults>>

RunProgress ==
  /\ progress.taken /\ turn.by = None /\ progress' = [progress EXCEPT !.taken = FALSE]
  /\ turn' = IF peer.phase = "http" THEN [by |-> "progress", at |-> "loop"] ELSE turn
  /\ UNCHANGED <<peer, net, resp, decision, body, handler, wire, used, draining, faults>>

-----------------------------------------------------------------------------
\* ProcessInput, one branch of its loop at a time.

Loop == turn.at = "loop" /\ peer.phase = "http"

\* DispatchRequest: charge the request, answer Expect, submit the handler.
DispatchRequest(n, p, u) ==
  /\ UNCHANGED <<decision, draining, progress>>
  /\ IF u.mine + u.others >= MaxActive
     THEN Respond(n, TRUE, p) /\ used' = u /\ UNCHANGED <<resp, handler>>
     ELSE /\ used' = [u EXCEPT !.mine = @ + 1]
          /\ \/ /\ p.asks = "upx" /\ ~net.open /\ resp' = [resp EXCEPT ![n] = NewResponse]
                /\ Leaves([p EXCEPT !.active = n], net) /\ UNCHANGED <<wire, handler, faults>>
             \/ /\ p.asks # "upx" \/ net.open
                /\ GoesOn([p EXCEPT !.active = n], net)
                /\ wire' = IF p.asks = "upx" THEN Sent(n, "100") ELSE wire
                /\ \/ /\ resp' = [resp EXCEPT ![n] = NewResponse]
                      /\ handler' = [handler EXCEPT ![n] = "busy"] /\ UNCHANGED faults
                   \/ /\ Fails /\ handler' = [handler EXCEPT ![n] = "failed"]
                      /\ resp' = [resp EXCEPT ![n] = [NewResponse EXCEPT !.sending = "finished", !.want = TRUE]]

\* BeginPolicy: charge the decision as well; a failed submission rejects it.
BeginPolicy(n, p) ==
  /\ UNCHANGED <<resp, handler, draining>>
  /\ IF used.mine + used.others >= MaxActive
     THEN Respond(n, TRUE, p) /\ UNCHANGED <<used, decision, progress>>
     ELSE /\ used' = [used EXCEPT !.mine = @ + 1] /\ GoesOn([p EXCEPT !.policy = n], net) /\ UNCHANGED wire
          /\ \/ decision' = [decision EXCEPT ![n] = "pending"] /\ UNCHANGED <<progress, faults>>
             \/ Fails /\ decision' = [decision EXCEPT ![n] = "rejected"] /\ progress' = Requested

Answered(n, close, p) == Respond(n, close, p) /\ UNCHANGED <<resp, decision, handler, used, draining, progress>>

\* HandleRequest: a route, a policy, or an answer at once.
HandleRequest(n, p) ==
  IF p.asks = "miss" \/ (p.asks = "pre" /\ ~p.guarded) THEN Answered(n, FALSE, p)
  ELSE IF p.guarded THEN BeginPolicy(n, p) ELSE DispatchRequest(n, p, used)

PolicyPending ==
  /\ Loop /\ peer.policy # 0 /\ decision[peer.policy] = "pending"
  /\ Leaves(peer, net) /\ UNCHANGED <<rest, wire, faults>>

\* ResolvePolicy: a rejection keeps the connection when the request was read.
ResolvePolicy ==
  LET n == peer.policy
      p == [peer EXCEPT !.policy = 0]
      u == [used EXCEPT !.mine = @ - 1] IN
  /\ Loop /\ n # 0 /\ UNCHANGED body
  /\ \/ /\ decision[n] = "aborted" /\ used' = u /\ Leaves(p, Close(net))
        /\ UNCHANGED <<wire, faults, resp, decision, handler, draining, progress>>
     \/ /\ decision[n] = "rejected" \/ (decision[n] = "allowed" /\ p.asks = "pre")
        /\ Respond(n, p.receiving \/ draining \/ p.asks = "last", p) /\ used' = u
        /\ UNCHANGED <<resp, decision, handler, draining, progress>>
     \/ decision[n] = "allowed" /\ p.asks # "pre" /\ DispatchRequest(n, p, u)

\* An aborted response closes; an unfinished one keeps later requests waiting.
ResponseAborted ==
  /\ Loop /\ peer.policy = 0 /\ peer.active # 0 /\ resp[peer.active].phase = "aborted"
  /\ Leaves(peer, Close(net)) /\ UNCHANGED <<rest, wire, faults>>

ResponseUnfinished ==
  /\ Loop /\ peer.policy = 0 /\ peer.active # 0 /\ ~peer.receiving
  /\ resp[peer.active].phase # "aborted" /\ ~IsFinished(peer.active)
  /\ Leaves(peer, net) /\ UNCHANGED <<rest, wire, faults>>

ResponseDone ==
  LET p == [peer EXCEPT !.active = 0, !.reader = FALSE] IN
  /\ Loop /\ peer.policy = 0 /\ peer.active # 0 /\ ~peer.receiving /\ IsFinished(peer.active)
  /\ IF resp[peer.active].close \/ draining
     THEN Leaves(Closing(p), [net EXCEPT !.closing = TRUE]) ELSE GoesOn(p, Resume(net))
  /\ UNCHANGED <<rest, wire, faults>>

Idle == peer.policy = 0 /\ peer.active = 0 /\ ~peer.receiving

DrainIdle ==
  /\ Loop /\ Idle /\ ~peer.started /\ draining
  /\ Leaves(Closing(peer), [net EXCEPT !.closing = TRUE]) /\ UNCHANGED <<rest, wire, faults>>

\* The wait for credit is announced before the credit is read.
MutantAwaitCredit ==
  /\ Loop /\ peer.policy = 0 /\ peer.receiving /\ (peer.active # 0 => resp[peer.active].phase # "aborted")
  /\ turn' = [turn EXCEPT !.at = "credit"] /\ UNCHANGED <<peer, net, rest, wire, faults>>
AwaitCredit ==
  /\ Loop /\ peer.policy = 0 /\ peer.receiving /\ (peer.active # 0 => resp[peer.active].phase # "aborted")
  /\ turn' = [turn EXCEPT !.at = "credit"] /\ peer' = [peer EXCEPT !.awaiting = TRUE]
  /\ UNCHANGED <<net, rest, wire, faults>>

Available == body.queued + body.held < MaxPieces

\* Where the parser is called, and what the credit did to the peer and the transport.
Parsing == (Loop /\ Idle /\ (draining => peer.started)) \/ turn.at = "credit"
Credited == IF turn.at = "credit" /\ Available THEN [peer EXCEPT !.awaiting = FALSE] ELSE peer
Flowing == IF turn.at = "credit" THEN [net EXCEPT !.paused = ~Available] ELSE net

Token == IF peer.input = <<>> THEN None ELSE Head(peer.input)

\* NeedMore: a body nobody will read any more closes the connection.
NeedMore ==
  /\ Parsing /\ (Token = None \/ (peer.receiving /\ Token = "piece" /\ ~Available))
  /\ Leaves(Credited, IF peer.receiving /\ peer.active # 0 /\ IsFinished(peer.active) THEN Close(Flowing) ELSE Flowing)
  /\ UNCHANGED <<rest, wire, faults>>

Parsed == [Credited EXCEPT !.input = Tail(@)]
Numbered == [Parsed EXCEPT !.number = @ + 1, !.asks = Token]

\* A whole request, or the head of one; storage for a streamed body is charged.
ParseHead ==
  LET n == peer.number + 1 IN
  /\ Parsing /\ ~peer.receiving /\ ~peer.started
  /\ \/ Token \in {"get", "last", "miss", "pre"} /\ HandleRequest(n, Numbered) /\ UNCHANGED body
     \/ /\ Token \in {"head", "headx"}
        /\ IF Token = "headx" /\ ~net.open THEN Leaves(Numbered, net) ELSE GoesOn([Numbered EXCEPT !.started = TRUE], net)
        /\ wire' = IF Token = "headx" /\ net.open THEN Sent(n, "100") ELSE wire
        /\ UNCHANGED <<rest, faults>>
     \/ /\ Token \in {"up", "upx"}
        /\ HandleRequest(n, [Numbered EXCEPT !.receiving = TRUE, !.reader = TRUE])
        /\ body' = [of |-> n, queued |-> 0, held |-> 0, state |-> "open"]
     \/ Token \in {"up", "upx"} /\ Answered(n, TRUE, Numbered) /\ UNCHANGED body

ParseBody ==
  /\ Parsing
  /\ \/ /\ Token = "piece" /\ peer.receiving /\ Available /\ GoesOn(Parsed, Flowing)
        /\ body' = IF body.state = "open" THEN [body EXCEPT !.queued = @ + 1] ELSE body
        /\ UNCHANGED <<resp, decision, handler, used, draining, progress, wire, faults>>
     \/ /\ Token = "piece" /\ peer.started /\ GoesOn(Parsed, Flowing) /\ UNCHANGED <<rest, wire, faults>>
     \/ /\ Token = "end" /\ peer.receiving /\ GoesOn([Parsed EXCEPT !.receiving = FALSE], Flowing)
        /\ body' = IF body.state = "open" THEN [body EXCEPT !.state = "done"] ELSE body
        /\ UNCHANGED <<resp, decision, handler, used, draining, progress, wire, faults>>
     \/ /\ Token = "end" /\ peer.started
        /\ HandleRequest(peer.number, [Parsed EXCEPT !.started = FALSE]) /\ UNCHANGED body

\* End and Cancel drop the queue; MarkCancelled ends a response once.
Ended(state) == IF body.state = "open" THEN [body EXCEPT !.state = state, !.queued = 0] ELSE body
Live(n) == resp[n].phase \in {"new", "streaming"}
Cancelled(n) == IF n # 0 /\ Live(n) THEN [resp EXCEPT ![n].phase = "aborted"] ELSE resp
Refund(n) == IF n # 0 /\ Live(n) THEN 1 ELSE 0

ParseError ==
  /\ Parsing /\ Token = "bad"
  /\ IF peer.reader
     THEN /\ body' = Ended("error") /\ resp' = Cancelled(peer.active)
          /\ used' = [used EXCEPT !.mine = @ - Refund(peer.active)]
          /\ Leaves(Parsed, Close(Flowing)) /\ UNCHANGED <<wire, faults, decision, handler, draining, progress>>
     ELSE Respond(peer.number + (IF peer.started THEN 0 ELSE 1), TRUE, Parsed) /\ UNCHANGED rest

-----------------------------------------------------------------------------
\* The policy and the handler, on their own threads.

\* Allow, Reject and Abort of a RequestDecisionState.
Decides(n) ==
  /\ decision[n] = "pending" /\ \E d \in {"allowed", "rejected", "aborted"} : decision' = [decision EXCEPT ![n] = d]
  /\ progress' = Requested /\ UNCHANGED <<peer, turn, net, resp, body, handler, wire, used, draining, faults>>

Mine(n) == UNCHANGED <<peer, turn, decision, draining>>

\* Start, Write, Finish and Complete open an exclusive transaction.
Begins(n, next, want) ==
  /\ handler[n] = "busy" /\ resp[n].sending = None /\ resp[n].phase \in {"new", "streaming"}
  /\ resp' = [resp EXCEPT ![n].sending = next, ![n].want = (want \/ resp[n].close \/ (n = peer.active /\ peer.asks = "last"))]
  /\ Mine(n) /\ UNCHANGED <<net, body, handler, wire, used, progress, faults>>

Part(n) ==
  CASE resp[n].phase = "new" -> IF resp[n].sending = "streaming" THEN "head" ELSE "whole"
    [] OTHER -> IF resp[n].sending = "streaming" THEN "piece" ELSE "end"

\* Send without the response's lock.
Sends(n) ==
  /\ resp[n].sending # None /\ resp[n].sent = None
  /\ \/ net.open /\ wire' = Sent(n, Part(n)) /\ resp' = [resp EXCEPT ![n].sent = "ok"] /\ UNCHANGED faults
     \/ net.open /\ Fails /\ resp' = [resp EXCEPT ![n].sent = "full"] /\ UNCHANGED wire
     \/ ~net.open /\ resp' = [resp EXCEPT ![n].sent = "failed"] /\ UNCHANGED <<wire, faults>>
  /\ Mine(n) /\ UNCHANGED <<net, body, handler, used, progress>>

\* The second half of SendTransaction, under the lock again.
Commits(n) ==
  LET r == [resp[n] EXCEPT !.sending = None, !.sent = None]
      fails == resp[n].sent = "failed" \/ (resp[n].sent = "full" /\ handler[n] = "failed") IN
  /\ resp[n].sent # None
  /\ \/ resp[n].phase = "aborted" /\ resp' = [resp EXCEPT ![n] = r] /\ UNCHANGED <<net, used, progress>>
     \/ /\ Live(n) /\ resp[n].sent = "ok"
        /\ resp' = [resp EXCEPT ![n] = [r EXCEPT !.phase = resp[n].sending, !.close = r.want]]
        /\ used' = [used EXCEPT !.mine = @ - (IF resp[n].sending = "finished" THEN 1 ELSE 0)]
        /\ UNCHANGED <<net, progress>>
     \/ /\ Live(n) /\ resp[n].sent # "ok" /\ ~fails
        /\ resp' = [resp EXCEPT ![n] = r] /\ UNCHANGED <<net, used, progress>>
     \/ /\ Live(n) /\ fails /\ resp' = [resp EXCEPT ![n] = [r EXCEPT !.phase = "aborted"]]
        /\ used' = [used EXCEPT !.mine = @ - 1] /\ net' = Close(net) /\ UNCHANGED progress
  /\ Mine(n) /\ UNCHANGED <<body, handler, wire, faults>>

\* Waits for capacity end, then the peer hears of the finished response.
MutantRetires(n) ==
  /\ resp[n].phase = "finished" /\ ~resp[n].retired /\ resp' = [resp EXCEPT ![n].retired = TRUE]
  /\ net' = IF resp[n].close THEN [net EXCEPT !.closing = TRUE] ELSE net
  /\ Mine(n) /\ UNCHANGED <<body, handler, wire, used, progress, faults>>
Retires(n) ==
  /\ resp[n].phase = "finished" /\ ~resp[n].retired /\ resp' = [resp EXCEPT ![n].retired = TRUE]
  /\ progress' = Requested /\ net' = IF resp[n].close THEN [net EXCEPT !.closing = TRUE] ELSE net
  /\ Mine(n) /\ UNCHANGED <<body, handler, wire, used, faults>>

Aborts(n) ==
  /\ handler[n] = "busy" /\ Live(n) /\ resp' = Cancelled(n) /\ used' = [used EXCEPT !.mine = @ - 1]
  /\ net' = Close(net) /\ Mine(n) /\ UNCHANGED <<body, handler, wire, progress, faults>>

\* Read takes a piece; its release returns credit; Cancel gives the body up.
Reads(n) ==
  /\ handler[n] = "busy" /\ body.of = n /\ body.queued > 0 /\ body' = [body EXCEPT !.queued = @ - 1, !.held = @ + 1]
  /\ Mine(n) /\ UNCHANGED <<net, resp, handler, wire, used, progress, faults>>

CreditReleased ==
  /\ peer' = [peer EXCEPT !.awaiting = FALSE]
  /\ progress' = IF peer.awaiting THEN Requested ELSE progress

Releases(n) ==
  /\ handler[n] = "busy" /\ body.of = n /\ body.held > 0 /\ body' = [body EXCEPT !.held = @ - 1] /\ CreditReleased
  /\ UNCHANGED <<turn, net, resp, decision, handler, wire, used, draining, faults>>

CancelsBody(n) ==
  /\ handler[n] = "busy" /\ body.of = n /\ body.state = "open" /\ body' = Ended("error") /\ net' = Close(net)
  /\ CreditReleased /\ UNCHANGED <<turn, resp, decision, handler, wire, used, draining, faults>>

-----------------------------------------------------------------------------
\* The sweep, the transport, the server.

\* The deadlines CheckTimeout applies to the peer as it is.
Deadlines ==
  LET of(name, applies) == IF applies THEN {name} ELSE {} IN
  of("policy", peer.policy # 0)
  \cup of("handler", peer.active # 0 /\ ~peer.receiving /\ resp[peer.active].phase = "new")
  \cup of("stream", peer.active # 0 /\ resp[peer.active].phase = "streaming")
  \cup of("idle", peer.active = 0 \/ (peer.active # 0 /\ IsFinished(peer.active)))
  \cup of("request", peer.receiving)
  \cup of("drain", peer.phase = "closing")

CheckTimeout ==
  /\ turn.by = None /\ net.open /\ Deadlines # {} /\ net' = Close(net)
  /\ resp' = Cancelled(peer.active) /\ used' = [used EXCEPT !.mine = @ - Refund(peer.active)]
  /\ UNCHANGED <<peer, turn, decision, body, handler, wire, progress, draining, faults>>

BeginDrain ==
  /\ ~draining /\ draining' = TRUE
  /\ UNCHANGED <<peer, turn, net, resp, decision, body, handler, wire, used, progress, faults>>

SweepDrains ==
  /\ draining /\ turn.by = None /\ peer.phase = "http" /\ peer.active = 0 /\ peer.policy = 0
  /\ peer' = Closing(peer) /\ net' = [net EXCEPT !.closing = TRUE] /\ UNCHANGED <<rest, turn, wire, faults>>

NetCloses == net.open /\ net' = Close(net) /\ UNCHANGED <<peer, turn, rest, wire, faults>>

\* FinishDisconnect ends the body, the decision and the response.
MutantFinishDisconnect ==
  /\ ~net.open /\ turn.by = None /\ peer.phase # "closed"
  /\ peer' = [peer EXCEPT !.phase = "closed", !.input = <<>>, !.active = 0, !.policy = 0, !.receiving = FALSE]
  /\ body' = Ended("error") /\ resp' = Cancelled(peer.active)
  /\ used' = [used EXCEPT !.mine = @ - Refund(peer.active)]
  /\ decision' = [n \in Requests |-> IF n = peer.policy /\ decision[n] = "pending" THEN "aborted" ELSE decision[n]]
  /\ UNCHANGED <<turn, net, handler, wire, progress, draining, faults>>
FinishDisconnect ==
  /\ ~net.open /\ turn.by = None /\ peer.phase # "closed"
  /\ peer' = [peer EXCEPT !.phase = "closed", !.input = <<>>, !.active = 0, !.policy = 0, !.receiving = FALSE]
  /\ body' = Ended("error") /\ resp' = Cancelled(peer.active)
  /\ used' = [used EXCEPT !.mine = @ - Refund(peer.active) - (IF peer.policy # 0 THEN 1 ELSE 0)]
  /\ decision' = [n \in Requests |-> IF n = peer.policy /\ decision[n] = "pending" THEN "aborted" ELSE decision[n]]
  /\ UNCHANGED <<turn, net, handler, wire, progress, draining, faults>>

\* Requests of other connections.
Others ==
  /\ \/ used.mine + used.others < MaxActive /\ used' = [used EXCEPT !.others = 1] /\ used.others = 0
     \/ used.others > 0 /\ used' = [used EXCEPT !.others = 0]
  /\ UNCHANGED <<peer, turn, net, resp, decision, body, handler, wire, progress, draining, faults>>

Next ==
  \/ OnBytesReceived \/ ProgressTakes \/ RunProgress \/ PolicyPending \/ ResolvePolicy
  \/ ResponseAborted \/ ResponseUnfinished \/ ResponseDone \/ DrainIdle \/ AwaitCredit \/ NeedMore
  \/ ParseHead \/ ParseBody \/ ParseError
  \/ CheckTimeout \/ BeginDrain \/ SweepDrains \/ NetCloses \/ FinishDisconnect \/ Others
  \/ \E n \in Requests :
       \/ Decides(n) \/ Sends(n) \/ Commits(n) \/ Retires(n) \/ Aborts(n) \/ Reads(n) \/ Releases(n) \/ CancelsBody(n)
       \/ Begins(n, "streaming", FALSE) \/ \E want \in BOOLEAN : Begins(n, "finished", want)

Spec == Init /\ [][Next]_vars

-----------------------------------------------------------------------------

TypeOK ==
  /\ peer.phase \in {"http", "closing", "closed"} /\ peer.active \in 0..MaxRequests /\ peer.policy \in 0..MaxRequests
  /\ Len(peer.input) <= MaxInput /\ used.mine \in 0..MaxActive
  /\ body.queued + body.held <= MaxPieces /\ turn.at \in {None, "loop", "credit"}

Whole == {<<"whole">>, <<"head", "end">>, <<"head", "piece", "end">>}
PartsOf(n) == LET w == SelectSeq(wire, LAMBDA e : e.n = n /\ e.what # "100") IN [i \in DOMAIN w |-> w[i].what]

\* Responses leave in the order of the requests, each of them once and whole
\* before the next begins, and 100-continue only before its own response.
ResponsesAreInOrder ==
  /\ \A n \in Requests : PartsOf(n) \in {<<>>, <<"whole">>, <<"head">>, <<"head", "piece">>} \cup Whole
  /\ \A i \in DOMAIN wire :
       /\ \A j \in DOMAIN wire : i < j => wire[i].n <= wire[j].n
       /\ \A n \in 1..(wire[i].n - 1) : PartsOf(n) \in Whole
       /\ wire[i].what = "100" => \A j \in 1..(i - 1) : wire[j].n < wire[i].n

\* The budget counts what is held, and a disconnected peer holds nothing: its
\* responses, decision and body have ended.
NothingIsHeld ==
  /\ used.mine = Cardinality({n \in Requests : Live(n)}) + (IF peer.policy # 0 THEN 1 ELSE 0)
  /\ peer.phase = "closed" =>
       /\ used.mine = 0 /\ body.state # "open"
       /\ \A n \in Requests : ~Live(n) /\ decision[n] # "pending"

\* Nobody is in the peer, and nobody is coming.
Quiet == turn.by = None /\ ~progress.queued /\ ~progress.taken /\ net.open /\ peer.phase = "http"

\* An event that lets the peer go on is never lost: a quiet peer has no decision
\* taken, no response finished, no credit returned that it has not acted on.
NoEventIsForgotten ==
  Quiet =>
    /\ peer.policy # 0 => decision[peer.policy] = "pending"
    /\ peer.active # 0 => ~IsFinished(peer.active)
    /\ peer.policy = 0 /\ peer.receiving /\ Available => ~net.paused /\ peer.input = <<>>
    /\ Idle => ~net.paused /\ peer.input = <<>>

\* Whatever a peer waits for, a deadline of CheckTimeout bounds it, so that it
\* cannot hold its connection for ever.
WaitsHaveDeadlines ==
  (turn.by = None /\ net.open /\ (peer.active # 0 => resp[peer.active].phase # "finished")) => Deadlines # {}

\* An exchange, all in all.
ExchangeIsOrderly == TypeOK /\ ResponsesAreInOrder /\ NothingIsHeld /\ NoEventIsForgotten /\ WaitsHaveDeadlines

=============================================================================
