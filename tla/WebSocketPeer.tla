---------------------------- MODULE WebSocketPeer ----------------------------
(***************************************************************************)
(* One WebSocket connection of Web::HttpServer: the upgrade and its        *)
(* authorization, the frames of messages in and out, the message writer,   *)
(* receive flow control (which takes no lock), the heartbeat and the       *)
(* closing handshake.                                                      *)
(*                                                                         *)
(* The client's frames are tokens: "text" a whole message, "first", "more" *)
(* and "final" its fragments, "ping", "pong" the answer to the heartbeat,  *)
(* "close" and "bad" one that breaks the protocol.  Operations under the   *)
(* peer's input lock are one step each, since nothing else of the peer is  *)
(* entered meanwhile; PauseReceive is as many steps as it has accesses.    *)
(***************************************************************************)
EXTENDS Integers, Sequences, SequencesExt, FiniteSets

CONSTANTS
  Scripts,     \* what clients may send after the upgrade
  MaxInput,    \* frames the peer buffers
  Pauses,      \* calls of PauseReceive
  MaxWrites,   \* messages the application may begin, and frames it may write
  Faults       \* sends refused by a full queue

None == "none"

VARIABLES
  ws,        \* phase; held (mReceiveHeld); resumed (mHeartbeatResumed); ignore; fragment; input
  net,       \* frames still to come; paused, a receive posted, open, closing after its sends
  out,       \* mOutgoingId, started; the next id; frames written
  heart,     \* the heartbeat: a ping pending, its sequence, closed for a missing pong
  pauser,    \* where PauseReceive is
  turn,      \* a thread is in ProcessInput
  progress,  \* the progress thread was asked
  wire,      \* frames sent: whether a message is begun, a close sent, the order broken
  got,       \* callbacks: onOpen, onClose, whether one came out of order
  budget

vars == <<ws, net, out, heart, pauser, turn, progress, wire, got, budget>>

Init ==
  /\ ws = [phase |-> "http", held |-> FALSE, resumed |-> FALSE, ignore |-> FALSE, fragment |-> None, input |-> <<>>]
  /\ \E s \in Scripts : net = [script |-> s, paused |-> FALSE, posted |-> TRUE, open |-> TRUE, closing |-> FALSE]
  /\ out = [id |-> 0, started |-> FALSE, next |-> 0, writes |-> 0]
  /\ heart = [pending |-> FALSE, sequence |-> 0, missed |-> FALSE]
  /\ pauser = "idle" /\ turn = FALSE /\ progress = FALSE
  /\ wire = [begun |-> FALSE, closed |-> FALSE, broken |-> FALSE]
  /\ got = [open |-> FALSE, close |-> FALSE, broken |-> FALSE]
  /\ budget = [pauses |-> 0, faults |-> 0]

-----------------------------------------------------------------------------

IsOpen == ws.phase = "websocket" /\ net.open
Fails == budget.faults < Faults /\ budget' = [budget EXCEPT !.faults = @ + 1]

\* A frame on the wire: data after a close, or a message within another, breaks the order.
Frame(kind) ==
  [begun |-> IF kind = "begin" THEN TRUE ELSE IF kind = "end" THEN FALSE ELSE wire.begun,
   closed |-> wire.closed \/ kind = "close",
   broken |-> \/ wire.broken \/ (wire.closed /\ kind \notin {"pong"})
              \/ (kind \in {"begin", "data"} /\ wire.begun) \/ (kind \in {"next", "end"} /\ ~wire.begun)]

Heard(what) ==
  [open |-> got.open \/ what = "open", close |-> got.close \/ what = "close",
   broken |-> got.broken \/ got.close \/ (got.open = (what = "open"))]

\* SendClose: the handshake begins, a pause by the application ends, the writer is gone.
Released(net0) == IF ws.held THEN [net0 EXCEPT !.paused = FALSE, !.posted = TRUE] ELSE net0
ClosingPeer(ignore) == [ws EXCEPT !.phase = "closing", !.held = FALSE, !.ignore = @ \/ ignore]

\* The close frame, once; after a peer's own close or an error also CloseAfterSend.
SendClose(ignore, after, missed) ==
  /\ heart' = [heart EXCEPT !.pending = FALSE, !.missed = @ \/ missed] /\ out' = [out EXCEPT !.id = 0]
  /\ progress' = (progress \/ ws.held)
  /\ IF ws.phase = "websocket"
     THEN \/ /\ net.open /\ ws' = ClosingPeer(ignore) /\ wire' = Frame("close") /\ UNCHANGED budget
             /\ net' = [Released(net) EXCEPT !.closing = @ \/ after]
          \/ /\ Fails \/ (~net.open /\ UNCHANGED budget)
             /\ ws' = ClosingPeer(ignore) /\ net' = [Released(net) EXCEPT !.open = FALSE] /\ UNCHANGED wire
     ELSE /\ ws' = [ws EXCEPT !.ignore = @ \/ ignore] /\ net' = [net EXCEPT !.closing = @ \/ after]
          /\ UNCHANGED <<wire, budget>>

Consumed == [ws EXCEPT !.input = Tail(@)]

-----------------------------------------------------------------------------
\* The upgrade.

\* Upgrade without a policy: 101, and what a policy's wait had paused resumes; then onOpen.
Upgrade ==
  /\ ws.phase \in {"http", "authorizing"} /\ net.open /\ ~turn
  /\ \/ /\ ws' = [ws EXCEPT !.phase = "websocket"] /\ wire' = Frame("101") /\ got' = Heard("open")
        /\ net' = [net EXCEPT !.paused = FALSE, !.posted = TRUE] /\ turn' = TRUE
     \/ /\ ws' = [ws EXCEPT !.phase = "httpclosing"]
        /\ net' = [net EXCEPT !.closing = TRUE] /\ UNCHANGED <<wire, got, turn>>
  /\ UNCHANGED <<out, heart, pauser, progress, budget>>

\* BeginPolicy for the socket; frames received meanwhile stay in the buffer.
Authorize ==
  /\ ws.phase = "http" /\ ws' = [ws EXCEPT !.phase = "authorizing"]
  /\ UNCHANGED <<turn, net, out, heart, pauser, progress, wire, got, budget>>

-----------------------------------------------------------------------------
\* Receiving.

\* OnBytesReceived; a receive already posted may come after a pause.
OnBytesReceived ==
  /\ net.open /\ net.script # <<>> /\ (net.paused => net.posted) /\ ws.phase \in {"authorizing", "websocket", "closing"}
  /\ Head(net.script) = "pong" => heart.sequence = 1
  /\ IF ws.ignore THEN net' = [net EXCEPT !.script = <<>>] /\ UNCHANGED ws
     ELSE /\ Len(ws.input) <= MaxInput /\ ws' = [ws EXCEPT !.input = Append(@, Head(net.script))]
          /\ net' = [net EXCEPT !.script = Tail(@), !.posted = ~net.paused,
                                !.paused = @ \/ (ws.phase = "authorizing" /\ Len(ws.input) + 1 >= MaxInput)]
  /\ ~turn /\ turn' = TRUE /\ UNCHANGED <<out, heart, pauser, progress, wire, got, budget>>

\* RunProgress; a resumed heartbeat counts from now.
RunProgress ==
  /\ progress /\ ~turn /\ progress' = FALSE /\ turn' = TRUE /\ ws' = [ws EXCEPT !.resumed = FALSE]
  /\ UNCHANGED <<net, out, heart, pauser, wire, got, budget>>

\* ProcessInput takes frames unless the application holds them.
Processes == ws.phase \in {"websocket", "closing"} /\ ~ws.ignore /\ ws.input # <<>> /\ ~ws.held

ProcessControlFrame ==
  /\ turn /\ Processes
  /\ \/ /\ Head(ws.input) = "ping" /\ ws' = Consumed /\ UNCHANGED <<out, heart, progress>>
        /\ \/ net.open /\ wire' = Frame("pong") /\ UNCHANGED <<net, budget>>
           \/ (Fails \/ (~net.open /\ UNCHANGED budget)) /\ net' = [net EXCEPT !.open = FALSE] /\ UNCHANGED wire
     \/ /\ Head(ws.input) = "pong" /\ ws' = Consumed /\ heart' = [heart EXCEPT !.pending = FALSE]
        /\ UNCHANGED <<net, out, progress, wire, budget>>
     \/ Head(ws.input) = "close" /\ SendClose(TRUE, TRUE, FALSE)
     \/ Head(ws.input) = "bad" /\ SendClose(TRUE, TRUE, FALSE)
  /\ UNCHANGED <<turn, pauser, got>>

\* Data frames: fragments make one message; after our close they are dropped.
ProcessDataFrame ==
  LET frame == Head(ws.input)
      fits == IF frame \in {"more", "final"} THEN ws.fragment # None ELSE ws.fragment = None IN
  /\ turn /\ Processes /\ frame \in {"text", "first", "more", "final"} /\ UNCHANGED <<pauser, turn>>
  /\ IF ws.phase = "closing"
     THEN ws' = Consumed /\ UNCHANGED <<net, out, heart, progress, wire, got, budget>>
     ELSE IF ~fits THEN SendClose(TRUE, TRUE, FALSE) /\ UNCHANGED got
     ELSE /\ ws' = [Consumed EXCEPT !.fragment = IF frame \in {"first", "more"} THEN "open" ELSE None]
          /\ got' = IF frame \in {"text", "final"} THEN Heard("message") ELSE got
          /\ UNCHANGED <<net, out, heart, progress, wire, budget>>

ProcessInputReturns ==
  /\ turn /\ ~Processes /\ turn' = FALSE
  /\ UNCHANGED <<ws, net, out, heart, pauser, progress, wire, got, budget>>

-----------------------------------------------------------------------------
\* Flow control, without the peer's lock.

PauseReceive ==
  /\ pauser = "idle" /\ IsOpen /\ budget.pauses < Pauses /\ budget' = [budget EXCEPT !.pauses = @ + 1]
  /\ ws' = [ws EXCEPT !.held = TRUE] /\ pauser' = "held"
  /\ UNCHANGED <<turn, net, out, heart, progress, wire, got>>

PauseTransport ==
  /\ pauser = "held" /\ pauser' = "paused" /\ net' = [net EXCEPT !.paused = net.open]
  /\ UNCHANGED <<turn, ws, out, heart, progress, wire, got, budget>>

\* A close meanwhile is to have its answer read.
PauseRechecks ==
  /\ pauser = "paused" /\ pauser' = "idle"
  /\ IF ~IsOpen /\ ws.held
     THEN ws' = [ws EXCEPT !.held = FALSE] /\ net' = [net EXCEPT !.paused = FALSE, !.posted = TRUE] /\ progress' = TRUE
     ELSE UNCHANGED <<ws, net, progress>>
  /\ UNCHANGED <<turn, out, heart, wire, got, budget>>

\* ResumeReceive, by the thread that paused: the mark, then the heartbeat's, then the transport.
ResumeReceive ==
  /\ pauser = "idle" /\ IsOpen /\ ws.held /\ ws' = [ws EXCEPT !.held = FALSE] /\ pauser' = "resuming"
  /\ UNCHANGED <<turn, net, out, heart, progress, wire, got, budget>>

ResumeTransport ==
  /\ pauser = "resuming" /\ pauser' = "idle" /\ ws' = [ws EXCEPT !.resumed = TRUE]
  /\ net' = [net EXCEPT !.paused = FALSE, !.posted = TRUE] /\ progress' = TRUE
  /\ UNCHANGED <<turn, out, heart, wire, got, budget>>

-----------------------------------------------------------------------------
\* Sending.

\* BeginMessage reserves the lane of data frames.
BeginMessage ==
  /\ IsOpen /\ out.id = 0 /\ out.next < MaxWrites
  /\ out' = [out EXCEPT !.id = out.next + 1, !.next = @ + 1, !.started = FALSE]
  /\ UNCHANGED <<turn, ws, net, heart, pauser, progress, wire, got, budget>>

\* WriteMessage: a frame of the message; the final one gives the lane back.
WriteMessage(final) ==
  /\ IsOpen /\ out.id # 0 /\ out.writes < MaxWrites
  /\ \/ /\ wire' = Frame(IF out.started THEN (IF final THEN "end" ELSE "next") ELSE IF final THEN "data" ELSE "begin")
        /\ out' = [out EXCEPT !.started = TRUE, !.id = IF final THEN 0 ELSE @, !.writes = @ + 1] /\ UNCHANGED budget
     \/ Fails /\ UNCHANGED <<wire, out>>
  /\ UNCHANGED <<turn, ws, net, heart, pauser, progress, got>>

\* AbortMessage, also when the writer is destroyed: a begun message cannot be left open.
MutantAbortMessage ==
  /\ out.id # 0 /\ out' = [out EXCEPT !.id = 0]
  /\ UNCHANGED <<turn, net, ws, heart, pauser, progress, wire, got, budget>>
AbortMessage ==
  /\ out.id # 0 /\ out' = [out EXCEPT !.id = 0]
  /\ net' = IF out.started THEN [net EXCEPT !.open = FALSE] ELSE net
  /\ UNCHANGED <<turn, ws, heart, pauser, progress, wire, got, budget>>

\* SendText, SendBinary: not while a writer has the lane.
MutantMaySendData == IsOpen
MaySendData == IsOpen /\ out.id = 0

SendData ==
  /\ MaySendData /\ out.writes < MaxWrites
  /\ wire' = Frame("data") /\ out' = [out EXCEPT !.writes = @ + 1]
  /\ UNCHANGED <<turn, ws, net, heart, pauser, progress, got, budget>>

\* Close by the application, by the drain (1001) or for a missing pong.
CloseSocket == ws.phase = "websocket" /\ net.open /\ SendClose(FALSE, FALSE, FALSE) /\ UNCHANGED <<turn, pauser, got>>

\* CheckHeartbeat: no ping and no deadline while the application holds the input.
Heartbeat ==
  /\ ~turn /\ IsOpen /\ ~ws.held /\ ~ws.resumed /\ ~heart.pending /\ heart.sequence = 0
  /\ wire' = Frame("ping") /\ heart' = [heart EXCEPT !.pending = TRUE, !.sequence = 1]
  /\ UNCHANGED <<turn, ws, net, out, pauser, progress, got, budget>>

PongTimeout ==
  /\ ~turn /\ IsOpen /\ heart.pending /\ ~ws.held /\ ~ws.resumed
  /\ SendClose(FALSE, FALSE, TRUE) /\ UNCHANGED <<turn, pauser, got>>

-----------------------------------------------------------------------------
\* The end: the other side, CloseAfterSend, or webSocketCloseTimeout.

NetCloses == net.open /\ net' = [net EXCEPT !.open = FALSE] /\ UNCHANGED <<turn, ws, out, heart, pauser, progress, wire, got, budget>>

\* FinishDisconnect: onClose only for a socket that was opened.
FinishDisconnect ==
  /\ ~net.open /\ ~turn /\ ws.phase # "closed"
  /\ ws' = [ws EXCEPT !.phase = "closed", !.input = <<>>, !.fragment = None]
  /\ out' = [out EXCEPT !.id = 0] /\ heart' = [heart EXCEPT !.pending = FALSE] /\ progress' = FALSE
  /\ got' = IF got.open THEN Heard("close") ELSE got
  /\ UNCHANGED <<turn, net, pauser, wire, budget>>

Next ==
  \/ Authorize \/ Upgrade \/ OnBytesReceived \/ RunProgress \/ ProcessInputReturns
  \/ ProcessControlFrame \/ ProcessDataFrame
  \/ PauseReceive \/ PauseTransport \/ PauseRechecks \/ ResumeReceive \/ ResumeTransport
  \/ BeginMessage \/ WriteMessage(TRUE) \/ WriteMessage(FALSE) \/ AbortMessage \/ SendData
  \/ CloseSocket \/ Heartbeat \/ PongTimeout \/ NetCloses \/ FinishDisconnect

Spec == Init /\ [][Next]_vars

-----------------------------------------------------------------------------

TypeOK ==
  /\ ws.phase \in {"http", "authorizing", "websocket", "closing", "httpclosing", "closed"}
  /\ ws.held \in BOOLEAN /\ Len(ws.input) <= MaxInput + 1 /\ pauser \in {"idle", "held", "paused", "resuming"}
  /\ out.id \in 0..out.next /\ heart.sequence \in 0..1

\* Messages leave whole and one at a time: only control frames come between the
\* frames of one, nothing but a closed connection leaves one unfinished, and
\* nothing but a pong follows the close frame.
MessagesAreWhole == ~wire.broken /\ ((wire.begun /\ IsOpen) => out.id # 0 /\ out.started)

\* The application hears onOpen first and onClose last, each once.
CallbacksAreInOrder == ~got.broken /\ (ws.phase = "closed" /\ got.open => got.close)

\* Frames that may be taken are taken: with nobody on the way the buffer is
\* empty, unless the application holds it, and nobody but it stops the transport.
NoFrameIsForgotten ==
  (~progress /\ ~turn /\ pauser = "idle" /\ net.open /\ ws.phase = "websocket") =>
    (ws.held \/ ws.input = <<>>) /\ (net.paused => ws.held)

\* A WebSocket, all in all.
WebSocketIsOrderly == TypeOK /\ MessagesAreWhole /\ CallbacksAreInOrder /\ NoFrameIsForgotten

\* What HttpServer.h says of Close: it ends a pause, so that the answer of the
\* closing handshake is read.
CloseReadsItsAnswer ==
  (ws.phase = "closing" /\ ~ws.ignore /\ net.open /\ pauser = "idle") => ~net.paused

\* What HttpServer.cpp says of a missing pong: it is not counted while the
\* application holds the input and until the resumed input was read.
PongsAreRead == [][heart'.missed /\ ~heart.missed => "pong" \notin {ws.input[i] : i \in DOMAIN ws.input}]_vars

=============================================================================
