----------------------------- MODULE MCTransport -----------------------------
(***************************************************************************)
(* The transports for TLC: connections and acceptors of both platforms,    *)
(* datagrams, the send budget, framing and the outbound queue.  A          *)
(* behaviour is one of one part.  SendBudget has its own variables; the    *)
(* other parts share the variables x1, x2, ... by position, and a part     *)
(* leaves alone those it does not use.                                     *)
(***************************************************************************)
EXTENDS SendBudget, TLC

CONSTANTS
  Parts,                          \* the parts that are checked
  WakeRefusals, WakeGenerations,  \* of the outbound queue: refusals of the scheduler, generations of its wake-up
  w1, w2

VARIABLES part, x1, x2, x3, x4, x5, x6, x7, x8, x9, x10, x11

others == <<x1, x2, x3, x4, x5, x6, x7, x8, x9, x10, x11>>

\* The I/O threads are alike.
WorkerSymmetry == Permutations({w1, w2})

-----------------------------------------------------------------------------

\* Of three messages two share a latestKey, one of these large and with an expiry.
Outbound(messages) == INSTANCE OutboundQueue WITH
  Messages <- messages, Bytes <- [m \in messages |-> IF m = "m2" THEN 2 ELSE 1],
  Key <- [m \in messages |-> IF m = "m1" THEN None ELSE "k"], Expiring <- {"m2"} \cap messages,
  MaxMessages <- 2, MaxRetained <- 2, MaxPump <- 1, Refusals <- WakeRefusals, Failures <- 1, MaxGeneration <- WakeGenerations,
  q <- x1, queue <- x2, pump <- x3, capacity <- x4, timer <- x5, retry <- x6, tails <- x7, caller <- x8,
  fate <- x9, expired <- x10, budget <- x11
Unlike == {"m1", "m2"}
Replacing == {"m2", "m3"}

LinuxConn == INSTANCE LinuxConnection WITH
  Workers <- {w1, w2}, MaxSent <- 2, MaxPeer <- 1, Reads <- 2, Writes <- 1, SendLimit <- 2, Toggles <- 2,
  conn <- x1, armed <- x2, context <- x3, worker <- x4, kernel <- x5, owed <- x6, seen <- x7, toggles <- x8

LinuxAcc == INSTANCE LinuxAcceptor WITH
  Workers <- {w1, w2}, MaxGeneration <- 2, MaxPeers <- 3, Exhaustions <- 2, Faults <- 1,
  acc <- x1, armed <- x2, timer <- x3, worker <- x4, owner <- x5, backlog <- x6, peers <- x7, handled <- x8, budget <- x9

WindowsConn == INSTANCE WindowsConnection WITH
  MaxSent <- 3, SendLimit <- 2, MaxPeer <- 2, Toggles <- 2, Faults <- 1,
  conn <- x1, seen <- x2, owed <- x3, sent <- x4, peer <- x5, budget <- x6

WindowsAcc == INSTANCE WindowsAcceptor WITH
  Slots <- {"s1", "s2"}, Workers <- {w1, w2}, MaxPeers <- 2, Refusals <- 2, MaxStarts <- 2,
  acc <- x1, posted <- x2, handoffs <- x3, needs <- x4, timer <- x5, port <- x6, io <- x7, worker <- x8,
  stopper <- x9, budget <- x10

Pump == INSTANCE DatagramPump WITH
  Packets <- 3, MaxGen <- 5, Faults <- 1, Stoppers <- {"owner", "receiver"},
  pump <- x1, sub <- x2, term <- x3, batch <- x4, arm <- x5, monitor <- x6, stop <- x7, data <- x8, budget <- x9

\* One session that registers twice, two places it may be at, two threads that poll.
Peers == INSTANCE DatagramPeers WITH
  Sessions <- {"a"}, Endpoints <- {"x", "y"}, Pollers <- {"p", "q"}, MaxRegistered <- 1, MaxJump <- 2,
  Migration <- FALSE, MaxSequence <- 3, MaxTokens <- 2, MaxBindings <- 2, MaxPolled <- 3,
  TotalRate <- [burst |-> 2, rate |-> 1], PeerRate <- [burst |-> 1, rate |-> 1], MaxClock <- 1,
  binding <- x1, issued <- x2, peers <- x3, polling <- x4, poller <- x5, delivered <- x6, total <- x7,
  sends <- x8, now <- x9, polled <- x10

\* Bytes of one bit, lengths of two.
Frames == INSTANCE FrameReader WITH
  Base <- 2, HeaderSize <- 2, MaxBodySize <- 2, MaxStream <- 7, MaxCompleted <- 3, Faults <- 1,
  codec <- x1, reader <- x2, answer <- x3, received <- x4, taken <- x5, faults <- x6

-----------------------------------------------------------------------------

From10 == x10 = 0 /\ x11 = 0
From9 == x9 = 0 /\ From10
From7 == x7 = 0 /\ x8 = 0 /\ From9

\* The memory, ordered or not, is a choice of the budget's part alone.
MCInit ==
  /\ part \in Parts /\ Init
  /\ part # "budget" => ~buffered
  /\ \/ part = "outbound" /\ Outbound(Unlike)!Init
     \/ part = "replacing" /\ Outbound(Replacing)!Init
     \/ part = "linux connection" /\ LinuxConn!Init /\ From9
     \/ part = "linux acceptor" /\ LinuxAcc!Init /\ From10
     \/ part = "windows connection" /\ WindowsConn!Init /\ From7
     \/ part = "windows acceptor" /\ WindowsAcc!Init /\ x11 = 0
     \/ part = "pump" /\ Pump!Init /\ From10
     \/ part = "peers" /\ Peers!Init /\ x11 = 0
     \/ part = "budget" /\ x1 = 0 /\ x2 = 0 /\ x3 = 0 /\ x4 = 0 /\ x5 = 0 /\ x6 = 0 /\ From7
     \/ part = "frames" /\ Frames!Init /\ From7

after9 == <<x10, x11>>
after8 == <<x9, after9>>
after6 == <<x7, x8, after8>>

\* A step of a part that is not the budget.
OtherNext ==
  \/ part = "outbound" /\ Outbound(Unlike)!Next
  \/ part = "replacing" /\ Outbound(Replacing)!Next
  \/ part = "linux connection" /\ LinuxConn!Next /\ UNCHANGED after8
  \/ part = "linux acceptor" /\ LinuxAcc!Next /\ UNCHANGED after9
  \/ part = "windows connection" /\ WindowsConn!Next /\ UNCHANGED after6
  \/ part = "windows acceptor" /\ WindowsAcc!Next /\ UNCHANGED x11
  \/ part = "pump" /\ Pump!Next /\ UNCHANGED after9
  \/ part = "peers" /\ Peers!Next /\ UNCHANGED x11
  \/ part = "frames" /\ Frames!Next /\ UNCHANGED after6

MCNext ==
  /\ UNCHANGED part
  /\ \/ OtherNext /\ UNCHANGED vars
     \/ part = "budget" /\ Next /\ UNCHANGED others

MCSpec == MCInit /\ [][MCNext]_<<part, vars, others>>

-----------------------------------------------------------------------------
(* The properties are those of the modules, each for its part; for the     *)
(* budget, BudgetIsExact as it stands in SendBudget.                       *)

\* OutboundIsOrderly.  OutboundQueue: counts and bytes are those of the
\* messages queued or not yet released, the message being sent is never
\* replaced, a queue that ended Ok discarded nothing, and whatever is queued,
\* expiring or waiting for the drain has a timer, a capacity wait or a thread
\* that will come for it.
OutboundIsOrderly ==
  /\ part = "outbound" => Outbound(Unlike)!OutboundIsOrderly
  /\ part = "replacing" => Outbound(Replacing)!OutboundIsOrderly

\* ConnectionsAreOrderly.  Both connections: one callback at a time and the
\* disconnect last; no buffer is reused under a pending operation; what is
\* wanted from the socket is armed or about to be; a graceful close comes after
\* every byte accepted; and the end of a connection is always owed by somebody.
ConnectionsAreOrderly ==
  /\ part = "linux connection" => LinuxConn!ConnectionIsOrderly
  /\ part = "windows connection" => WindowsConn!WindowsConnectionIsOrderly

\* AcceptorsAreOrderly.  Both acceptors: the handler outlives every hand-off; a
\* listener that is open is watched, waits for its retry timer or is in a
\* worker's hands, also when descriptors ran out; an event of an earlier
\* listener touches no later one; and Stop of the acceptor and of its IoContext
\* never wait for each other.
AcceptorsAreOrderly ==
  /\ part = "linux acceptor" => LinuxAcc!AcceptorIsOrderly
  /\ part = "windows acceptor" => WindowsAcc!WindowsAcceptorIsOrderly

\* DatagramsAreOrderly.  DatagramTransport: while it receives, the pump is
\* armed, polls or is about to be armed again; one batch at a time, none after
\* StopReceiving; no sequence number is delivered twice, or to another
\* registration than the one it was accepted for; and no more is sent than the
\* rate limits earned.
DatagramsAreOrderly ==
  /\ part = "pump" => Pump!PumpIsOrderly
  /\ part = "peers" => Peers!PeersAreOrderly

\* FramingIsExact.  FrameReader: however a stream is cut and its frames are
\* taken, the bodies handed out are those of the stream, an oversized length is
\* refused at its header, Finish tells a cut frame, and EncodeTo writes what
\* the reader reads back.
FramingIsExact == part = "frames" => Frames!FramingIsExact

-----------------------------------------------------------------------------
(* What the code is said to do, and does not; for the budget,              *)
(* ReleaseIsDispatched as it stands in SendBudget.                         *)

\* A wake-up the scheduler refused comes when the queue's running timer has
\* returned its slot: no message with an expiry is left without a timer
\* (OutboundQueue::State::Arm).
NoWakeForgotten == part = "outbound" => Outbound(Unlike)!NoWakeForgotten

\* Arming the receive pump again never waits for the monitor's callback, nor
\* that callback for it (ReceivePump::Arm and Ready).
RearmNeverBlocks == part = "pump" => Pump!RearmNeverBlocks
=============================================================================
