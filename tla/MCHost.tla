-------------------------------- MODULE MCHost --------------------------------
(***************************************************************************)
(* ServerHost and its sessions, and the TCP server of the C interface, for *)
(* TLC.  A behaviour is one of one part.  SessionRegistry has its own      *)
(* variables; the other parts share x1, x2, ... by position.  A part leaves *)
(* alone those it does not use.                                            *)
(***************************************************************************)
EXTENDS SessionRegistry, Sequences

CONSTANTS
  Parts,   \* the parts that are checked
  Gone

VARIABLES part, x1, x2, x3, x4, x5, x6, x7, x8, x9, x10, x11

others == <<x1, x2, x3, x4, x5, x6, x7, x8, x9, x10, x11>>

-----------------------------------------------------------------------------

\* Two silent sessions; or one that sends while the host drains, and whose
\* finalizer may be refused.
Casts ==
  {[sessions |-> {"s1", "s2"}, talkers |-> {}, drainers |-> {}, refusals |-> 0],
   [sessions |-> {"s1"}, talkers |-> {"s1"}, drainers |-> {"g"}, refusals |-> 1]}

Host == INSTANCE ServerHost WITH
  Sessions <- {"s1", "s2"}, MaxSessions <- 2, Stoppers <- {"a"}, Drainers <- {"g"},
  host <- x1, res <- x2, pc <- x3, ses <- x4, work <- x5, refusals <- x6

\* One session, its I/O thread, the JobRunner, Stop and one application thread.
\* Either the application makes two calls, from its thread or from callbacks; or a
\* message arrives, a callback may call, and a post may fail.
Uses ==
  [session |-> [apps |-> {"a1"}, bound |-> [messages |-> 0, calls |-> 2, failures |-> 0]],
   message |-> [apps |-> {}, bound |-> [messages |-> 1, calls |-> 1, failures |-> 1]]]

Session(use) == INSTANCE NetworkSession WITH
  Apps <- use.apps, Bounds <- {use.bound},
  stack <- x1, outbound <- x2, session <- x3, conn <- x4, host <- x5, jobs <- x6, seen <- x7, left <- x8

\* A chunk that completes nothing, one that completes two frames, and two of one.
Receive == INSTANCE SessionReceive WITH
  Chunks <- << [bytes |-> 1, frames |-> 0], [bytes |-> 2, frames |-> 2],
               [bytes |-> 1, frames |-> 1], [bytes |-> 1, frames |-> 1] >>,
  Modes <- {"workers", "sync"}, MaxFrames <- 1, MaxReceive <- 4, MaxChunks <- 3, HostReceive <- 3,
  MaxTasks <- 3, Faults <- 2,
  mode <- x1, rx <- x2, reader <- x3, parse <- x4, life <- x5, net <- x6, jobs <- x7, run <- x8,
  item <- x9, handled <- x10, faults <- x11

Pool == INSTANCE ParseWorkerPool WITH
  Workers <- {"w1", "w2"}, Jobs <- {"j1", "j2", "j3"}, Stoppers <- {"a", "b"}, Faults <- 1,
  pool <- x1, queue <- x2, worker <- x3, caller <- x4, job <- x5, budget <- x6

\* Two registries that share the numbers of the process.
MCRegistry == [t \in Issuers |-> IF t = "t3" THEN "b" ELSE "a"]

\* Two connections, and callers that: share one event, from two threads; meet a
\* failure; pause and run into both limits; subscribe and close; destroy handles
\* with events; stop the server.
Callers ==
  [sharing |-> [apps |-> {"a", "b"}, uses |-> {"poll"}, own |-> 2, total |-> 1, p |-> 1, toggles |-> 0, faults |-> 0],
   failing |-> [apps |-> {"a"}, uses |-> {"poll"}, own |-> 2, total |-> 1, p |-> 1, toggles |-> 0, faults |-> 1],
   pausing |-> [apps |-> {"a"}, uses |-> {"poll"}, own |-> 1, total |-> 2, p |-> 2, toggles |-> 1, faults |-> 0],
   subscribing |-> [apps |-> {"a"}, uses |-> {"notifier", "close"}, own |-> 4, total |-> 4, p |-> 1, toggles |-> 0, faults |-> 0],
   destroying |-> [apps |-> {"a"}, uses |-> {"poll", "handles"}, own |-> 2, total |-> 1, p |-> 1, toggles |-> 0, faults |-> 0],
   stopping |-> [apps |-> {"a"}, uses |-> {"poll", "ends", "stop"}, own |-> 4, total |-> 4, p |-> 1, toggles |-> 0, faults |-> 0]]

CServer(c) == INSTANCE CTcpServer WITH
  Slots <- <<"p", "q">>, Apps <- c.apps, Uses <- c.uses, OwnMax <- c.own, GlobalMax <- c.total,
  Arrivals <- [p |-> c.p, q |-> 1], Toggles <- c.toggles, Faults <- c.faults,
  peer <- x1, todo <- x2, server <- x3, box <- x4, held <- x5, left <- x6

-----------------------------------------------------------------------------

From1 == x1 = 0 /\ x2 = 0 /\ x3 = 0 /\ x4 = 0 /\ x5 = 0 /\ x6 = 0
From7 == x7 = 0 /\ x8 = 0
From9 == x9 = 0 /\ x10 = 0 /\ x11 = 0

MCInit ==
  /\ part \in Parts /\ Init
  /\ \/ part = "host" /\ Host!Init /\ From7 /\ From9
     \/ \E name \in DOMAIN Uses : part = name /\ Session(Uses[name])!Init /\ From9
     \/ part = "receive" /\ Receive!Init
     \/ part = "pool" /\ Pool!Init /\ From7 /\ From9
     \/ part = "registry" /\ From1 /\ From7 /\ From9
     \/ \E name \in DOMAIN Callers : part = name /\ CServer(Callers[name])!Init /\ From7 /\ From9

after6 == <<x7, x8>>
after8 == <<x9, x10, x11>>

MCNext ==
  \/ part = "host" /\ Host!Next /\ UNCHANGED <<part, vars, after6, after8>>
  \/ \E name \in DOMAIN Uses : part = name /\ Session(Uses[name])!Next /\ UNCHANGED <<part, vars, after8>>
  \/ part = "receive" /\ Receive!Next /\ UNCHANGED <<part, vars>>
  \/ part = "pool" /\ Pool!Next /\ UNCHANGED <<part, vars, after6, after8>>
  \/ part = "registry" /\ Next /\ UNCHANGED <<part, others>>
  \/ \E name \in DOMAIN Callers : part = name /\ CServer(Callers[name])!Next /\ UNCHANGED <<part, vars, after6, after8>>

MCSpec == MCInit /\ [][MCNext]_<<part, vars, others>>

-----------------------------------------------------------------------------
(* The properties are those of the modules, each for its part;             *)
(* RegistryIsExact is that of SessionRegistry, as it stands there.         *)

\* HostIsSound.  ServerHost: a part is stopped only when nobody needs it; Stop
\* returns when no session is left and no callback but its caller's own runs; a
\* drain starts the sends after the last admitted message; and Start's cleanup,
\* Stops from inside and outside, and drains never all wait for one another.
HostIsSound == part = "host" => Host!HostIsSound

\* SessionIsOrderly.  A session: OnSessionClosed comes after every other
\* callback has ended, with the reason of whoever ended the session first; no
\* callback runs under mOutboundMutex; count, slot and number are given back
\* once and before it; and Stop is followed by no callback.
SessionIsOrderly == \A name \in DOMAIN Uses : part = name => Session(Uses[name])!SessionIsOrderly

\* ReceiveIsExact.  Receiving: the bytes and tasks charged to a session and to
\* the host are those that exist, all come back at its end, messages are
\* handled in the order they arrived, and with parse workers no batch is left
\* behind without a job that will take it.  ParseWorkerPool: no worker sleeps
\* beside a job, and when Stop or a failed Start has returned no thread is left
\* and every job left over was discarded, not run.
ReceiveIsExact ==
  /\ part = "receive" => Receive!ReceiveIsExact
  /\ part = "pool" => Pool!PoolIsOrderly

\* CTcpServerIsOrderly.  The TCP server of the C interface: the budgets are
\* charged for the events that exist; a connection they pause is reopened when
\* they have room, whoever returns it; a subscriber is told of everything it can
\* take, no connection before another for ever; the end of a connection comes
\* after its bytes; and Stop leaves no connection.
CTcpServerIsOrderly == \A name \in DOMAIN Callers : part = name => CServer(Callers[name])!CTcpServerIsOrderly

-----------------------------------------------------------------------------
(* What the code is said to do, and does not.                              *)

\* A session that holds received bytes has a job that will take them, with parse
\* workers or without (ConsumePendingBytesOnRunner).
NoBatchForgotten == part = "receive" => Receive!NoBatchForgotten
=============================================================================
