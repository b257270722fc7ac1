----------------------------- MODULE HttpServer -----------------------------
(***************************************************************************)
(* Web::HttpServer::State: the connections (peers) of a server, the        *)
(* threads that enter them, how a disconnection is finished, draining and  *)
(* shutdown.  What a peer does with its input is HttpExchange's and        *)
(* WebSocketPeer's.                                                        *)
(*                                                                         *)
(* Threads: one I/O thread for each peer, written as the peer itself;      *)
(* "app" calls the peers' public operations; "sweep" enforces deadlines;   *)
(* "progress" continues peers and finishes disconnections handed to it;    *)
(* "stop" shuts the server down.                                           *)
(***************************************************************************)
EXTENDS Integers, FiniteSets

CONSTANTS
  Peers,
  MaxConnections,
  AppCalls,      \* calls of the application into peers
  Requests       \* requests for progress

Threads == Peers \cup {"app", "sweep", "progress", "stop"}
None == "none"

VARIABLES
  server,    \* running, stopping, draining; stopped when Shutdown has returned
  peers,     \* the map of peers
  conn,      \* each connection: new, open, closed; refused when never registered
  notice,    \* peers whose disconnection the I/O thread has yet to report
  lock,      \* the holder of each mInputMutex
  pending,   \* mDisconnectPending
  deferred,  \* deferredDisconnects
  progress,  \* deferredPending, progressQueue, progressBatch
  thread,    \* where each thread is, in which peer
  drain,     \* the waiter of WaitForDrain: none, waits, fired
  closed,    \* onClose calls of each peer
  budget

vars == <<server, peers, conn, notice, lock, pending, deferred, progress, thread, drain, closed, budget>>

At(t, at, p) == thread' = [thread EXCEPT ![t].at = at, ![t].peer = p]

\* Start: the sweep and progress threads run before the first accept.
Init ==
  /\ server = [running |-> TRUE, stopping |-> FALSE, draining |-> FALSE, stopped |-> FALSE]
  /\ peers = {} /\ conn = [p \in Peers |-> "new"] /\ notice = {}
  /\ lock = [p \in Peers |-> None] /\ pending = {} /\ deferred = {}
  /\ progress = [flag |-> FALSE, queue |-> {}, batch |-> {}]
  /\ thread = [t \in Threads |-> [at |-> "idle", peer |-> None]]
  /\ drain = "none" /\ closed = [p \in Peers |-> 0] /\ budget = [app |-> 0, requests |-> 0]

\* Registered under peersMutex, then observed; otherwise closed at once.
Accepted(p) ==
  /\ conn[p] = "new" /\ server.running /\ ~server.draining
  /\ IF ~server.stopping /\ Cardinality(peers) < MaxConnections
     THEN conn' = [conn EXCEPT ![p] = "open"] /\ peers' = peers \cup {p}
     ELSE conn' = [conn EXCEPT ![p] = "refused"] /\ UNCHANGED peers
  /\ UNCHANGED <<server, notice, lock, pending, deferred, progress, thread, drain, closed, budget>>

-----------------------------------------------------------------------------
\* InputLock.

Enter(t, p, at) == lock[p] = None /\ lock' = [lock EXCEPT ![p] = t] /\ At(t, at, p)

\* OnBytesReceived on the I/O thread.
IoEnters(p) ==
  /\ thread[p].at = "idle" /\ conn[p] = "open" /\ Enter(p, p, "inside")
  /\ UNCHANGED <<server, peers, conn, notice, pending, deferred, progress, drain, closed, budget>>

AppEnters(p) ==
  /\ thread["app"].at = "idle" /\ p \in peers /\ budget.app < AppCalls
  /\ Enter("app", p, "inside") /\ budget' = [budget EXCEPT !.app = @ + 1]
  /\ UNCHANGED <<server, peers, conn, notice, pending, deferred, progress, drain, closed>>

\* BeginDrain and CheckTimeout only try the lock, and go on to the next peer.
SweepEnters(p) ==
  /\ thread["sweep"].at = "idle" /\ ~server.stopping /\ p \in peers /\ conn[p] = "open"
  /\ Enter("sweep", p, "inside")
  /\ UNCHANGED <<server, peers, conn, notice, pending, deferred, progress, drain, closed, budget>>

\* A thread inside asks for the peer's turn; nobody queues once the server stops.
RequestProgress(t) ==
  /\ thread[t].at = "inside" /\ budget.requests < Requests /\ ~server.stopping
  /\ thread[t].peer \notin progress.queue
  /\ progress' = [progress EXCEPT !.queue = @ \cup {thread[t].peer}]
  /\ budget' = [budget EXCEPT !.requests = @ + 1]
  /\ UNCHANGED <<server, peers, conn, notice, lock, pending, deferred, thread, drain, closed>>

\* The transport reports a Close on the closer's thread when it has no I/O to
\* wait for, and on the I/O thread otherwise.
MayReportHere(t, p) == t = p \/ thread[p].at = "idle"

\* Inside the lock the report only marks the peer.
CloseInside(t) ==
  LET p == thread[t].peer IN
  /\ thread[t].at = "inside" /\ conn[p] = "open" /\ conn' = [conn EXCEPT ![p] = "closed"]
  /\ \/ MayReportHere(t, p) /\ pending' = pending \cup {p} /\ UNCHANGED notice
     \/ notice' = notice \cup {p} /\ UNCHANGED pending
  /\ UNCHANGED <<server, peers, lock, deferred, progress, thread, drain, closed, budget>>

\* Who must not run onClose: the application under its own locks, and the sweep.
MutantHandsOff(t) == t = "app"
HandsOff(t) == t \in {"app", "sweep"}

Back(t) ==
  IF t = "progress" THEN "run" ELSE "idle"

\* The outermost InputLock ends: the disconnection is finished, or handed over.
Leave(t) ==
  LET p == thread[t].peer IN
  /\ thread[t].at = "inside" /\ lock' = [lock EXCEPT ![p] = None] /\ pending' = pending \ {p}
  /\ IF p \notin pending
     THEN /\ \/ At(t, Back(t), None)
             \/ t = "sweep" /\ conn[p] = "open" /\ At(t, "expired", p)
          /\ UNCHANGED <<deferred, progress>>
     ELSE IF HandsOff(t)
     THEN /\ deferred' = deferred \cup {p} /\ progress' = [progress EXCEPT !.flag = TRUE]
          /\ At(t, Back(t), None)
     ELSE At(t, "finish", p) /\ UNCHANGED <<deferred, progress>>
  /\ UNCHANGED <<server, peers, conn, notice, drain, closed, budget>>

\* CheckTimeout closes an expired peer after it left the lock.
SweepCloses ==
  LET p == thread["sweep"].peer IN
  /\ thread["sweep"].at = "expired"
  /\ IF conn[p] # "open" THEN At("sweep", "idle", None) /\ UNCHANGED <<conn, notice>>
     ELSE /\ conn' = [conn EXCEPT ![p] = "closed"]
          /\ \/ MayReportHere("sweep", p) /\ At("sweep", "report", p) /\ UNCHANGED notice
             \/ At("sweep", "idle", None) /\ notice' = notice \cup {p}
  /\ UNCHANGED <<server, peers, lock, pending, deferred, progress, drain, closed, budget>>

\* The other end goes, or the I/O thread has a report to make.
IoReports(p) ==
  /\ thread[p].at = "idle" /\ (conn[p] = "open" \/ p \in notice)
  /\ conn' = [conn EXCEPT ![p] = "closed"] /\ notice' = notice \ {p} /\ At(p, "report", p)
  /\ UNCHANGED <<server, peers, lock, pending, deferred, progress, drain, closed, budget>>

\* OnDisconnected, called with no lock of this peer held by the thread.
OnDisconnected(t) ==
  LET p == thread[t].peer IN
  /\ thread[t].at = "report" /\ lock[p] = None
  /\ IF t = "sweep"
     THEN /\ deferred' = deferred \cup {p} /\ progress' = [progress EXCEPT !.flag = TRUE]
          /\ At(t, "idle", None)
     ELSE At(t, "finish", p) /\ UNCHANGED <<deferred, progress>>
  /\ UNCHANGED <<server, peers, conn, notice, lock, pending, drain, closed, budget>>

\* FinishDisconnect: clear the peer under its lock, then onClose without any.
FinishDisconnect(t) ==
  LET p == thread[t].peer IN
  /\ thread[t].at = "finish" /\ lock[p] = None
  /\ closed' = [closed EXCEPT ![p] = @ + 1] /\ At(t, "onclose", p)
  /\ UNCHANGED <<server, peers, conn, notice, lock, pending, deferred, progress, drain, budget>>

\* The peer leaves the map; the last one completes the wait for the drain.
MutantDrained(left) == drain
Drained(left) == IF left = {} /\ drain = "waits" THEN "fired" ELSE drain

Disconnected(t) ==
  LET p == thread[t].peer IN
  /\ thread[t].at = "onclose"
  /\ peers' = peers \ {p} /\ drain' = Drained(peers \ {p})
  /\ thread' = [thread EXCEPT ![t] = CASE t = "progress" -> [at |-> "run", peer |-> None]
                                       [] t = "stop" -> [at |-> "pop", peer |-> None]
                                       [] OTHER -> [at |-> "idle", peer |-> None]]
  /\ UNCHANGED <<server, conn, notice, lock, pending, deferred, progress, closed, budget>>

-----------------------------------------------------------------------------
\* The progress thread.

ProgressWakes ==
  /\ thread["progress"].at = "idle" /\ ~server.stopping /\ (progress.flag \/ progress.queue # {})
  /\ progress' = [flag |-> FALSE, queue |-> {}, batch |-> progress.queue]
  /\ At("progress", "run", None)
  /\ UNCHANGED <<server, peers, conn, notice, lock, pending, deferred, drain, closed, budget>>

\* RunDeferredDisconnect while there is one, then the batch.
Progresses ==
  /\ thread["progress"].at = "run"
  /\ \/ \E p \in deferred : deferred' = deferred \ {p} /\ At("progress", "finish", p)
        /\ UNCHANGED <<lock, progress>>
     \/ /\ deferred = {} /\ UNCHANGED deferred
        /\ \E p \in progress.batch :
             Enter("progress", p, "inside") /\ progress' = [progress EXCEPT !.batch = @ \ {p}]
     \/ /\ deferred = {} /\ progress.batch = {} /\ At("progress", "idle", None)
        /\ UNCHANGED <<lock, deferred, progress>>
  /\ UNCHANGED <<server, peers, conn, notice, pending, drain, closed, budget>>

ThreadsEnd(t) ==
  /\ t \in {"sweep", "progress"} /\ server.stopping /\ thread[t].at = "idle" /\ At(t, "ended", None)
  /\ UNCHANGED <<server, peers, conn, notice, lock, pending, deferred, progress, drain, closed, budget>>

-----------------------------------------------------------------------------
\* Draining and shutdown.

BeginDrain ==
  /\ server.running /\ ~server.draining /\ ~server.stopping
  /\ server' = [server EXCEPT !.draining = TRUE]
  /\ UNCHANGED <<peers, conn, notice, lock, pending, deferred, progress, thread, drain, closed, budget>>

WaitForDrain ==
  /\ server.draining \/ server.stopping
  /\ drain = "none" /\ drain' = IF peers = {} THEN "fired" ELSE "waits"
  /\ UNCHANGED <<server, peers, conn, notice, lock, pending, deferred, progress, thread, closed, budget>>

\* Stop, or StopGracefully when the drain or its deadline ends: no more accepts.
ShutdownBegins ==
  /\ thread["stop"].at = "idle" /\ ~server.stopping
  /\ server' = [server EXCEPT !.stopping = TRUE, !.running = FALSE] /\ At("stop", "join", None)
  /\ UNCHANGED <<peers, conn, notice, lock, pending, deferred, progress, drain, closed, budget>>

ShutdownJoins ==
  /\ thread["stop"].at = "join" /\ thread["sweep"].at = "ended" /\ thread["progress"].at = "ended"
  /\ progress' = [progress EXCEPT !.queue = {}] /\ At("stop", "pop", None)
  /\ UNCHANGED <<server, peers, conn, notice, lock, pending, deferred, drain, closed, budget>>

\* Disconnections still handed over are finished here; then the next peer.
ShutdownPops ==
  /\ thread["stop"].at = "pop"
  /\ \/ \E p \in deferred : deferred' = deferred \ {p} /\ At("stop", "finish", p)
     \/ deferred = {} /\ At("stop", "pick", None) /\ UNCHANGED deferred
  /\ UNCHANGED <<server, peers, conn, notice, lock, pending, progress, drain, closed, budget>>

ForceClose ==
  /\ thread["stop"].at = "pick"
  /\ IF peers = {}
     THEN At("stop", "done", None) /\ server' = [server EXCEPT !.stopped = TRUE] /\ UNCHANGED <<conn, notice>>
     ELSE \E p \in peers :
       /\ UNCHANGED server
       /\ \/ conn[p] = "open" /\ MayReportHere("stop", p) /\ At("stop", "report", p)
             /\ conn' = [conn EXCEPT ![p] = "closed"] /\ UNCHANGED notice
          \/ /\ At("stop", "wait", p) /\ conn' = [conn EXCEPT ![p] = "closed"]
             /\ notice' = IF conn[p] = "open" THEN notice \cup {p} ELSE notice
  /\ UNCHANGED <<peers, lock, pending, deferred, progress, drain, closed, budget>>

\* The wait for that peer also ends for a disconnection handed over meanwhile.
MutantShutdownWakes(p) == p \notin peers
ShutdownWakes(p) == p \notin peers \/ deferred # {}

ShutdownWaits ==
  /\ thread["stop"].at = "wait" /\ ShutdownWakes(thread["stop"].peer) /\ At("stop", "pop", None)
  /\ UNCHANGED <<server, peers, conn, notice, lock, pending, deferred, progress, drain, closed, budget>>

Next ==
  \/ BeginDrain \/ WaitForDrain \/ ShutdownBegins \/ ShutdownJoins \/ ShutdownPops \/ ForceClose
  \/ ShutdownWaits \/ ProgressWakes \/ Progresses \/ SweepCloses
  \/ \E p \in Peers : Accepted(p) \/ IoEnters(p) \/ AppEnters(p) \/ SweepEnters(p) \/ IoReports(p)
  \/ \E t \in Threads :
       \/ RequestProgress(t) \/ CloseInside(t) \/ Leave(t) \/ OnDisconnected(t)
       \/ FinishDisconnect(t) \/ Disconnected(t) \/ ThreadsEnd(t)

Spec == Init /\ [][Next]_vars

-----------------------------------------------------------------------------

TypeOK ==
  /\ peers \subseteq Peers /\ notice \subseteq Peers /\ pending \subseteq Peers /\ deferred \subseteq Peers
  /\ \A p \in Peers : lock[p] \in Threads \cup {None} /\ closed[p] \in 0..1
  /\ drain \in {"none", "waits", "fired"} /\ Cardinality(peers) <= MaxConnections

\* Threads that still have the disconnection of p to finish.
Finishing(p) == {t \in Threads : thread[t].peer = p /\ thread[t].at \in {"report", "finish"}}

\* Every peer whose connection closed is finished exactly once: until then
\* exactly one of the report, the mark, the list or a thread stands for it.
DisconnectsAreFinishedOnce ==
  \A p \in Peers :
    /\ conn[p] = "closed" =>
         Cardinality(Finishing(p)) + closed[p] + Cardinality({s \in {notice, pending, deferred} : p \in s}) = 1
    /\ p \in peers => conn[p] # "refused"
    /\ conn[p] = "open" => p \in peers

\* onClose never runs on the application's thread, where its locks are held,
\* nor on the sweep, which has deadlines to enforce.
OnCloseRunsElsewhere == \A t \in {"app", "sweep"} : thread[t].at \notin {"finish", "onclose"}

\* The waiter is told when the last peer has gone.
DrainIsTold == drain = "waits" => peers # {}

\* A server that has stopped has no peer, no hand-over and no thread inside.
StopLeavesNothing ==
  server.stopped =>
    /\ peers = {} /\ deferred = {} /\ notice = {}
    /\ \A p \in Peers : thread[p].at = "idle"

\* Steps that the other threads take on their own once a stop is under way.
Proceed ==
  \/ ShutdownJoins \/ ShutdownPops \/ ForceClose \/ ShutdownWaits \/ Progresses \/ SweepCloses
  \/ \E p \in Peers : p \in notice /\ IoReports(p)
  \/ \E t \in Threads : Leave(t) \/ OnDisconnected(t) \/ FinishDisconnect(t) \/ Disconnected(t) \/ ThreadsEnd(t)

\* A stop under way never waits for something nobody will do, when callbacks return.
StopIsNeverStuck == thread["stop"].at \notin {"idle", "done"} => ENABLED Proceed

\* The server, all in all.
HttpServerIsOrderly ==
  TypeOK /\ DisconnectsAreFinishedOnce /\ OnCloseRunsElsewhere /\ DrainIsTold /\ StopLeavesNothing /\ StopIsNeverStuck

=============================================================================
