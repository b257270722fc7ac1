--------------------------- MODULE LinuxConnection ---------------------------
(***************************************************************************)
(* A TcpConnection on Linux: its calls from any thread, the readiness      *)
(* callback on the epoll workers of an IoContext, the one-shot             *)
(* registration between them, a peer, and the stop of the context.         *)
(*                                                                         *)
(* mMutex is held over one action; OnReady lets go of it around the        *)
(* observer.  NotifyDisconnected follows a call outside the lock: somebody *)
(* owes it.  A payload has one byte.                                       *)
(***************************************************************************)
EXTENDS Integers, FiniteSets, FiniteSetsExt

CONSTANTS
  Workers,
  MaxSent,      \* payloads the application sends
  MaxPeer,      \* chunks the peer sends
  Reads, Writes,   \* attempts of one OnReady: 16 and 64
  SendLimit,    \* queued payloads a connection may hold
  Toggles       \* calls of PauseReceive and ResumeReceive

VARIABLES
  conn,     \* the members of TcpConnection
  armed,    \* the events epoll waits for, or Off
  context,  \* "running", "stopping" or "stopped"
  worker,   \* where every epoll worker is
  kernel,   \* the socket: unread input, what the peer did, bytes handed over
  owed,     \* somebody is to call NotifyDisconnected
  seen,     \* what the observer saw: chunks, and the end
  toggles

vars == <<conn, armed, context, worker, kernel, owed, seen, toggles>>

Off == {"off"}
Reading == {"in", "hup"}
Resting == [at |-> "idle", events |-> {}, reads |-> 0]

Init ==
  /\ conn = [started |-> FALSE, closed |-> FALSE, lingering |-> FALSE, paused |-> FALSE,
             processing |-> FALSE, closeAfterSend |-> FALSE, registered |-> FALSE,
             descriptor |-> TRUE, queued |-> 0, accepted |-> 0, how |-> "none"]
  /\ armed = Off /\ context = "running"
  /\ worker = [w \in Workers |-> Resting]
  /\ kernel = [inbox |-> 0, arrived |-> 0, peer |-> "open", sent |-> 0]
  /\ owed = FALSE /\ seen = [chunks |-> 0, told |-> FALSE]
  /\ toggles = 0

-----------------------------------------------------------------------------
(* What the calls are made of; c is the connection as a call has it.       *)

InterestLocked(c) ==
  IF c.lingering THEN {"in"}
  ELSE (IF c.paused THEN {} ELSE {"in"}) \union (IF c.queued = 0 THEN {} ELSE {"out"})

\* IoContextAccess::Rearm
CanRearm(c) == context = "running" /\ c.registered

ReleaseDescriptor(c) == [c EXCEPT !.lingering = FALSE, !.registered = FALSE, !.descriptor = FALSE]

\* CloseLocked.  A closed connection that lingers is released by the next
\* close; a graceful close sends its FIN and lingers while it is registered.
CloseLocked(c, how) ==
  IF c.closed THEN IF c.lingering THEN ReleaseDescriptor(c) ELSE c
  ELSE LET closed == [c EXCEPT !.closed = TRUE, !.how = how]
           after == IF how = "graceful" /\ c.registered /\ (c.processing \/ CanRearm(c))
                    THEN [closed EXCEPT !.lingering = TRUE] ELSE ReleaseDescriptor(closed)
       IN IF c.processing THEN after ELSE [after EXCEPT !.queued = 0]

\* The connection becomes c, and its registration follows.
MutantBecomes(c, rearm) ==
  /\ conn' = c
  /\ armed' = IF ~c.registered THEN Off
              ELSE IF rearm /\ ~c.processing /\ (InterestLocked(c) # {} /\ ~c.paused) THEN InterestLocked(c) ELSE armed

Becomes(c, rearm) ==
  /\ conn' = c
  /\ armed' = IF ~c.registered THEN Off
              ELSE IF rearm /\ ~c.processing /\ InterestLocked(c) # {} THEN InterestLocked(c) ELSE armed

-----------------------------------------------------------------------------
(* The calls.                                                              *)

Start ==
  /\ ~conn.started
  /\ LET started == [conn EXCEPT !.started = TRUE] IN
     IF conn.closed THEN conn' = started /\ UNCHANGED <<armed, owed>>
     ELSE \/ /\ context = "running"
             /\ conn' = [started EXCEPT !.registered = TRUE]
             /\ armed' = InterestLocked(conn) /\ UNCHANGED owed
          \/ /\ context # "running"                               \* epoll_ctl refused
             /\ Becomes(CloseLocked(started, "failed"), FALSE) /\ owed' = TRUE
  /\ UNCHANGED <<context, worker, kernel, seen, toggles>>

\* SendWithOutcome: accepted into the queue; a worker writes it.
Send ==
  /\ ~conn.closed /\ ~conn.closeAfterSend /\ conn.queued < SendLimit /\ conn.accepted < MaxSent
  /\ LET c == [conn EXCEPT !.queued = @ + 1, !.accepted = @ + 1] IN
     IF c.started /\ ~c.processing /\ ~CanRearm(c)
     THEN Becomes(CloseLocked(c, "failed"), FALSE) /\ owed' = TRUE
     ELSE Becomes(c, c.started) /\ UNCHANGED owed
  /\ UNCHANGED <<context, worker, kernel, seen, toggles>>

Close ==
  /\ ~conn.closed \/ conn.lingering
  /\ Becomes(CloseLocked(conn, "closed"), FALSE) /\ owed' = TRUE
  /\ UNCHANGED <<context, worker, kernel, seen, toggles>>

CloseAfterSend ==
  /\ ~conn.closed /\ ~conn.closeAfterSend
  /\ LET c == [conn EXCEPT !.closeAfterSend = TRUE] IN
     Becomes(IF c.queued = 0 THEN CloseLocked(c, "graceful") ELSE c, c.queued = 0)
  /\ owed' = TRUE
  /\ UNCHANGED <<context, worker, kernel, seen, toggles>>

Toggle(c) ==
  /\ ~conn.closed /\ toggles < Toggles /\ toggles' = toggles + 1
  /\ IF c.started /\ ~c.processing /\ ~CanRearm(c) /\ (c.paused \/ InterestLocked(c) # {})
     THEN Becomes(CloseLocked(c, "failed"), FALSE) /\ owed' = TRUE
     ELSE UNCHANGED owed /\ conn' = c
          /\ armed' = IF c.started /\ ~c.processing THEN InterestLocked(c) ELSE armed
  /\ UNCHANGED <<context, worker, kernel, seen>>

\* Pausing disarms reading at once, even down to an empty mask.
PauseReceive == ~conn.paused /\ Toggle([conn EXCEPT !.paused = TRUE])
ResumeReceive == conn.paused /\ Toggle([conn EXCEPT !.paused = FALSE])

\* The observer is told once, when nobody is in a callback.
NotifyDisconnected ==
  /\ owed /\ owed' = FALSE
  /\ seen' = [seen EXCEPT !.told = @ \/ (conn.closed /\ ~conn.lingering /\ ~conn.processing)]
  /\ UNCHANGED <<conn, armed, context, worker, kernel, toggles>>

-----------------------------------------------------------------------------
(* The peer and the kernel.                                                *)

PeerSends ==
  /\ kernel.peer = "open" /\ kernel.arrived < MaxPeer
  /\ kernel' = [kernel EXCEPT !.inbox = @ + 1, !.arrived = @ + 1]
  /\ UNCHANGED <<conn, armed, context, worker, owed, seen, toggles>>

PeerEnds ==
  /\ kernel.peer = "open" /\ kernel' \in {[kernel EXCEPT !.peer = end] : end \in {"eof", "reset"}}
  /\ UNCHANGED <<conn, armed, context, worker, owed, seen, toggles>>

\* EPOLLHUP is reported whatever the mask.
Ready ==
  (IF kernel.inbox > 0 \/ kernel.peer # "open" THEN armed \intersect {"in"} ELSE {})
    \union (armed \intersect {"out"})
    \union (IF armed # Off /\ kernel.peer = "reset" THEN {"hup"} ELSE {})

\* EpollState::Run: one event for one worker, and the registration rests.
Fetch(w) ==
  /\ worker[w].at = "idle" /\ context = "running" /\ Ready # {}
  /\ worker' = [worker EXCEPT ![w] = [Resting EXCEPT !.at = "fetched", !.events = Ready]]
  /\ armed' = Off
  /\ UNCHANGED <<conn, context, kernel, owed, seen, toggles>>

\* The event is dropped when the context stops or the registration is gone.
Drop(w) ==
  /\ worker[w].at = "fetched" /\ (context # "running" \/ ~conn.registered)
  /\ worker' = [worker EXCEPT ![w] = Resting]
  /\ UNCHANGED <<conn, armed, context, kernel, owed, seen, toggles>>

-----------------------------------------------------------------------------
(* OnReady.                                                                *)

MutantEnter(w) ==
  /\ worker[w].at = "fetched"
  /\ IF conn.closed /\ ~conn.lingering
     THEN worker' = [worker EXCEPT ![w] = Resting] /\ UNCHANGED conn
     ELSE /\ worker' = [worker EXCEPT ![w].at =
                          IF worker[w].events \intersect Reading # {} THEN "read" ELSE "write"]
          /\ conn' = [conn EXCEPT !.processing = TRUE]
  /\ UNCHANGED <<armed, context, kernel, owed, seen, toggles>>

OnReady(w) ==
  /\ worker[w].at = "fetched"
  /\ IF (conn.closed /\ ~conn.lingering) \/ conn.processing
     THEN worker' = [worker EXCEPT ![w] = Resting] /\ UNCHANGED conn
     ELSE /\ worker' = [worker EXCEPT ![w].at =
                          IF worker[w].events \intersect Reading # {} THEN "read" ELSE "write"]
          /\ conn' = [conn EXCEPT !.processing = TRUE]
  /\ UNCHANGED <<armed, context, kernel, owed, seen, toggles>>

\* One recv.  A lingering connection throws the input away.
Read(w) ==
  LET again == [worker EXCEPT ![w].reads = @ + 1]
      done == [worker EXCEPT ![w].at = "write"]
  IN
  /\ worker[w].at = "read"
  /\ IF worker[w].reads = Reads \/ (~conn.lingering /\ (conn.closed \/ conn.paused))
     THEN worker' = done /\ UNCHANGED <<conn, armed, kernel>>
     ELSE \/ /\ kernel.inbox > 0 /\ kernel.peer # "reset"
             /\ kernel' = [kernel EXCEPT !.inbox = @ - 1]
             /\ worker' = IF conn.lingering THEN again ELSE [again EXCEPT ![w].at = "callback"]
             /\ UNCHANGED <<conn, armed>>
          \/ /\ kernel.inbox = 0 /\ kernel.peer = "open"             \* would block
             /\ worker' = done /\ UNCHANGED <<conn, armed, kernel>>
          \/ /\ kernel.peer = "reset" \/ (kernel.inbox = 0 /\ kernel.peer = "eof")
             /\ Becomes(CloseLocked(conn, kernel.peer), FALSE)
             /\ worker' = done /\ UNCHANGED kernel
  /\ UNCHANGED <<context, owed, seen, toggles>>

OnBytesReceived(w) ==
  /\ worker[w].at = "callback"
  /\ seen' = [seen EXCEPT !.chunks = @ + 1]
  /\ worker' = [worker EXCEPT ![w].at = "read"]
  /\ UNCHANGED <<conn, armed, context, kernel, owed, toggles>>

\* The rest is one section: the socket error of a paused connection, the
\* writes, a hang-up that cannot drain, the graceful close, and the rearm.
MutantFinished(c) == [c EXCEPT !.processing = FALSE]
Finished(c) ==
  LET c2 == [c EXCEPT !.processing = FALSE] IN
  IF c2.closed /\ ~c2.lingering THEN [c2 EXCEPT !.queued = 0]
  ELSE IF InterestLocked(c2) # {} /\ ~CanRearm(c2) THEN CloseLocked(c2, "failed") ELSE c2

Finish(w) ==
  LET hup == "hup" \in worker[w].events
      c0 == IF conn.paused /\ hup /\ kernel.peer = "reset" /\ ~conn.closed
            THEN CloseLocked(conn, "reset") ELSE conn
  IN
  /\ worker[w].at = "write"
  /\ \E n \in 0..(IF c0.closed \/ kernel.peer = "reset" THEN 0 ELSE Min({c0.queued, Writes})) :
     \E stop \in IF c0.closed \/ n = Min({c0.queued, Writes}) THEN {"none"}
                 ELSE IF kernel.peer = "reset" THEN {"error"} ELSE {"blocked", "error"} :
       LET c1 == [c0 EXCEPT !.queued = @ - n]
           c2 == CASE stop = "error" -> CloseLocked(c1, "error")
                   [] stop = "blocked" /\ c1.paused /\ hup /\ ~c1.closed -> CloseLocked(c1, "hup")
                   [] OTHER -> c1
           c3 == IF ~c2.closed /\ c2.closeAfterSend /\ c2.queued = 0 THEN CloseLocked(c2, "graceful") ELSE c2
       IN /\ Becomes(Finished(c3), TRUE)
          /\ kernel' = [kernel EXCEPT !.sent = @ + n]
  /\ worker' = [worker EXCEPT ![w] = Resting] /\ owed' = TRUE
  /\ UNCHANGED <<context, seen, toggles>>

-----------------------------------------------------------------------------
(* IoContext::Stop: the workers leave, then the registrations go.          *)

StopContext ==
  /\ context = "running" /\ context' = "stopping"
  /\ UNCHANGED <<conn, armed, worker, kernel, owed, seen, toggles>>

ShutDown ==
  /\ context = "stopping" /\ \A w \in Workers : worker[w] = Resting
  /\ context' = "stopped" /\ armed' = Off
  /\ UNCHANGED <<conn, worker, kernel, owed, seen, toggles>>

Next ==
  \/ Start \/ Send \/ Close \/ CloseAfterSend \/ PauseReceive \/ ResumeReceive \/ NotifyDisconnected
  \/ PeerSends \/ PeerEnds \/ StopContext \/ ShutDown
  \/ \E w \in Workers : Fetch(w) \/ Drop(w) \/ OnReady(w) \/ Read(w) \/ OnBytesReceived(w) \/ Finish(w)

Spec == Init /\ [][Next]_vars

-----------------------------------------------------------------------------

TypeOK ==
  /\ conn.queued \in 0..SendLimit /\ conn.accepted \in 0..MaxSent
  /\ armed = Off \/ armed \subseteq {"in", "out"}
  /\ \A w \in Workers : worker[w].at \in {"idle", "fetched", "read", "callback", "write"}

\* One worker at a time is in the connection, the observer gets what was
\* read, and its end only when the socket is gone and nothing is queued.
CallbacksAreOrdered ==
  /\ Cardinality({w \in Workers : worker[w].at \in {"read", "callback", "write"}}) =
       IF conn.processing THEN 1 ELSE 0
  /\ \A w \in Workers : worker[w].at \in {"read", "callback"} => ~seen.told
  /\ seen.told => conn.closed /\ ~conn.descriptor /\ conn.queued = 0
  /\ conn.descriptor <=> ~conn.closed \/ conn.lingering

\* A graceful close comes after everything that was accepted.
GracefulMeansSent ==
  /\ conn.how = "graceful" => kernel.sent = conn.accepted
  /\ kernel.sent + conn.queued <= conn.accepted

\* A registered connection nobody works on waits for everything it is
\* interested in, whichever way Pause, Resume and Send raced the workers that
\* held its one-shot event.  (It may wait for more: an event too many is
\* harmless, it finds the connection paused or with nothing to write.)
InterestIsNeverLost ==
  conn.registered /\ context = "running" /\ (\A w \in Workers : worker[w].at = "idle") =>
    InterestLocked(conn) \subseteq armed

\* The end is told in the end: whoever closed owes the call, or a worker does.
EndIsOwed ==
  conn.closed /\ ~conn.lingering /\ ~seen.told => owed \/ conn.processing

\* The connection, all in all.
ConnectionIsOrderly ==
  TypeOK /\ CallbacksAreOrdered /\ GracefulMeansSent /\ InterestIsNeverLost /\ EndIsOwed

=============================================================================
