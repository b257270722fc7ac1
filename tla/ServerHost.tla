------------------------------ MODULE ServerHost ------------------------------
(***************************************************************************)
(* Runtime::ServerHost::State: Start, Stop, BeginDrain, StopGracefully and *)
(* Run against sessions that are accepted, receive, close and notify.      *)
(*                                                                         *)
(* mLifecycleMutex is held over one action, except in AdvanceDrain, whose  *)
(* three reads of counters that move outside the mutex are three actions.  *)
(* A session is what NetworkSession promises: it ends once, on the job     *)
(* runner or, when the runner refuses the job, on the thread that saw the  *)
(* transport close.                                                        *)
(***************************************************************************)
EXTENDS Integers, FiniteSets

CONSTANTS
  Sessions,        \* connections the acceptor may hand over
  MaxSessions,     \* options.maxConcurrentSessions
  Stoppers,        \* threads that call Stop
  Drainers,        \* threads that call StopGracefully
  Casts            \* who takes part: sessions, the ones that send, drainers; and
                   \* how many finalizers the job runner refuses

VARIABLES
  host,       \* mLifecycle and the flags beside it
  res,        \* the owned parts: "none", "made", "on" or "off"
  pc,         \* where each thread is
  ses,        \* the place of each session, and the thread of its notification
  work,       \* how far the session's message has come
  refusals    \* finalizers that may still be refused

vars == <<host, res, pc, ses, work, refusals>>

\* "start" runs Start, "run" Run, "user" disconnects a session and may Stop
\* from OnSessionClosed, "tick" is the periodic control job on the runner.
Threads == {"start", "run", "user", "tick"} \cup Stoppers \cup Drainers

Init ==
  /\ host = [life |-> "Ready", accepting |-> FALSE, running |-> FALSE, draining |-> FALSE,
             drainStarting |-> FALSE, sendsStarted |-> FALSE, stopInStart |-> FALSE,
             startOk |-> FALSE, admission |-> TRUE]
  /\ res = [io |-> "none", runner |-> "none", pool |-> "none", timer |-> "none", acceptor |-> "none"]
  /\ \E cast \in Casts :
       /\ pc = [t \in Threads |-> IF t \in Drainers \ cast.drainers THEN "noop" ELSE "idle"]
       /\ ses = [s \in Sessions |-> [at |-> IF s \in cast.sessions THEN "none" ELSE "gone",
                                     by |-> "", inputClosed |-> FALSE]]
       /\ work = [s \in Sessions |-> IF s \in cast.talkers THEN "none" ELSE "silent"]
       /\ refusals = cast.refusals

-----------------------------------------------------------------------------
(* What the counters of the host and of the job runner say.                *)

\* mSessionSlots, and mOutstandingSessions with the slot not taken yet.
Tracked == {s \in Sessions : ses[s].at \in {"opening", "open", "lingering", "closing", "finalizing"}}
Outstanding == Cardinality(Tracked) + Cardinality({s \in Sessions : ses[s].at = "counted"})

Notifying(t) == {s \in Sessions : ses[s].at = "notify" /\ ses[s].by = t}
InFlight == Cardinality({s \in Sessions : ses[s].at = "notify"})
CurrentCloseNotificationDepth(t) == Cardinality(Notifying(t))

\* mPendingReceiveBytes, mPendingParseTasks and JobRunner::OutstandingCount:
\* a message holds its receive bytes until its frames hold parse tasks, and a
\* parse task until the completion job has run.
PendingReceive == \E s \in Sessions : work[s] \in {"received", "queued", "consuming"}
PendingParse == \E s \in Sessions : work[s] \in {"consuming", "parsing", "parsed", "handling"}
OutstandingJobs ==
  Cardinality({s \in Sessions : ses[s].at \in {"opening", "finalizing"}})
  + Cardinality({s \in Sessions : work[s] \in {"queued", "consuming", "parsed", "handling", "continued"}})
  + CurrentCloseNotificationDepth("runner") + (IF pc["tick"] = "idle" THEN 0 ELSE 1)

\* One job at a time.
RunnerIdle ==
  /\ \A s \in Sessions : work[s] \notin {"consuming", "handling"}
  /\ Notifying("runner") = {} /\ pc["tick"] \in {"idle", "queued"}
RunnerFree == res.runner = "on" /\ RunnerIdle

\* Nobody is between the reads of AdvanceDrain with the mutex.
Free == \A t \in Threads : pc[t] \notin {"readParse", "readJobs"}

Goto(t, place) == pc' = [pc EXCEPT ![t] = place]

-----------------------------------------------------------------------------
(* Start: the parts in order, each of which may fail.                      *)

Start ==
  /\ pc["start"] = "idle" /\ Free
  /\ host.life = "Ready"
  /\ host' = [host EXCEPT !.life = "Starting"]
  /\ res' = [p \in DOMAIN res |-> IF p \in {"io", "acceptor", "pool"} THEN "made" ELSE res[p]]
  /\ Goto("start", "io") /\ UNCHANGED <<ses, work, refusals>>

NextPart == [io |-> "runner", runner |-> "pool", pool |-> "timer", timer |-> "acceptor", acceptor |-> "running"]

\* Before the last part, the acceptor, mAccepting is published.
StartPart ==
  \E p \in DOMAIN res :
    /\ pc["start"] = p
    /\ \/ res' = [res EXCEPT ![p] = "on"] /\ Goto("start", NextPart[p])
          /\ host' = [host EXCEPT !.accepting = p \in {"timer", "acceptor"}]
       \/ Goto("start", "stop_timer") /\ UNCHANGED res    \* CompleteFailedStart
          /\ host' = [host EXCEPT !.accepting = FALSE, !.running = FALSE]
    /\ UNCHANGED <<ses, work, refusals>>

\* A Stop asked for by a callback while Starting is made up for here.
StartCompletes ==
  /\ pc["start"] = "running" /\ Free
  /\ host' = [host EXCEPT !.life = "Running", !.running = TRUE, !.startOk = ~host.stopInStart]
  /\ Goto("start", IF host.stopInStart THEN "stop" ELSE "started")
  /\ UNCHANGED <<res, ses, work, refusals>>

-----------------------------------------------------------------------------
(* Stop, and the teardown it shares with CompleteFailedStart.              *)

CallStop(t) ==
  /\ t \in Stoppers /\ pc[t] = "idle"
  /\ Goto(t, "stop") /\ UNCHANGED <<host, res, ses, work, refusals>>

MutantStopEntry(t) ==
  /\ pc[t] = "stop" /\ Free
  /\ host.life # "Starting" /\ ~host.drainStarting
  /\ \/ /\ host.life = "Ready"
        /\ Goto(t, "noop") /\ UNCHANGED host
     \/ /\ host.life = "Stopped" /\ InFlight = 0
        /\ Goto(t, "stopped") /\ UNCHANGED host
     \/ /\ host.life = "Running"
        /\ host' = [host EXCEPT !.life = "Stopping", !.accepting = FALSE, !.running = FALSE]
        /\ Goto(t, "stop_timer")
  /\ UNCHANGED <<res, ses, work, refusals>>

\* From a close notification Stop leaves a request, or joins the Stop under way.
StopEntry(t) ==
  LET depth == CurrentCloseNotificationDepth(t) IN
  /\ pc[t] = "stop" /\ Free
  /\ \/ /\ host.life = "Starting" /\ depth # 0
        /\ host' = [host EXCEPT !.stopInStart = TRUE] /\ Goto(t, "noop")
     \/ /\ host.life # "Starting" /\ ~host.drainStarting
        /\ \/ /\ host.life = "Ready"
              /\ Goto(t, "noop") /\ UNCHANGED host
           \/ /\ host.life = "Stopped" /\ (depth = 0 => InFlight = 0)
              /\ Goto(t, IF depth = 0 THEN "stopped" ELSE "noop") /\ UNCHANGED host
           \/ /\ host.life = "Stopping" /\ depth # 0
              /\ Goto(t, "noop") /\ UNCHANGED host
           \/ /\ host.life = "Running"
              /\ host' = [host EXCEPT !.life = "Stopping", !.accepting = FALSE, !.running = FALSE]
              /\ Goto(t, "stop_timer")
  /\ UNCHANGED <<res, ses, work, refusals>>

Off(part) == [res EXCEPT ![part] = IF res[part] \in {"on", "made"} THEN "off" ELSE res[part]]

\* The timer, then the acceptor, which waits for the accept under way, then
\* the parse workers, whose queued bodies are dropped.
StopInputs(t) ==
  /\ \/ /\ pc[t] = "stop_timer"
        /\ res' = Off("timer") /\ Goto(t, "stop_acceptor") /\ UNCHANGED work
     \/ /\ pc[t] = "stop_acceptor" /\ \A s \in Sessions : ses[s].at # "counted"
        /\ res' = Off("acceptor") /\ Goto(t, "stop_pool") /\ UNCHANGED work
     \/ /\ pc[t] = "stop_pool"
        /\ res' = Off("pool") /\ Goto(t, "stop_close")
        /\ work' = [s \in Sessions |-> IF work[s] = "parsing" THEN "none" ELSE work[s]]
  /\ UNCHANGED <<host, ses, refusals>>

\* CloseAllSessions: Disconnect, which may end the session on this thread.
CloseSession(t) ==
  /\ pc[t] = "stop_close" /\ Free
  /\ \E s \in Tracked : ses[s].at \in {"opening", "open", "lingering"}
       /\ ses' = [ses EXCEPT ![s].at = "closing"]
  /\ UNCHANGED <<host, res, pc, work, refusals>>

MutantWaitSessions(t) ==
  /\ \/ /\ pc[t] = "stop_close"
        /\ \A s \in Tracked : ses[s].at \in {"closing", "finalizing"}
        /\ Goto(t, "stop_wait")
     \/ /\ pc[t] = "stop_wait" /\ Free
        /\ Outstanding = 0
        /\ Goto(t, "stop_io")
  /\ UNCHANGED <<host, res, ses, work, refusals>>

WaitSessions(t) ==
  /\ \/ /\ pc[t] = "stop_close"
        /\ \A s \in Tracked : ses[s].at \in {"closing", "finalizing"}
        /\ Goto(t, "stop_wait")
     \/ /\ pc[t] = "stop_wait" /\ Free
        /\ Outstanding = 0
        /\ InFlight <= IF host.life = "Starting" THEN 0 ELSE CurrentCloseNotificationDepth(t)
        /\ Goto(t, "stop_io")
  /\ UNCHANGED <<host, res, ses, work, refusals>>

\* I/O, then the runner, whose thread is joined once its job returns.
StopContexts(t) ==
  /\ \/ /\ pc[t] = "stop_io"
        /\ res' = Off("io") /\ Goto(t, "stop_runner") /\ UNCHANGED <<host, work>>
     \/ /\ pc[t] = "stop_runner" /\ RunnerIdle
        /\ res' = Off("runner")
        /\ pc' = [pc EXCEPT ![t] = "stop_reset", !["tick"] = "idle"]
        /\ work' = [s \in Sessions |-> "silent"]
        /\ host' = [host EXCEPT !.admission = FALSE]
  /\ UNCHANGED <<ses, refusals>>

\* The owners go away in the section that says Stopped.
StopReset(t) ==
  /\ pc[t] = "stop_reset" /\ Free
  /\ res' = [p \in DOMAIN res |-> IF res[p] \in {"off", "made"} THEN "none" ELSE res[p]]
  /\ Goto(t, IF host.life = "Starting" THEN "noop" ELSE "stopped")
  /\ host' = [host EXCEPT !.life = "Stopped"]
  /\ UNCHANGED <<ses, work, refusals>>

Teardown(t) ==
  StopInputs(t) \/ CloseSession(t) \/ WaitSessions(t) \/ StopContexts(t) \/ StopReset(t)

Run ==
  /\ pc["run"] \in {"idle", "waiting"} /\ Free
  /\ \/ /\ pc["run"] = "idle" /\ host.life \notin {"Running", "Stopping"}
        /\ ~(host.life = "Stopped" /\ host.startOk)
        /\ Goto("run", "noop")
     \/ /\ pc["run"] = "idle" /\ (host.life \in {"Running", "Stopping"} \/ host.startOk)
        /\ Goto("run", "waiting")
     \/ /\ pc["run"] = "waiting" /\ host.life = "Stopped" /\ InFlight = 0
        /\ Goto("run", "stopped")
  /\ UNCHANGED <<host, res, ses, work, refusals>>

-----------------------------------------------------------------------------
(* Drain.                                                                  *)

BeginDrain(t) ==
  /\ t \in Drainers /\ pc[t] = "idle" /\ Free
  /\ \/ /\ host.life = "Stopped"
        /\ Goto(t, "drained") /\ UNCHANGED host
     \/ /\ host.life \notin {"Stopped", "Running"}
        /\ Goto(t, "noop") /\ UNCHANGED host
     \/ /\ host.life = "Running" /\ host.draining /\ ~host.drainStarting
        /\ Goto(t, "drained") /\ UNCHANGED host
     \/ /\ host.life = "Running" /\ ~host.draining
        /\ host' = [host EXCEPT !.drainStarting = TRUE, !.draining = TRUE, !.running = FALSE]
        /\ Goto(t, "drain_acceptor")
  /\ UNCHANGED <<res, ses, work, refusals>>

\* The acceptor was read under the mutex and is stopped outside it.
DrainStops(t) ==
  /\ \/ /\ pc[t] = "drain_acceptor" /\ \A s \in Sessions : ses[s].at # "counted"
        /\ res' = Off("acceptor") /\ Goto(t, "drain_input") /\ UNCHANGED <<host, ses>>
     \/ /\ pc[t] = "drain_input" /\ Free    \* StopReceiving
        /\ \E s \in Tracked : ~ses[s].inputClosed
             /\ ses' = [ses EXCEPT ![s].inputClosed = TRUE]
        /\ UNCHANGED <<host, res, pc>>
     \/ /\ pc[t] = "drain_input" /\ Free /\ \A s \in Tracked : ses[s].inputClosed
        /\ host' = [host EXCEPT !.drainStarting = FALSE] /\ Goto(t, "advance") /\ UNCHANGED <<res, ses>>
  /\ UNCHANGED <<work, refusals>>

\* Where AdvanceDrain returns to.
AfterAdvance(t) == IF t = "tick" THEN "scan" ELSE "drained"

MutantAdvanceDrain(t) ==
  /\ \/ /\ pc[t] = "advance" /\ Free
        /\ Goto(t, IF host.draining /\ ~host.drainStarting /\ ~host.sendsStarted /\ host.life = "Running"
                      /\ ~PendingParse
                   THEN "readParse" ELSE AfterAdvance(t))
        /\ UNCHANGED host
     \/ /\ pc[t] = "readParse"
        /\ Goto(t, IF PendingReceive THEN AfterAdvance(t) ELSE "readJobs") /\ UNCHANGED host
     \/ /\ pc[t] = "readJobs"
        /\ IF OutstandingJobs > (IF t = "tick" THEN 1 ELSE 0)
           THEN Goto(t, AfterAdvance(t)) /\ UNCHANGED host
           ELSE /\ Goto(t, "sends")
                /\ host' = [host EXCEPT !.sendsStarted = TRUE, !.admission = FALSE]
  /\ UNCHANGED <<res, ses, work, refusals>>

\* Receive bytes first, parse tasks next, jobs last: the way a message moves.
AdvanceDrain(t) ==
  /\ \/ /\ pc[t] = "advance" /\ Free
        /\ Goto(t, IF host.draining /\ ~host.drainStarting /\ ~host.sendsStarted /\ host.life = "Running"
                      /\ ~PendingReceive
                   THEN "readParse" ELSE AfterAdvance(t))
        /\ UNCHANGED host
     \/ /\ pc[t] = "readParse"
        /\ Goto(t, IF PendingParse THEN AfterAdvance(t) ELSE "readJobs") /\ UNCHANGED host
     \/ /\ pc[t] = "readJobs"
        /\ IF OutstandingJobs > (IF t = "tick" THEN 1 ELSE 0)
           THEN Goto(t, AfterAdvance(t)) /\ UNCHANGED host
           ELSE /\ Goto(t, "sends")
                /\ host' = [host EXCEPT !.sendsStarted = TRUE, !.admission = FALSE]
  /\ UNCHANGED <<res, ses, work, refusals>>

DrainSends(t) ==
  /\ pc[t] = "sends" /\ Free
  /\ \/ \E s \in Tracked : ses[s].at \in {"opening", "open"}
          /\ ses' = [ses EXCEPT ![s].at = "lingering"] /\ UNCHANGED pc
     \/ /\ \A s \in Tracked : ses[s].at \notin {"opening", "open"}
        /\ Goto(t, AfterAdvance(t)) /\ UNCHANGED ses
  /\ UNCHANGED <<host, res, work, refusals>>

DrainStatusOk ==
  \/ host.life = "Stopped"
  \/ host.life \in {"Running", "Stopping"} /\ host.draining /\ host.sendsStarted /\ Outstanding = 0 /\ InFlight = 0

\* StopGracefully polls, and stops once drained or late.
StopGracefully(t) ==
  /\ pc[t] = "drained" /\ t \in Drainers /\ Free
  /\ \/ Goto(t, "stop")
     \/ ~DrainStatusOk /\ Goto(t, "advance")
  /\ UNCHANGED <<host, res, ses, work, refusals>>

\* The periodic runner posts the control job, CloseExpiredSessionsOnRunner.
PostTick ==
  /\ pc["tick"] = "idle" /\ res.timer = "on" /\ res.runner = "on"
  /\ Goto("tick", "queued") /\ UNCHANGED <<host, res, ses, work, refusals>>

CloseExpired ==
  /\ \/ /\ pc["tick"] = "queued" /\ RunnerFree
        /\ Goto("tick", IF host.accepting THEN "advance" ELSE "idle") /\ UNCHANGED ses
     \/ /\ pc["tick"] = "scan"
        /\ \/ \E s \in Tracked : ses[s].at \in {"open", "lingering"}     \* DisconnectIfExpired
                /\ ses' = [ses EXCEPT ![s].at = "closing"]
           \/ UNCHANGED ses
        /\ Goto("tick", "idle")
  /\ UNCHANGED <<host, res, work, refusals>>

-----------------------------------------------------------------------------
(* Sessions.                                                               *)

BeginNetworkSession(s) ==
  /\ ses[s].at = "none" /\ res.io = "on" /\ res.acceptor = "on" /\ Free
  /\ host.accepting /\ ~host.draining /\ Outstanding < MaxSessions
  /\ \A o \in Sessions : ses[o].at # "counted"
  /\ ses' = [ses EXCEPT ![s].at = "counted"] /\ UNCHANGED <<host, res, pc, work, refusals>>

\* With no number or no memory FinishNetworkSession(nullptr), otherwise
\* TrackNetworkSession and the job that opens the session.
OnConnectionAccepted(s) ==
  /\ ses[s].at = "counted" /\ Free
  /\ \E place \in {"gone", "opening"} : ses' = [ses EXCEPT ![s].at = place]
  /\ UNCHANGED <<host, res, pc, work, refusals>>

OpenOnRunner(s) ==
  /\ ses[s].at = "opening" /\ RunnerFree
  /\ ses' = [ses EXCEPT ![s].at = IF host.accepting THEN "open" ELSE "closing"]
  /\ UNCHANGED <<host, res, pc, work, refusals>>

\* The peer, or a thread of the application, closes.
Close(s) ==
  /\ ses[s].at \in {"opening", "open", "lingering"}
  /\ ses' = [ses EXCEPT ![s].at = "closing"] /\ UNCHANGED <<host, res, pc, work, refusals>>

\* OnDisconnected from the transport, after its last OnReceived, posts the
\* finalizer.
OnDisconnected(s) ==
  /\ ses[s].at = "closing" /\ work[s] \notin {"arriving", "received"}
  /\ ses' = [ses EXCEPT ![s].at = "finalizing"] /\ UNCHANGED <<host, res, pc, work, refusals>>

\* FinishNetworkSession: the notification is counted in the section that
\* gives the slot back.  What the session had queued is dropped before.
FinishNetworkSession(s, t) ==
  /\ ses' = [ses EXCEPT ![s].at = "notify", ![s].by = t]
  /\ work' = [work EXCEPT ![s] = IF @ = "queued" THEN "none" ELSE @]

\* On the runner; or, refused by it, on an I/O thread, on the user's thread
\* that disconnected, or on the thread that runs CloseAllSessions.
Finalize(s) ==
  /\ Free
  /\ \/ /\ ses[s].at = "finalizing" /\ RunnerFree
        /\ FinishNetworkSession(s, "runner") /\ UNCHANGED <<pc, refusals>>
     \/ /\ ses[s].at = "closing" /\ refusals > 0
        /\ work[s] \notin {"arriving", "received", "consuming", "handling"}
        /\ refusals' = refusals - 1
        /\ \/ res.io = "on" /\ FinishNetworkSession(s, "io") /\ UNCHANGED pc
           \/ pc["user"] = "idle" /\ FinishNetworkSession(s, "user") /\ Goto("user", "observer")
           \/ \E t \in Threads : pc[t] = "stop_close" /\ FinishNetworkSession(s, t) /\ Goto(t, "inline")
  /\ UNCHANGED <<host, res>>

\* OnSessionClosed returns: FinishCloseNotification.  The user's callback may
\* call Stop first; a Stop inside another one's callback joins it at once.
NotifyClosed(s) ==
  /\ Free
  /\ \/ /\ ses[s].at = "notify" /\ ses[s].by \in {"runner", "io"}
        /\ ses' = [ses EXCEPT ![s].at = "gone"] /\ UNCHANGED pc
     \/ /\ ses[s].at = "notify" /\ ses[s].by \in Threads
        /\ \/ /\ pc[ses[s].by] \in {"observer", "noop", "stopped"}
              /\ ses' = [ses EXCEPT ![s].at = "gone"] /\ Goto(ses[s].by, "idle")
           \/ /\ pc[ses[s].by] = "inline"
              /\ ses' = [ses EXCEPT ![s].at = "gone"] /\ Goto(ses[s].by, "stop_close")
           \/ /\ pc[ses[s].by] = "observer" /\ Goto(ses[s].by, "stop") /\ UNCHANGED ses
  /\ UNCHANGED <<host, res, work, refusals>>

-----------------------------------------------------------------------------
(* One message of a session.                                               *)

\* OnReceived looks at the host first, and at mInputClosed under its own mutex.
OnReceived(s) ==
  /\ work[s] = "none" /\ res.io = "on"
  /\ ses[s].at \in {"opening", "open"} /\ host.accepting /\ ~host.draining
  /\ work' = [work EXCEPT ![s] = "arriving"] /\ UNCHANGED <<host, res, pc, ses, refusals>>

QueueReceived(s) ==
  /\ \/ /\ work[s] = "arriving"
        /\ work' = [work EXCEPT ![s] = IF ses[s].inputClosed THEN "none" ELSE "received"]
     \/ /\ work[s] = "received" /\ work' = [work EXCEPT ![s] = "queued"]
  /\ UNCHANGED <<host, res, pc, ses, refusals>>

Live(s) == host.accepting /\ ses[s].at \in {"opening", "open"}

\* Consume, parse on a worker, handle, and perhaps a continuation.
Message(s) ==
  /\ \/ /\ work[s] = "queued" /\ RunnerFree
        /\ work' = [work EXCEPT ![s] = IF Live(s) THEN "consuming" ELSE "none"]
     \/ /\ work[s] = "consuming" /\ res.pool = "on" /\ work' = [work EXCEPT ![s] = "parsing"]
     \/ /\ work[s] = "parsing" /\ work' = [work EXCEPT ![s] = "parsed"]
     \/ /\ work[s] = "parsed" /\ RunnerFree
        /\ work' = [work EXCEPT ![s] = IF Live(s) THEN "handling" ELSE "none"]
     \/ /\ work[s] = "handling"
        /\ \/ host.admission /\ work' = [work EXCEPT ![s] = "continued"]
           \/ work' = [work EXCEPT ![s] = "none"]
     \/ /\ work[s] = "continued" /\ RunnerFree /\ work' = [work EXCEPT ![s] = "none"]
  /\ UNCHANGED <<host, res, pc, ses, refusals>>

\* The pool no longer takes bodies: FailAndDisconnect.
ParseRefused(s) ==
  /\ work[s] = "consuming" /\ res.pool # "on"
  /\ work' = [work EXCEPT ![s] = "none"]
  /\ ses' = [ses EXCEPT ![s].at = IF @ \in {"opening", "open"} THEN "closing" ELSE @]
  /\ UNCHANGED <<host, res, pc, refusals>>

-----------------------------------------------------------------------------

\* What goes on without anybody outside calling or connecting.
Proceed ==
  \/ StartPart \/ StartCompletes \/ Run \/ CloseExpired
  \/ \E t \in Threads : StopEntry(t) \/ Teardown(t) \/ DrainStops(t) \/ AdvanceDrain(t) \/ DrainSends(t)
  \/ \E s \in Sessions : OnDisconnected(s) \/ Finalize(s) \/ NotifyClosed(s) \/ OnConnectionAccepted(s)
                         \/ OpenOnRunner(s) \/ QueueReceived(s) \/ Message(s) \/ ParseRefused(s)

Next ==
  \/ Start \/ StartPart \/ StartCompletes \/ Run \/ PostTick \/ CloseExpired
  \/ \E t \in Threads : CallStop(t) \/ StopEntry(t) \/ Teardown(t) \/ BeginDrain(t) \/ DrainStops(t)
                        \/ AdvanceDrain(t) \/ DrainSends(t) \/ StopGracefully(t)
  \/ \E s \in Sessions : BeginNetworkSession(s) \/ OnConnectionAccepted(s) \/ OpenOnRunner(s) \/ Close(s)
                         \/ OnDisconnected(s) \/ Finalize(s) \/ NotifyClosed(s) \/ OnReceived(s)
                         \/ QueueReceived(s) \/ Message(s) \/ ParseRefused(s)

Spec == Init /\ [][Next]_vars

-----------------------------------------------------------------------------

Places == {"idle", "queued", "stop", "stop_timer", "stop_acceptor", "stop_pool", "stop_close", "inline",
           "stop_wait", "stop_io", "stop_runner", "stop_reset", "stopped", "noop", "started", "waiting",
           "drain_acceptor", "drain_input", "advance", "readParse", "readJobs", "sends", "drained",
           "scan", "observer", "running"} \cup DOMAIN res

TypeOK ==
  /\ host.life \in {"Ready", "Starting", "Running", "Stopping", "Stopped"}
  /\ \A p \in DOMAIN res : res[p] \in {"none", "made", "on", "off"}
  /\ pc \in [Threads -> Places]
  /\ Outstanding <= MaxSessions /\ refusals \in Nat

\* Stop and Run come back only to a host that is over: no session, no part,
\* no job, and no close notification but the one the caller is inside.
StoppedMeansOver ==
  \A t \in Threads : pc[t] = "stopped" =>
    /\ host.life = "Stopped" /\ Outstanding = 0
    /\ InFlight <= CurrentCloseNotificationDepth(t)
    /\ \A p \in DOMAIN res : res[p] = "none"

\* A part is stopped only when nobody needs it, and its owner reset only when
\* nobody holds the pointer read under the mutex: I/O and the runner outlive
\* the sessions, the acceptor the accept under way and a BeginDrain that is
\* stopping it.
PartsOutliveTheirUsers ==
  /\ Outstanding # 0 => res.io = "on" /\ res.runner = "on"
  /\ (\E s \in Sessions : ses[s].at = "counted") => res.acceptor = "on"
  /\ (\E s \in Sessions : work[s] = "parsing") => res.pool = "on"
  /\ ~RunnerIdle => res.runner = "on"
  /\ \A t \in Threads : pc[t] \in {"drain_acceptor", "stop_acceptor"} => res.acceptor # "none"
  /\ Cardinality({t \in Threads : pc[t] \in {"stop_timer", "stop_acceptor", "stop_pool", "stop_close",
                     "inline", "stop_wait", "stop_io", "stop_runner", "stop_reset"}}) <= 1

\* AdvanceDrain starts the sends, and closes the runner to the game, only
\* after every admitted message and what followed from it has ended, although
\* it reads three counters one after the other while they move.
DrainIsQuiet ==
  /\ host.sendsStarted => \A s \in Sessions : work[s] \in {"silent", "none", "arriving"}
  /\ \A s \in Sessions : work[s] = "handling" => host.admission

\* The three together, over the types.
HostIsOrderly == TypeOK /\ StoppedMeansOver /\ PartsOutliveTheirUsers /\ DrainIsQuiet

\* Start's cleanup, Stops from outside and from OnSessionClosed, and drains
\* never all wait for one another: while one of them is under way some step
\* of the program itself can be taken.
NoMutualWait ==
  (\E t \in Threads : pc[t] \notin {"idle", "queued", "stopped", "noop", "started", "waiting", "drained", "scan"})
    => ENABLED Proceed

\* HostIsSound.  The host, all in all.
HostIsSound == HostIsOrderly /\ NoMutualWait
=============================================================================
