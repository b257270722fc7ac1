--------------------------- MODULE NetworkSession ---------------------------
(***************************************************************************)
(* The life of one network session of a ServerHost                         *)
(* (Runtime/ServerHostNetworkSession.h and .cpp, ServerHostSessions.cpp,   *)
(* the Stop path of ServerHostLifecycle.cpp).                              *)
(*                                                                         *)
(* The acceptor hands a connection over on an I/O thread; the session is   *)
(* opened, given its messages and finalized on the JobRunner; application  *)
(* threads, the expiry scan and Stop may close it at any time; and every   *)
(* post to the JobRunner may fail, in which case the posting thread        *)
(* finalizes the session itself.  Closing a connection may call            *)
(* OnDisconnected on the closing thread, inside its critical section.      *)
(*                                                                         *)
(* A thread is a stack of calls, innermost first; an action is a critical  *)
(* section or a callback boundary of the innermost one.                    *)
(***************************************************************************)
EXTENDS Integers, Sequences

CONSTANTS
  Apps,           \* application threads
  Bounds,         \* of a behaviour: messages that arrive, calls the application
                  \* makes, in and out of callbacks, and failures (posts to the
                  \* JobRunner that fail)
  None

SessionAssumption ==
  /\ Bounds \subseteq [messages : Nat, calls : Nat, failures : Nat]
  /\ Apps \cap {"io", "runner", "host", "transport"} = {}
  /\ None \notin Apps \cup {"io", "runner", "host", "transport"}

Threads == Apps \cup {"io", "runner", "host"}
Notices == {"opened", "handler", "authenticated"}   \* observer and handler calls
UserCode == Notices \cup {"closed"}

VARIABLES
  stack,      \* the calls each thread is in
  outbound,   \* the owner of mOutboundMutex
  session,    \* the members of the session
  conn,       \* the connection and whether its disconnect was reported
  host,       \* what the host keeps for the session, and its Stop
  jobs,       \* the control lane of the JobRunner
  seen,       \* what the observer was told, and who ended the session (history)
  left        \* messages, calls and failures still to come

vars == <<stack, outbound, session, conn, host, jobs, seen, left>>

Init ==
  /\ stack = [t \in Threads |-> <<>>] /\ outbound = None
  /\ session = [state |-> "Connected", reason |-> None, graceful |-> FALSE,
                depth |-> 0, deferred |-> FALSE, finalized |-> FALSE,
                registered |-> FALSE, opened |-> FALSE, cancelled |-> FALSE]
  /\ conn = [state |-> "absent", observed |-> FALSE, notified |-> FALSE]
  /\ host = [accepting |-> TRUE, stop |-> "running", outstanding |-> 0,
             slot |-> FALSE, id |-> "free", notifying |-> 0]
  /\ jobs = <<>>
  /\ seen = [opened |-> 0, closed |-> 0, first |-> None, reason |-> None]
  /\ left \in Bounds

-----------------------------------------------------------------------------
(* Calls and returns.                                                      *)

At(t, label) == stack[t] # <<>> /\ Head(stack[t]).at = label
InUserCode(t) == stack[t] # <<>> /\ Head(stack[t]).at \in UserCode
Frame(label) == [at |-> label, how |-> "", flag |-> FALSE]
Goto(t, label) == stack' = [stack EXCEPT ![t] = <<[Head(@) EXCEPT !.at = label]>> \o Tail(@)]
Become(t, label) == stack' = [stack EXCEPT ![t] = <<Frame(label)>> \o Tail(@)]
Return(t) == stack' = [stack EXCEPT ![t] = Tail(@)]
Push(t, label) == stack' = [stack EXCEPT ![t] = <<Frame(label)>> \o @]

Ending(s) == s.state \in {"Closing", "Closed"}

\* PostControl: the job is queued, or the post fails and nothing is queued.
Posted(job) == jobs' = Append(jobs, job) /\ UNCHANGED left
PostFails == left.failures > 0 /\ left' = [left EXCEPT !.failures = @ - 1] /\ UNCHANGED jobs

\* RememberCloseReasonLocked; the first to end the session is recorded.
Remember(s, who) == IF s.reason = None THEN [s EXCEPT !.reason = who] ELSE s
Ended(who) == seen' = IF seen.first = None THEN [seen EXCEPT !.first = who] ELSE seen

-----------------------------------------------------------------------------
(* Disconnect, SendAndDisconnect, DrainSends, Send and                     *)
(* DisconnectIfExpired: a finalization deferral, mOutboundMutex, the       *)
(* decision under mCloseReasonMutex, the connection, and the way out.      *)

\* The call is made from the stack `below'.
Begin(t, how, below) ==
  stack' = [stack EXCEPT ![t] = <<[at |-> "begin", how |-> how, flag |-> FALSE]>> \o below]

MutantBeginFinalizationDeferral(t) ==
  /\ At(t, "begin") /\ Goto(t, "lock")
  /\ UNCHANGED <<outbound, session, conn, host, jobs, seen, left>>

\* BeginFinalizationDeferral, which a finalized session no longer counts.
BeginFinalizationDeferral(t) ==
  /\ At(t, "begin")
  /\ stack' = [stack EXCEPT ![t] =
                 <<[Head(@) EXCEPT !.at = "lock", !.flag = ~session.finalized]>> \o Tail(@)]
  /\ session' = IF session.finalized THEN session ELSE [session EXCEPT !.depth = @ + 1]
  /\ UNCHANGED <<outbound, conn, host, jobs, seen, left>>

LockOutbound(t) ==
  /\ At(t, "lock") /\ outbound = None
  /\ outbound' = t /\ Goto(t, "locked")
  /\ UNCHANGED <<session, conn, host, jobs, seen, left>>

MutantBeginClosing(t, graceful) ==
  /\ session' = [session EXCEPT !.state = "Closing", !.graceful = graceful]
  /\ Ended(t)

\* The state moves to Closing and the reason is installed together.
BeginClosing(t, graceful) ==
  /\ session' = [Remember(session, t) EXCEPT !.state = "Closing", !.graceful = graceful]
  /\ Ended(t)

\* DisconnectLocked: a drain under way is cut short, a closed session left alone.
DisconnectLocked(t) ==
  /\ At(t, "locked") /\ Head(stack[t]).how = "now"
  /\ CASE session.state = "Closed"  -> Goto(t, "unlock") /\ UNCHANGED <<session, seen>>
       [] session.state = "Closing" -> Goto(t, "close") /\ UNCHANGED <<session, seen>>
       [] OTHER -> Goto(t, "close") /\ BeginClosing(t, FALSE)
  /\ UNCHANGED <<outbound, conn, host, jobs, left>>

\* SendAndDisconnect and DrainSends: only the first closes, after the last
\* frame was queued or at once when it could not be.
GracefulLocked(t) ==
  /\ At(t, "locked") /\ Head(stack[t]).how = "graceful"
  /\ IF Ending(session)
     THEN Goto(t, "unlock") /\ UNCHANGED <<session, seen>>
     ELSE BeginClosing(t, TRUE) /\ \E next \in {"drain", "close"} : Goto(t, next)
  /\ UNCHANGED <<outbound, conn, host, jobs, left>>

\* Send queues a frame, is refused, or meets a socket failure that closes.
SendLocked(t) ==
  /\ At(t, "locked") /\ Head(stack[t]).how = "send"
  /\ \/ Goto(t, "unlock")
     \/ ~Ending(session) /\ Goto(t, "close")
  /\ UNCHANGED <<outbound, session, conn, host, jobs, seen, left>>

MutantExpiredLocked(t) ==
  /\ At(t, "locked") /\ Head(stack[t]).how = "expired"
  /\ \/ Ending(session) /\ Goto(t, "unlock") /\ UNCHANGED <<session, seen>>
     \/ ~Ending(session) /\ Goto(t, "unlock") /\ UNCHANGED <<session, seen>>
     \/ ~Ending(session) /\ Goto(t, "close") /\ BeginClosing(t, FALSE)
  /\ UNCHANGED <<outbound, conn, host, jobs, left>>

\* DisconnectIfExpired ends a drain whose time is over, and an idle session.
ExpiredLocked(t) ==
  /\ At(t, "locked") /\ Head(stack[t]).how = "expired"
  /\ \/ /\ Ending(session) /\ UNCHANGED <<session, seen>>
        /\ Goto(t, IF session.state = "Closing" /\ session.graceful THEN "close" ELSE "unlock")
     \/ ~Ending(session) /\ Goto(t, "unlock") /\ UNCHANGED <<session, seen>>
     \/ ~Ending(session) /\ Goto(t, "close") /\ BeginClosing(t, FALSE)
  /\ UNCHANGED <<outbound, conn, host, jobs, left>>

\* Connection::CloseAfterSend: the socket stays until the peer has drained it.
Drain(t) ==
  /\ At(t, "drain") /\ Goto(t, "notify")
  /\ conn' = [conn EXCEPT !.state = IF @ = "open" THEN "draining" ELSE @]
  /\ UNCHANGED <<outbound, session, host, jobs, seen, left>>

\* Connection::Close, first half.
CloseConnection(t) ==
  /\ At(t, "close") /\ Goto(t, "notify")
  /\ conn' = [conn EXCEPT !.state = "closed"]
  /\ UNCHANGED <<outbound, session, host, jobs, seen, left>>

\* The connection is inside a readiness callback.
Processing == \E i \in DOMAIN stack["io"] : stack["io"][i].at = "ready"

Reportable == conn.state = "closed" /\ conn.observed /\ ~Processing /\ ~conn.notified

\* Connection::NotifyDisconnected: one caller reports, outside the mutex.
NotifyDisconnected(t) ==
  /\ At(t, "notify")
  /\ LET rest == IF Head(stack[t]).how = "" THEN Tail(stack[t])
                 ELSE <<[Head(stack[t]) EXCEPT !.at = "unlock"]>> \o Tail(stack[t])
     IN stack' = [stack EXCEPT ![t] = IF Reportable THEN <<Frame("gone")>> \o rest ELSE rest]
  /\ conn' = [conn EXCEPT !.notified = @ \/ Reportable]
  /\ UNCHANGED <<outbound, session, host, jobs, seen, left>>

UnlockOutbound(t) ==
  /\ At(t, "unlock") /\ outbound' = None /\ Goto(t, "leave")
  /\ UNCHANGED <<session, conn, host, jobs, seen, left>>

\* CompleteLifecycleNotification: the last one out does a deferred finalization.
Complete(t, s) ==
  LET last == s.depth = 1
  IN  /\ session' = [s EXCEPT !.depth = @ - 1, !.deferred = @ /\ ~last]
      /\ IF last /\ s.deferred THEN Become(t, "claim") ELSE Return(t)

\* ~FinalizationDeferral.
Leave(t) ==
  /\ At(t, "leave")
  /\ LET s == [session EXCEPT !.cancelled = @ \/ Ending(session)]
     IN IF Head(stack[t]).flag THEN Complete(t, s) ELSE session' = s /\ Return(t)
  /\ UNCHANGED <<outbound, conn, host, jobs, seen, left>>

Call(t) ==
  \/ BeginFinalizationDeferral(t) \/ LockOutbound(t) \/ DisconnectLocked(t) \/ GracefulLocked(t) \/ SendLocked(t)
  \/ ExpiredLocked(t) \/ Drain(t) \/ CloseConnection(t) \/ NotifyDisconnected(t)
  \/ UnlockOutbound(t) \/ Leave(t)

-----------------------------------------------------------------------------
(* OnDisconnected and finalization.                                        *)

\* The reason and Closed are set in one critical section of mCloseReasonMutex.
OnDisconnected(t) ==
  /\ At(t, "gone") /\ Goto(t, "gonePost")
  /\ session' = [Remember(session, "transport") EXCEPT !.state = "Closed"]
  /\ Ended("transport")
  /\ UNCHANGED <<outbound, conn, host, jobs, left>>

PostFinalize(t) ==
  /\ At(t, "gonePost")
  /\ \/ session.finalized /\ Return(t) /\ UNCHANGED <<jobs, left>>
     \/ ~session.finalized /\ Posted("finalize") /\ Return(t)
     \/ ~session.finalized /\ PostFails /\ Become(t, "claim")
  /\ UNCHANGED <<outbound, session, conn, host, seen>>

\* The claim both finalizers share: mFinalized, mRegistered and mOpened.
Claim(t, s) ==
  /\ session' = [s EXCEPT !.finalized = TRUE, !.registered = FALSE, !.opened = FALSE,
                          !.cancelled = @ \/ Ending(s)]
  /\ stack' = [stack EXCEPT ![t] =
                 <<[at |-> "unlist", how |-> IF s.registered THEN "listed" ELSE "issued",
                    flag |-> s.opened]>> \o Tail(@)]

MutantFinalizeAfterRunnerFailure(t) ==
  /\ At(t, "claim")
  /\ IF session.finalized THEN Return(t) /\ UNCHANGED session ELSE Claim(t, session)
  /\ UNCHANGED <<outbound, conn, host, jobs, seen, left>>

\* FinalizeAfterRunnerFailure waits for the notifications and calls under way.
FinalizeAfterRunnerFailure(t) ==
  /\ At(t, "claim")
  /\ CASE session.depth # 0 -> session' = [session EXCEPT !.deferred = TRUE] /\ Return(t)
       [] session.depth = 0 /\ session.finalized -> Return(t) /\ UNCHANGED session
       [] OTHER -> Claim(t, session)
  /\ UNCHANGED <<outbound, conn, host, jobs, seen, left>>

FinalizeOnRunner ==
  /\ At("runner", "finalize")
  /\ IF session.finalized
     THEN Return("runner") /\ session' = [session EXCEPT !.cancelled = @ \/ Ending(session)]
     ELSE Claim("runner", session)
  /\ UNCHANGED <<outbound, conn, host, jobs, seen, left>>

MutantUnlist(t) ==
  /\ At(t, "unlist") /\ Goto(t, "finish")
  /\ host' = [host EXCEPT !.id = IF Head(stack[t]).how = "listed" THEN "free" ELSE @]
  /\ UNCHANGED <<outbound, session, conn, jobs, seen, left>>

\* SessionRegistry::Unregister or DiscardIssuedId.
Unlist(t) ==
  /\ At(t, "unlist") /\ Goto(t, "finish")
  /\ host' = [host EXCEPT !.id = IF @ = Head(stack[t]).how THEN "free" ELSE @]
  /\ UNCHANGED <<outbound, session, conn, jobs, seen, left>>

\* FinishNetworkSession counts the close notification before the slot is free;
\* then OnSessionClosed is called with the reason taken from the session.
Finish(t) ==
  /\ At(t, "finish")
  /\ LET open == Head(stack[t]).flag
     IN  /\ host' = [host EXCEPT !.outstanding = @ - 1, !.slot = FALSE,
                                 !.notifying = IF open THEN @ + 1 ELSE @]
         /\ IF open
            THEN /\ Become(t, "closed")
                 /\ seen' = [seen EXCEPT !.closed = @ + 1, !.reason = session.reason]
                 /\ session' = [session EXCEPT !.reason = None]
            ELSE Return(t) /\ UNCHANGED <<session, seen>>
  /\ UNCHANGED <<outbound, conn, jobs, left>>

\* OnSessionClosed returned: FinishCloseNotification.
ClosedReturns(t) ==
  /\ At(t, "closed") /\ Return(t)
  /\ host' = [host EXCEPT !.notifying = @ - 1]
  /\ UNCHANGED <<outbound, session, conn, jobs, seen, left>>

Finalization(t) ==
  \/ OnDisconnected(t) \/ PostFinalize(t) \/ FinalizeAfterRunnerFailure(t)
  \/ Unlist(t) \/ Finish(t) \/ ClosedReturns(t)

-----------------------------------------------------------------------------
(* The JobRunner.                                                          *)

TakeJob(job) == stack["runner"] = <<>> /\ jobs # <<>> /\ Head(jobs) = job /\ jobs' = Tail(jobs)

\* OpenOnRunner: registration and the start of the open notification are one
\* transition under mFinalizationMutex.
Open ==
  /\ TakeJob("open")
  /\ \/ /\ session.finalized /\ UNCHANGED <<stack, session, host, seen>>
     \/ /\ ~session.finalized /\ session.state = "Closed" /\ Push("runner", "finalize")
        /\ UNCHANGED <<session, host, seen>>
     \/ /\ ~session.finalized /\ session.state # "Closed"   \* refused, or Register fails
        /\ Begin("runner", "now", <<>>) /\ UNCHANGED <<session, host, seen>>
     \/ /\ ~session.finalized /\ ~Ending(session) /\ host.accepting
        /\ Push("runner", "opened")
        /\ session' = [session EXCEPT !.registered = TRUE, !.opened = TRUE, !.depth = @ + 1]
        /\ host' = [host EXCEPT !.id = "listed"]
        /\ seen' = [seen EXCEPT !.opened = @ + 1]
  /\ UNCHANGED <<outbound, conn, left>>

\* ConsumePendingBytesOnRunner: a bad frame disconnects, a message begins a
\* dispatch under mFinalizationMutex unless the session is ending.
Message ==
  /\ TakeJob("message")
  /\ \/ (Ending(session) \/ ~host.accepting) /\ UNCHANGED <<stack, session>>
     \/ ~Ending(session) /\ host.accepting /\ Begin("runner", "now", <<>>) /\ UNCHANGED session
     \/ /\ ~Ending(session) /\ host.accepting /\ ~session.finalized
        /\ Push("runner", "handler")
        /\ session' = [session EXCEPT !.depth = @ + 1]
  /\ UNCHANGED <<outbound, conn, host, seen, left>>

\* CloseExpiredSessionsOnRunner visits the registered sessions.
ExpiryScan ==
  /\ TakeJob("expire")
  /\ IF host.accepting /\ host.id = "listed"
     THEN Begin("runner", "expired", <<>>)
     ELSE UNCHANGED stack
  /\ UNCHANGED <<outbound, session, conn, host, seen, left>>

BeginFinalize ==
  /\ TakeJob("finalize") /\ Push("runner", "finalize")
  /\ UNCHANGED <<outbound, session, conn, host, seen, left>>

MutantMarkAuthenticated ==
  /\ InUserCode("runner") /\ left.calls > 0
  /\ ~session.finalized /\ session.state # "Authenticated"
  /\ session' = [session EXCEPT !.state = "Authenticated", !.depth = @ + 1]
  /\ Push("runner", "authenticated")
  /\ left' = [left EXCEPT !.calls = @ - 1]
  /\ UNCHANGED <<outbound, conn, host, jobs, seen>>

\* MarkAuthenticated, from a callback on the JobRunner.
MarkAuthenticated ==
  /\ InUserCode("runner") /\ left.calls > 0
  /\ ~session.finalized /\ session.state = "Connected"
  /\ session' = [session EXCEPT !.state = "Authenticated", !.depth = @ + 1]
  /\ Push("runner", "authenticated")
  /\ left' = [left EXCEPT !.calls = @ - 1]
  /\ UNCHANGED <<outbound, conn, host, jobs, seen>>

\* The observer or the handler returned.
NoticeReturns ==
  /\ \E notice \in Notices : At("runner", notice)
  /\ Complete("runner", session)
  /\ UNCHANGED <<outbound, conn, host, jobs, seen, left>>

Runner ==
  \/ Open \/ Message \/ ExpiryScan \/ BeginFinalize \/ FinalizeOnRunner
  \/ MarkAuthenticated \/ NoticeReturns

-----------------------------------------------------------------------------
(* The I/O thread.                                                         *)

\* OnConnectionAccepted, BeginNetworkSession.
Accept ==
  /\ stack["io"] = <<>> /\ conn.state = "absent" /\ host.accepting
  /\ host' = [host EXCEPT !.outstanding = @ + 1]
  /\ stack' = [stack EXCEPT !["io"] = <<Frame("issue"), Frame("handoff")>>]
  /\ UNCHANGED <<outbound, session, conn, jobs, seen, left>>

\* IssueId, TrackNetworkSession and SetObserver, or the number space or the
\* memory is used up and the connection is closed again.
Issue ==
  /\ At("io", "issue")
  /\ \/ /\ Goto("io", "postOpen")
        /\ host' = [host EXCEPT !.id = "issued", !.slot = TRUE]
        /\ conn' = [conn EXCEPT !.state = "open", !.observed = TRUE]
     \/ /\ Return("io")
        /\ host' = [host EXCEPT !.outstanding = @ - 1]
        /\ conn' = [conn EXCEPT !.state = "closed"]
  /\ UNCHANGED <<outbound, session, jobs, seen, left>>

PostOpen ==
  /\ At("io", "postOpen")
  /\ \/ Posted("open") /\ Return("io")
     \/ PostFails /\ Goto("io", "abort")
  /\ UNCHANGED <<outbound, session, conn, host, seen>>

\* AbortBeforeOpened: RememberCloseReason, ...
AbortReason ==
  /\ At("io", "abort") /\ Goto("io", "abortState")
  /\ session' = Remember(session, "io")
  /\ UNCHANGED <<outbound, conn, host, jobs, seen, left>>

\* ... the state, then FinalizeAfterRunnerFailure and Connection::Close.
AbortState ==
  /\ At("io", "abortState")
  /\ stack' = [stack EXCEPT !["io"] = <<Frame("claim"), Frame("close")>> \o Tail(@)]
  /\ session' = [session EXCEPT !.state = "Closed"]
  /\ Ended("io")
  /\ UNCHANGED <<outbound, conn, host, jobs, left>>

\* The handler returned: Connection::Start, which may fail and close.
StartConnection ==
  /\ At("io", "handoff")
  /\ \/ Return("io") /\ UNCHANGED conn
     \/ Goto("io", "notify") /\ conn' = [conn EXCEPT !.state = "closed"]
  /\ UNCHANGED <<outbound, session, host, jobs, seen, left>>

\* TcpConnection::OnReady enters the receive callback ...
Ready ==
  /\ stack["io"] = <<>> /\ conn.state = "open" /\ left.messages > 0
  /\ left' = [left EXCEPT !.messages = @ - 1]
  /\ stack' = [stack EXCEPT !["io"] = <<Frame("bytes"), Frame("ready")>>]
  /\ UNCHANGED <<outbound, session, conn, host, jobs, seen>>

\* ... OnBytesReceived queues a receive job, or disconnects when it cannot or
\* a limit is exceeded ...
OnBytesReceived ==
  /\ At("io", "bytes")
  /\ IF Ending(session) \/ ~host.accepting
     THEN Return("io") /\ UNCHANGED <<jobs, left>>
     ELSE \/ Posted("message") /\ Return("io")
          \/ Begin("io", "now", Tail(stack["io"])) /\ UNCHANGED <<jobs, left>>
  /\ UNCHANGED <<outbound, session, conn, host, seen>>

\* ... and OnReady ends; the peer may have closed or the socket failed.
ReadyEnds ==
  /\ At("io", "ready") /\ Goto("io", "notify")
  /\ conn' \in {conn, [conn EXCEPT !.state = "closed"]}
  /\ UNCHANGED <<outbound, session, host, jobs, seen, left>>

\* The peer closes, or a drained connection ends.
PeerCloses ==
  /\ stack["io"] = <<>> /\ conn.state \in {"open", "draining"}
  /\ conn' = [conn EXCEPT !.state = "closed"]
  /\ Push("io", "notify")
  /\ UNCHANGED <<outbound, session, host, jobs, seen, left>>

Io ==
  \/ Accept \/ Issue \/ PostOpen \/ AbortReason \/ AbortState
  \/ StartConnection \/ Ready \/ OnBytesReceived \/ ReadyEnds \/ PeerCloses

-----------------------------------------------------------------------------
(* The application, the session timeout timer and ServerHost::Stop.        *)

\* A session is known to the host's threads by its slot, to the others once
\* it was opened; a callback may call into its session as well.
UserCalls(t) ==
  /\ left.calls > 0
  /\ \/ t \in Apps /\ stack[t] = <<>> /\ (host.slot \/ seen.opened > 0)
     \/ InUserCode(t)
  /\ \E how \in {"now", "graceful", "send"} : Begin(t, how, stack[t])
  /\ left' = [left EXCEPT !.calls = @ - 1]
  /\ UNCHANGED <<outbound, session, conn, host, jobs, seen>>

\* The timeout runner keeps one callback outstanding.
Tick ==
  /\ host.accepting /\ host.id = "listed"
  /\ \A i \in DOMAIN jobs : jobs[i] # "expire"
  /\ \A i \in DOMAIN stack["runner"] : stack["runner"][i].how # "expired"
  /\ jobs' = Append(jobs, "expire")
  /\ UNCHANGED <<stack, outbound, session, conn, host, seen, left>>

StopBegins ==
  /\ host.stop = "running"
  /\ host' = [host EXCEPT !.stop = "stopping", !.accepting = FALSE]
  /\ UNCHANGED <<stack, outbound, session, conn, jobs, seen, left>>

HandingOff == \E i \in DOMAIN stack["io"] : stack["io"][i].at = "handoff"

MutantCloseAllSessions ==
  /\ host.stop = "stopping" /\ ~HandingOff
  /\ host' = [host EXCEPT !.stop = "waiting"]
  /\ IF host.id = "issued" THEN Begin("host", "now", <<>>) ELSE UNCHANGED stack
  /\ UNCHANGED <<outbound, session, conn, jobs, seen, left>>

\* Acceptor::Stop has waited for the handoffs; CloseAllSessions.
CloseAllSessions ==
  /\ host.stop = "stopping" /\ ~HandingOff
  /\ host' = [host EXCEPT !.stop = "waiting"]
  /\ IF host.slot THEN Begin("host", "now", <<>>) ELSE UNCHANGED stack
  /\ UNCHANGED <<outbound, session, conn, jobs, seen, left>>

MutantStopWaits ==
  /\ host.stop = "waiting" /\ stack["host"] = <<>>
  /\ host.outstanding = 0
  /\ host' = [host EXCEPT !.stop = "joining"]
  /\ UNCHANGED <<stack, outbound, session, conn, jobs, seen, left>>

StopWaits ==
  /\ host.stop = "waiting" /\ stack["host"] = <<>>
  /\ host.outstanding = 0 /\ host.notifying = 0
  /\ host' = [host EXCEPT !.stop = "joining"]
  /\ UNCHANGED <<stack, outbound, session, conn, jobs, seen, left>>

\* IoContext::Stop and the join of the job thread, which empties its queue.
StopReturns ==
  /\ host.stop = "joining"
  /\ stack["io"] = <<>> /\ stack["runner"] = <<>> /\ jobs = <<>>
  /\ host' = [host EXCEPT !.stop = "stopped"]
  /\ UNCHANGED <<stack, outbound, session, conn, jobs, seen, left>>

Host == StopBegins \/ CloseAllSessions \/ StopWaits \/ StopReturns

\* Nothing is left to do once the host has stopped.
Stopped == host.stop = "stopped" /\ \A t \in Threads : stack[t] = <<>> /\ UNCHANGED vars

Next ==
  \/ \E t \in Threads : Call(t) \/ Finalization(t) \/ UserCalls(t)
  \/ Runner \/ Io \/ Tick \/ Host \/ Stopped

Spec == Init /\ [][Next]_vars

-----------------------------------------------------------------------------
(* Properties.                                                             *)

Labels == UserCode \cup
  {"begin", "lock", "locked", "drain", "close", "notify", "unlock", "leave", "gone", "gonePost",
   "claim", "finalize", "unlist", "finish", "issue", "postOpen", "abort", "abortState",
   "handoff", "bytes", "ready"}

TypeOK ==
  /\ \A t \in Threads : \A i \in DOMAIN stack[t] : stack[t][i].at \in Labels
  /\ outbound \in Threads \cup {None}
  /\ session.state \in {"Connected", "Authenticated", "Closing", "Closed"}
  /\ session.reason \in Threads \cup {"transport", None}
  /\ session.depth \in Nat
  /\ conn.state \in {"absent", "open", "draining", "closed"}
  /\ host.outstanding \in {0, 1} /\ host.notifying \in {0, 1}
  /\ host.id \in {"free", "issued", "listed"}
  /\ seen.opened \in {0, 1} /\ seen.closed \in {0, 1}

Somewhere(labels) == \E t \in Threads : \E i \in DOMAIN stack[t] : stack[t][i].at \in labels

\* NotificationOrder.  OnSessionClosed is told of an opened session only, and
\* from then on no OnSessionOpened, OnSessionAuthenticated or handler is
\* running or starts: neither finalizer overtakes a callback under way, even
\* when the callback itself closed the session and the post failed
\* (BeginMessageDispatch, CompleteLifecycleNotification).
NotificationOrder ==
  seen.closed > 0 => seen.opened > 0 /\ ~Somewhere(Notices)

\* FirstReasonIsReported.  OnSessionClosed gets the reason of whoever ended
\* the session first, whichever of the closing threads and the transport came
\* later (BeginGracefulCloseLocked, DisconnectLocked, OnDisconnected).
FirstReasonIsReported == seen.closed > 0 => seen.reason = seen.first /\ seen.first # None

\* CallbacksHoldNoLock.  No observer or handler runs on a thread that holds
\* mOutboundMutex, so that it may call Send or Disconnect
\* (~FinalizationDeferral runs after the lock is released).
CallbacksHoldNoLock == \A t \in Threads : outbound = t => ~InUserCode(t)

\* NothingLeaks.  A finalized session that no thread is finalizing any more
\* holds neither its count, its slot nor its number, each given back once,
\* however the opening, the posts and the closings were interleaved
\* (FinalizeOnRunner, FinalizeAfterRunnerFailure, AbortBeforeOpened); and all
\* of it is done, and the session's work cancelled, before OnSessionClosed
\* runs, so that the observer may stop the host or reuse what the session held.
NothingLeaks ==
  /\ TypeOK
  /\ seen.closed > 0 => session.finalized /\ session.cancelled
  /\ seen.closed > 0 \/ (session.finalized /\ ~Somewhere({"unlist", "finish"})) =>
       host.outstanding = 0 /\ ~host.slot /\ host.id = "free"

\* StopIsQuiet.  Once Stop has returned the session is over: it was closed if
\* it was opened, no callback is running and no job or report is to come.
StopIsQuiet ==
  host.stop = "stopped" =>
    /\ host.outstanding = 0 /\ ~Somewhere(UserCode) /\ jobs = <<>>
    /\ seen.closed = seen.opened
    /\ conn.observed => conn.notified /\ session.finalized

\* EndingStays.  A session that is ending does not come back, and a closed
\* one stays closed (MarkAuthenticated races Disconnect).
EndingStays ==
  /\ Ending(session) => Ending(session')
  /\ session.state = "Closed" => session'.state = "Closed"

\* SessionIsOrderly.  The states of a session, all in all.
SessionIsOrderly ==
  NotificationOrder /\ FirstReasonIsReported /\ CallbacksHoldNoLock /\ NothingLeaks /\ StopIsQuiet
=============================================================================
