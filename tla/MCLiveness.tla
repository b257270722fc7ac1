----------------------------- MODULE MCLiveness -----------------------------
(***************************************************************************)
(* KeyedExecutor and the network session for TLC, with the fairness of     *)
(* their threads.  A behaviour is one of one part; the parts share the     *)
(* variables x1, x2, ... by position.                                      *)
(***************************************************************************)
EXTENDS Integers

CONSTANT None

VARIABLES
  part, x1, x2, x3, x4, x5, x6, x7, x8, x9, x10, x11, x12, x13, x14, x15, x16, x17, x18, x19, x20, x21, x22, x23

keysVars == <<x1, x2, x3, x4, x5, x6, x7, x8, x9, x10, x11, x12, x13, x14, x15, x16, x17, x18, x19, x20, x21, x22, x23>>
sessionVars == <<x1, x2, x3, x4, x5, x6, x7, x8>>
after8 == <<x9, x10, x11, x12, x13, x14, x15, x16, x17, x18, x19, x20, x21, x22, x23>>
vars == <<part, keysVars>>

\* Two tasks of one key, one with a parent token and one with a deadline.
Keys == INSTANCE KeyedExecutor WITH
  Tasks <- {"a1", "a2"}, Keys <- {"ka"}, KeyOf <- [t \in {"a1", "a2"} |-> "ka"], Workers <- {"w1"}, Coordinator <- "coordinator",
  MaxKeys <- 1, MaxOutstanding <- 2, MaxPerKey <- 2, Bytes <- [a1 |-> 2, a2 |-> 1], MaxRetained <- 3, MaxRetainedPerKey <- 3,
  Parented <- {"a1"}, Timed <- {"a2"},
  starter <- x1, stopper <- x2, ready <- x3, stopping <- x4, pc <- x5, cur <- x6, outcome <- x7, submission <- x8,
  tasks <- x9, keys <- x10, readyKeys <- x11, phase <- x12, cancelReason <- x13, signalSent <- x14, token <- x15,
  result <- x16, pending <- x17, running <- x18, outstanding <- x19, retained <- x20, expired <- x21,
  parentStopped <- x22, delivered <- x23

\* One session, its I/O thread, the JobRunner, the expiry scan and Stop.
Session == INSTANCE NetworkSession WITH
  Apps <- {}, Bounds <- {[messages |-> 1, calls |-> 1, failures |-> 1]},
  stack <- x1, outbound <- x2, session <- x3, conn <- x4, host <- x5, jobs <- x6, seen <- x7, left <- x8

ASSUME Keys!KeyedExecutorAssumption /\ Session!SessionAssumption

Init ==
  \/ part = "keys" /\ Keys!Init
  \/ part = "session" /\ Session!Init
     /\ x9 = 0 /\ x10 = 0 /\ x11 = 0 /\ x12 = 0 /\ x13 = 0 /\ x14 = 0 /\ x15 = 0 /\ x16 = 0 /\ x17 = 0 /\ x18 = 0
     /\ x19 = 0 /\ x20 = 0 /\ x21 = 0 /\ x22 = 0 /\ x23 = 0

Next ==
  \/ part = "keys" /\ Keys!Next /\ UNCHANGED part
  \/ part = "session" /\ Session!Next /\ UNCHANGED <<part, after8>>

\* KeyedExecutor: the system runs threads that can run, joins that can return and
\* the callbacks of a stopped token, and jobs return.  The session: threads keep
\* running and callbacks return; nothing makes a peer close, an application call,
\* or Stop begin.  A thread that waits for mOutboundMutex is not passed over for
\* ever by the scans, which are whole periods apart.
InKeys == part = "keys"
InSession == part = "session"
KeysFairness ==
  /\ WF_keysVars(InKeys /\ (Keys!CoordinatorStep \/ Keys!Publish("coordinator")))
  /\ WF_keysVars(InKeys /\ (Keys!Worker("w1") \/ Keys!Publish("w1") \/ \E r \in Keys!JobResults : Keys!JobReturns("w1", r)))
  /\ \A t \in {"a1", "a2"} : WF_keysVars(InKeys /\ Keys!ParentCallback(t))
  /\ WF_keysVars(InKeys /\ Keys!JoinDone)
SessionFairness ==
  /\ \A t \in Session!Threads :
       /\ WF_sessionVars(InSession /\ (Session!Call(t) \/ Session!Finalization(t)))
       /\ SF_sessionVars(InSession /\ Session!LockOutbound(t))
  /\ WF_sessionVars(InSession /\ (\/ Session!Open \/ Session!Message \/ Session!ExpiryScan \/ Session!BeginFinalize
                                  \/ Session!FinalizeOnRunner \/ Session!NoticeReturns))
  /\ WF_sessionVars(InSession /\ (\/ Session!Issue \/ Session!PostOpen \/ Session!AbortReason \/ Session!AbortState
                                  \/ Session!StartConnection \/ Session!OnBytesReceived \/ Session!ReadyEnds))
  /\ WF_sessionVars(InSession /\ Session!Tick)
  /\ WF_sessionVars(InSession /\ (Session!CloseAllSessions \/ Session!StopWaits \/ Session!StopReturns))

Spec == Init /\ [][Next]_vars /\ KeysFairness /\ SessionFairness

-----------------------------------------------------------------------------

\* With jobs that return, every task KeyedExecutor accepted becomes terminal, so
\* that no task waits for ever behind the cancelled or the expired one of its
\* key, and Stop returns.
KeysAtRest == (\A t \in Keys!Accepted : x12[t] = "Terminal") /\ x2 # "joining"
EveryKeyIsServed == (InKeys /\ ~KeysAtRest) ~> (InKeys /\ KeysAtRest)

\* A session that is ending does not come back, and a closed one stays closed,
\* although MarkAuthenticated races Disconnect.
EndingIsFinal == [][InSession => Session!EndingStays]_vars

\* A session that began to close is finalized, although its peer never answers:
\* the expiry scan ends a drain, and the thread that met a failed post makes up
\* for it.  ServerHost::Stop returns.
SessionAtRest == (Session!Ending(x3) => x3.finalized) /\ x5.stop # "stopping"
SessionsEnd == (InSession /\ ~SessionAtRest) ~> (InSession /\ SessionAtRest)
=============================================================================
