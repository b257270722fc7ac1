---------------------------- MODULE MCConcurrency ----------------------------
(***************************************************************************)
(* The executing, waiting, queueing and timing parts of the runtime for    *)
(* TLC.  A behaviour is one of one part.  JobRunner and BoundedChannel have *)
(* their own variables; the other parts share the variables x1, x2, ... by *)
(* position, and a part leaves alone those it does not use.                *)
(***************************************************************************)
EXTENDS TLC, JobRunner, BoundedChannel

CONSTANTS w1, w2

VARIABLES part, x1, x2, x3, x4, x5, x6, x7, x8, x9, x10, x11, x12, x13, x14, x15, x16, x17,
          x18, x19, x20, x21, x22, x23, x24, x25, x26

others == <<x1, x2, x3, x4, x5, x6, x7, x8, x9, x10, x11, x12, x13, x14, x15, x16, x17,
          x18, x19, x20, x21, x22, x23, x24, x25, x26>>

\* The worker threads of an executor are alike.
WorkerSymmetry == Permutations({w1, w2})

-----------------------------------------------------------------------------

\* Two tasks of which one fits at a time.
TaskBytes == [plain |-> 2, timed |-> 1]
Executor == INSTANCE TaskExecutor WITH
  Tasks <- {"plain", "timed"}, Workers <- {w1, w2}, Coordinator <- "coordinator", MaxPending <- 2, MaxRetained <- 2,
  Bytes <- TaskBytes, Parented <- {}, Timed <- {"timed"},
  starter <- x1, stopper <- x2, ready <- x3, stopping <- x4, joined <- x5, pc <- x6, cur <- x7, outcome <- x8,
  submission <- x9, list <- x10, stamp <- x11, phase <- x12, cancelReason <- x13, signalSent <- x14,
  registered <- x15, token <- x16, terminal <- x17, result <- x18, pending <- x19, running <- x20,
  retained <- x21, accepted <- x22, completed <- x23, expired <- x24, parentStopped <- x25, completions <- x26

\* Two workers; two tasks of one key, and one of another or a parent to stop them.
Keyed(submitted, parented, timed) == INSTANCE KeyedExecutor WITH
  Tasks <- submitted, Keys <- {"ka", "kb"}, KeyOf <- [t \in submitted |-> IF t = "b1" THEN "kb" ELSE "ka"],
  Workers <- {w1, w2}, Coordinator <- "coordinator", MaxKeys <- 2, MaxOutstanding <- 2, MaxPerKey <- 2,
  Bytes <- [t \in submitted |-> IF t = "a1" THEN 2 ELSE 1], MaxRetained <- 3, MaxRetainedPerKey <- 3,
  Parented <- parented, Timed <- timed,
  starter <- x1, stopper <- x2, ready <- x3, stopping <- x4, pc <- x5, cur <- x6, outcome <- x7, submission <- x8,
  tasks <- x9, keys <- x10, readyKeys <- x11, phase <- x12, cancelReason <- x13, signalSent <- x14, token <- x15,
  result <- x16, pending <- x17, running <- x18, outstanding <- x19, retained <- x20, expired <- x21,
  parentStopped <- x22, delivered <- x23

\* Two subscriptions race for one slot of a signal; two threads complete it.
Completion == INSTANCE CompletionSubscription WITH
  Subs <- {"s1", "s2"}, Producers <- {"p1", "p2"}, Capacity <- 1,
  ready <- x1, slots <- x2, taken <- x3, at <- x4, own <- x5, done <- x6, by <- x7, capture <- x8,
  runs <- x9, code <- x10, stopped <- x11, stopper <- x12

\* JobRunner: two application jobs, of which one is large, a reservation and two
\* control jobs.
MCJobBytes == [a1 |-> 1, a2 |-> 2, r1 |-> 1, c1 |-> 1, c2 |-> 1]
MCOptions == << [jobs |-> 2, bytes |-> 2, controlJobs |-> 1, controlBytes |-> 2],
                [jobs |-> 3, bytes |-> 3, controlJobs |-> 1, controlBytes |-> 1] >>

\* BoundedChannel: messages of which one is large, and two writers that want
\* different room.
MCBytes == [m1 |-> 1, m2 |-> 1, m3 |-> 2]
MCWaitBytes == [r1 |-> 1, w1 |-> 1, w2 |-> 2]

Value == INSTANCE LatestValue WITH
  Readers <- {"r1", "r2"}, Watches <- {"w1", "w2"}, MaxVersion <- 2, MaxSubscriptions <- 1,
  alive <- x1, version <- x2, closed <- x3, watchers <- x4, reader <- x5, seen <- x6, stopped <- x7,
  watch <- x8, since <- x9, firing <- x10

\* Two children that do not fit together, and callers that end the group at once.
Group(callers) == INSTANCE TaskGroup WITH
  Children <- {"c1", "c2"}, Bytes <- [c1 |-> 1, c2 |-> 2], MaxChildren <- 2, MaxRetained <- 2,
  Callers <- callers,
  group <- x1, list <- x2, child <- x3, caller <- x4, firing <- x5, late <- x6

\* A fixed-rate timer and a one-shot timer.
Timers == INSTANCE TimerScheduler WITH
  Timers <- {"t1", "t2"}, Interval <- [t1 |-> 2, t2 |-> 0], FixedRate <- {"t1"}, Dues <- {0, 1},
  Bytes <- [t1 |-> 1, t2 |-> 2], MaxTimers <- 2, MaxRetained <- 3, Refusals <- 1, Reschedules <- 1,
  MaxClock <- 2, Never <- 5,
  sched <- x1, timers <- x2, timer <- x3, worker <- x4, now <- x5, stopper <- x6, budget <- x7

Periodic(end) == INSTANCE PeriodicRunner WITH
  Stoppers <- {"s1", "s2"}, Period <- 2, MaxClock <- end, Epoch <- 2, MaxCalls <- 2,
  runner <- x1, due <- x2, posted <- x3, queue <- x4, target <- x5, caller <- x6, clock <- x7,
  next <- x8, metrics <- x9, loop <- x10, stopped <- x11

ASSUME Completion!CompletionAssumption
ASSUME Value!LatestValueAssumption

-----------------------------------------------------------------------------

From8 == x8 = 0 /\ x9 = 0 /\ x10 = 0
From11 == x11 = 0 /\ x12 = 0
From24 == x24 = 0 /\ x25 = 0 /\ x26 = 0
From14 ==
  /\ x14 = 0 /\ x15 = 0 /\ x16 = 0 /\ x17 = 0 /\ x18 = 0 /\ x19 = 0 /\ x20 = 0 /\ x21 = 0 /\ x22 = 0 /\ x23 = 0
  /\ From24
From13 == x13 = 0 /\ From14

InitOthers ==
  \/ part = "executor" /\ Executor!Init
  \/ part = "keys" /\ Keyed({"a1", "a2", "b1"}, {}, {})!Init /\ From24
  \/ part = "stopped keys" /\ Keyed({"a1", "a2"}, {"a1"}, {"a2"})!Init /\ From24
  \/ part = "completion" /\ Completion!Init /\ From13
  \/ part = "value" /\ Value!Init /\ From11 /\ From13
  \/ part = "cancelled group" /\ Group({"stop", "cancel"})!Init /\ x7 = 0 /\ From8 /\ From11 /\ From13
  \/ part = "closed group" /\ Group({"stop", "close"})!Init /\ x7 = 0 /\ From8 /\ From11 /\ From13
  \/ part = "timers" /\ Timers!Init /\ From8 /\ From11 /\ From13
  \/ part = "periodic" /\ Periodic(7)!Init /\ x12 = 0 /\ From13
  \/ part = "ticks" /\ Periodic(12)!Init /\ x12 = 0 /\ From13

after23 == <<x24, x25, x26>>
after13 == <<x14, x15, x16, x17, x18, x19, x20, x21, x22, x23, after23>>
after12 == <<x13, after13>>
after10 == <<x11, x12, after12>>
after7 == <<x8, x9, x10, after10>>

NextOthers ==
  \/ part = "executor" /\ Executor!Next /\ UNCHANGED part
  \/ part = "keys" /\ Keyed({"a1", "a2", "b1"}, {}, {})!Next /\ UNCHANGED <<part, after23>>
  \/ part = "stopped keys" /\ Keyed({"a1", "a2"}, {"a1"}, {"a2"})!Next /\ UNCHANGED <<part, after23>>
  \/ part = "completion" /\ Completion!Next /\ UNCHANGED <<part, after12>>
  \/ part = "value" /\ Value!Next /\ UNCHANGED <<part, after10>>
  \/ part = "cancelled group" /\ Group({"stop", "cancel"})!Next /\ UNCHANGED <<part, x7, after7>>
  \/ part = "closed group" /\ Group({"stop", "close"})!Next /\ UNCHANGED <<part, x7, after7>>
  \/ part = "timers" /\ Timers!Next /\ UNCHANGED <<part, after7>>
  \/ part = "periodic" /\ Periodic(7)!PeriodStep /\ UNCHANGED <<part, x12, after12>>
  \/ part = "ticks" /\ Periodic(12)!TickStep /\ UNCHANGED <<part, x12, after12>>

MCInit ==
  /\ RunnerInit /\ Init
  /\ \/ InitOthers
     \/ part \in {"runner", "channel"} /\ x1 = 0 /\ x2 = 0 /\ x3 = 0 /\ x4 = 0 /\ x5 = 0 /\ x6 = 0 /\ x7 = 0
        /\ From8 /\ From11 /\ From13

MCNext ==
  \/ part = "runner" /\ RunnerNext /\ UNCHANGED <<part, vars, others>>
  \/ part = "channel" /\ Next /\ UNCHANGED <<part, runnerVars, others>>
  \/ NextOthers /\ UNCHANGED <<runnerVars, vars>>

MCSpec == MCInit /\ [][MCNext]_<<part, runnerVars, vars, others>>

-----------------------------------------------------------------------------
(* The properties are those of the modules, each for its part.             *)

\* ExecutorsAreExact.  TaskExecutor: with several workers and a byte limit that
\* one of two tasks fills, the counters and the bytes are those of the tasks.
\* KeyedExecutor: two tasks of a key never run at once; a key with work is
\* queued for a worker, in a worker's hands or about to be put back; the table
\* of keys holds exactly the keys with unfinished tasks and the bytes of those
\* tasks; and a stopped executor has retired all of them.
ExecutorsAreExact ==
  /\ part = "executor" => Executor!TypeOK /\ Executor!CountersAgree /\ Executor!BytesAreBounded
  /\ part = "keys" => Keyed({"a1", "a2", "b1"}, {}, {})!KeysAreExact
  /\ part = "stopped keys" => Keyed({"a1", "a2"}, {"a1"}, {"a2"})!KeysAreExact

\* CompletionIsExact.  CompletionSubscription: a callback runs at most once,
\* never after a Reset has returned to another thread, and when nobody can go
\* on, nobody who should have been told waits and no Reset is left waiting for
\* itself.
CompletionIsExact == part = "completion" => Completion!CompletionIsExact

\* ValueIsCurrent.  LatestValue: a reader is told Closed only after it has seen
\* the last value, and every version, Close or drop of the last handle reaches
\* each pending subscription, although pruning and publishing race.
ValueIsCurrent == part = "value" => Value!ValueIsCurrent

\* GroupIsOrderly.  TaskGroup: bytes and submissions are those of its children;
\* the signal fires, and Stop returns, only when no submission is under way and
\* every accepted task has ended; a finished group is about to be looked at
\* again by somebody, and a cancelled one has stopped the token of every child.
GroupIsOrderly ==
  /\ part = "cancelled group" => Group({"stop", "cancel"})!GroupIsOrderly
  /\ part = "closed group" => Group({"stop", "close"})!GroupIsOrderly

\* TimersAreOrderly.  TimerScheduler: a timer retires once, after its last
\* callback, and the timing thread never sleeps past a due time or a stop.
\* PeriodicRunner: no period is lost or counted twice, and Stop returns after
\* the timer thread. ScheduleTicks: every logical tick is executed or counted as
\* skipped, none early.
TimersAreOrderly ==
  /\ part = "timers" => Timers!TimersAreOrderly
  /\ part = "periodic" => Periodic(7)!PeriodicRunnerIsExact
  /\ part = "ticks" => Periodic(12)!TicksAreExact

\* What a step may never do to the order of a key, to a JobRunner reservation or
\* to a repeating timer.
StepsAreKept ==
  [][/\ part = "keys" => Keyed({"a1", "a2", "b1"}, {}, {})!StartsInKeyOrder
     /\ part = "runner" => ReservationKept
     /\ part = "timers" => Timers!RepetitionKept]_<<part, runnerVars, others>>
=============================================================================
