---------------------------- MODULE PeriodicRunner ----------------------------
(***************************************************************************)
(* Runtime::PeriodicRunner: a timer thread that posts one callback per     *)
(* period to a JobRunner, with at most one outstanding, and a Stop that    *)
(* may be called by several threads.  The mutex is held by the timer       *)
(* thread except while it waits, so a wake-up with what follows is one     *)
(* action.                                                                 *)
(*                                                                         *)
(* Runtime::ScheduleTicks, of TickRunner.cpp: the callback given to a      *)
(* fixed-rate timer, which turns the time it really runs at into logical   *)
(* ticks.  The timer may call it at any time, never twice at once.         *)
(*                                                                         *)
(* The two have only the clock in common.                                  *)
(***************************************************************************)
EXTENDS Integers, FiniteSetsExt

CONSTANTS
  Stoppers, Period, MaxClock,
  Epoch, MaxCalls   \* of ScheduleTicks: the first logical time, the calls of one invocation

VARIABLES
  runner,     \* the members of State, and the time the timer thread began
  due,        \* nextDue
  posted,     \* callbacks given to the JobRunner so far
  queue,      \* what the JobRunner holds of ours: "none", "queued", "running"
  target,     \* the JobRunner: "open", "full" or "stopped"
  caller,     \* where each Stop is
  clock,
  next,       \* the logical ticks disposed of
  metrics,    \* executed and skipped
  loop,       \* the invocation: the time it read, the calls left, the result
  stopped     \* the token

periodVars == <<runner, due, posted, queue, target, caller>>
tickVars == <<next, metrics, loop, stopped>>
vars == <<periodVars, clock, tickVars>>

Idle == [left |-> 0, actual |-> 0, ok |-> TRUE, number |-> 0]

Init ==
  /\ runner = [started |-> FALSE, stopRequested |-> FALSE, running |-> FALSE, joining |-> FALSE,
               joinable |-> FALSE, outstanding |-> FALSE, lease |-> TRUE, skipped |-> 0, epoch |-> 0]
  /\ due = 0 /\ posted = 0 /\ queue = "none" /\ target = "open"
  /\ caller = [s \in Stoppers |-> "idle"] /\ clock = 0
  /\ next = 0 /\ metrics = [executed |-> 0, skipped |-> 0] /\ loop = Idle /\ stopped = FALSE

Tick == clock < MaxClock /\ clock' = clock + 1 /\ UNCHANGED <<periodVars, tickVars>>

\* The JobRunner fills up, drains or stops by itself.
TargetChanges ==
  /\ target # "stopped" /\ target' \in {"open", "full", "stopped"} \ {target}
  /\ UNCHANGED <<runner, due, posted, queue, caller, clock>>

\* A thread that cannot be created leaves no trace.
Start ==
  /\ ~runner.started /\ ~runner.stopRequested /\ runner.lease /\ target # "stopped"
  /\ runner' = [runner EXCEPT !.started = TRUE, !.running = TRUE, !.joinable = TRUE]
  /\ UNCHANGED <<due, posted, queue, target, caller, clock>>

-----------------------------------------------------------------------------
(* RunTimer.                                                               *)

TimerBegins ==
  /\ runner.running /\ due = 0
  /\ due' = clock + Period /\ runner' = [runner EXCEPT !.epoch = clock]
  /\ UNCHANGED <<posted, queue, target, caller, clock>>

Sleeps == runner.running /\ due # 0 /\ ~runner.stopRequested

Late == clock - due

MutantPeriodsLate == Late \div Period

\* fullPeriodsLate + 1: the period that was due and those missed since.
PeriodsLate == Late \div Period + 1

NextAfterLate == clock + (IF Late % Period = 0 THEN Period ELSE Period - (Late % Period))

SkipLate ==
  /\ Sleeps /\ clock >= due /\ Late >= Period
  /\ runner' = [runner EXCEPT !.skipped = @ + PeriodsLate]
  /\ due' = NextAfterLate
  /\ UNCHANGED <<posted, queue, target, caller, clock>>

OnTime == Sleeps /\ clock >= due /\ Late < Period

SkipOutstanding ==
  /\ OnTime /\ runner.outstanding
  /\ runner' = [runner EXCEPT !.skipped = @ + 1]
  /\ due' = due + Period
  /\ UNCHANGED <<posted, queue, target, caller, clock>>

\* A closed JobRunner ends the timer; any other refusal skips this period.
PostCallback ==
  /\ OnTime /\ ~runner.outstanding
  /\ due' = due + Period
  /\ IF target = "open"
     THEN /\ runner' = [runner EXCEPT !.outstanding = TRUE]
          /\ queue' = "queued" /\ posted' = posted + 1
     ELSE /\ runner' = [runner EXCEPT !.skipped = @ + 1,
                          !.stopRequested = @ \/ target = "stopped"]
          /\ UNCHANGED <<queue, posted>>
  /\ UNCHANGED <<target, caller, clock>>

TimerEnds ==
  /\ runner.running /\ due # 0 /\ runner.stopRequested
  /\ runner' = [runner EXCEPT !.running = FALSE]
  /\ UNCHANGED <<due, posted, queue, target, caller, clock>>

-----------------------------------------------------------------------------
(* The JobRunner's consumer, and Stop.                                     *)

CallbackStarts ==
  /\ queue = "queued" /\ queue' = "running"
  /\ UNCHANGED <<runner, due, posted, target, caller, clock>>

\* RunCallback, also when the callback throws.
CallbackEnds ==
  /\ queue = "running" /\ queue' = "none"
  /\ runner' = [runner EXCEPT !.outstanding = FALSE]
  /\ UNCHANGED <<due, posted, target, caller, clock>>

MutantStop(s) ==
  /\ caller[s] = "idle"
  /\ runner' = [runner EXCEPT !.stopRequested = TRUE, !.joining = @ \/ runner.joinable,
                              !.joinable = FALSE]
  /\ caller' = [caller EXCEPT ![s] = IF runner.joinable THEN "joining" ELSE "returned"]
  /\ UNCHANGED <<due, posted, queue, target, clock>>

\* One caller takes the thread to join; the others wait for it.
Stop(s) ==
  /\ caller[s] = "idle"
  /\ runner' = [runner EXCEPT !.stopRequested = TRUE, !.joining = @ \/ runner.joinable,
                              !.joinable = FALSE]
  /\ caller' = [caller EXCEPT ![s] = IF runner.joinable THEN "joining" ELSE "waiting"]
  /\ UNCHANGED <<due, posted, queue, target, clock>>

StopReturns(s) ==
  /\ \/ caller[s] = "joining" /\ ~runner.running
     \/ caller[s] = "waiting" /\ ~runner.joining
  /\ runner' = [runner EXCEPT !.lease = FALSE, !.joining = FALSE]
  /\ caller' = [caller EXCEPT ![s] = "returned"]
  /\ UNCHANGED <<due, posted, queue, target, clock>>

-----------------------------------------------------------------------------
(* ScheduleTicks.                                                          *)

RequestStop == ~stopped /\ stopped' = TRUE /\ UNCHANGED <<next, metrics, loop, clock>>

MutantDue(actual) == (actual - Epoch) \div Period + 2

\* The ticks whose logical time has come.
Due(actual) == (actual - Epoch) \div Period + 1

Invoke ==
  /\ loop.left = 0 /\ loop.ok /\ clock >= Epoch /\ Due(clock) > next
  /\ LET count == Min({Due(clock) - next, MaxCalls})
         skipped == Due(clock) - next - count
     IN  /\ loop' = [left |-> count, actual |-> clock, ok |-> TRUE, number |-> 0]
         /\ next' = next + skipped
         /\ metrics' = [metrics EXCEPT !.skipped = @ + skipped]
  /\ UNCHANGED <<clock, stopped>>

\* One call of the user's work; a failure ends the timer.
Call ==
  /\ loop.left > 0 /\ ~stopped
  /\ next' = next + 1
  /\ metrics' = [metrics EXCEPT !.executed = @ + 1]
  /\ \E ok \in BOOLEAN :
       loop' = [loop EXCEPT !.left = IF ok THEN @ - 1 ELSE 0, !.ok = ok, !.number = next + 1]
  /\ UNCHANGED <<clock, stopped>>

Cancelled ==
  /\ loop.left > 0 /\ stopped
  /\ loop' = [loop EXCEPT !.left = 0, !.ok = FALSE]
  /\ UNCHANGED <<next, metrics, clock, stopped>>

-----------------------------------------------------------------------------
Timer == TimerBegins \/ SkipLate \/ SkipOutstanding \/ PostCallback \/ TimerEnds

PeriodStep ==
  \/ Tick
  \/ /\ \/ TargetChanges \/ Start \/ Timer \/ CallbackStarts \/ CallbackEnds
        \/ \E s \in Stoppers : Stop(s) \/ StopReturns(s)
     /\ UNCHANGED tickVars

TickStep == Tick \/ ((RequestStop \/ Invoke \/ Call \/ Cancelled) /\ UNCHANGED periodVars)

Next == PeriodStep \/ TickStep

Spec == Init /\ [][Next]_vars

-----------------------------------------------------------------------------
(* Properties.                                                             *)

TypeOK ==
  /\ due \in 0..(MaxClock + 2 * Period) /\ clock \in 0..MaxClock
  /\ queue \in {"none", "queued", "running"} /\ target \in {"open", "full", "stopped"}
  /\ next \in Nat /\ loop.left \in 0..MaxCalls /\ metrics.executed \in Nat

\* PeriodicRunnerIsExact.  No period is lost or counted twice; one callback at most
\* is with the JobRunner; and when any Stop has returned, also one that found
\* another caller joining, the timer thread is gone and the lease that would keep
\* the JobRunner's queue alive is released ("worker" being empty alone is not the
\* end, PeriodicRunner::Stop says).
PeriodicRunnerIsExact ==
  /\ TypeOK
  /\ due # 0 => /\ due = runner.epoch + Period * (1 + posted + runner.skipped)
                /\ due - Period <= clock
  /\ (queue # "none") = runner.outstanding
  /\ (\E s \in Stoppers : caller[s] = "returned") => ~runner.running /\ ~runner.lease

\* TicksAreExact.  Every logical tick is executed once or counted as skipped, none
\* before its logical time, and an invocation that ends well has caught up with the
\* time it read, whatever the lag policy (TickOptions).
TicksAreExact ==
  /\ TypeOK
  /\ metrics.executed + metrics.skipped = next
  /\ loop.number > 0 => Epoch + Period * (loop.number - 1) <= clock
  /\ loop.left = 0 /\ loop.ok /\ loop.actual >= Epoch => Epoch + Period * next > loop.actual
=============================================================================
