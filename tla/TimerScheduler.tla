---------------------------- MODULE TimerScheduler ----------------------------
(***************************************************************************)
(* Runtime::TimerScheduler: one timing thread that dispatches due timers   *)
(* to a TaskExecutor, rearms repeating ones and retires the others.        *)
(*                                                                         *)
(* Time is a small clock; Never stands for time_point::max().  An action   *)
(* is one critical section of the scheduler's mutex with the work the      *)
(* timing thread does after it, where nobody can see the difference.       *)
(***************************************************************************)
EXTENDS Integers, Sequences, SequencesExt, FiniteSetsExt

CONSTANTS
  Timers,                  \* one element per call of Schedule
  Interval,                \* repeatInterval, 0 for a one-shot timer
  FixedRate,               \* the timers with TimerRepeatMode::FixedRate
  Dues,                    \* the times a timer may be set to
  Bytes, MaxTimers, MaxRetained,
  Refusals,                \* times the executor answers WouldBlock
  Reschedules,             \* calls of Reschedule that change a timer
  MaxClock, Never,
  None

VARIABLES
  sched,      \* started, ready, stopping, retained and saturatedUntil
  timers,     \* the list of timers
  timer,      \* the members of each timer and the state of its task
  worker,     \* where the timing thread is, its selection and its nextWake
  now,        \* the clock
  stopper,    \* where Stop is
  budget      \* refusals and reschedules still to come

vars == <<sched, timers, timer, worker, now, stopper, budget>>

Init ==
  /\ sched = [started |-> FALSE, ready |-> FALSE, stopping |-> FALSE, retained |-> 0,
              saturatedUntil |-> 0]
  /\ timers = <<>>
  /\ timer = [t \in Timers |-> [life |-> "new", due |-> 0, cancelled |-> FALSE,
                signalSent |-> FALSE, inFlight |-> FALSE, ready |-> FALSE, code |-> "Ok",
                retiring |-> FALSE, task |-> "none", token |-> FALSE, result |-> None]]
  /\ worker = [at |-> "none", sel |-> None, code |-> None, wakeAt |-> Never]
  /\ now = 0 /\ stopper = "idle"
  /\ budget = [refusals |-> Refusals, reschedules |-> Reschedules]

\* wake.notify_all().
Idle == [at |-> "loop", sel |-> None, code |-> None, wakeAt |-> Never]
Woken == IF worker.at = "waiting" THEN Idle ELSE worker

Tick ==
  /\ now < MaxClock /\ now' = now + 1
  /\ worker' = IF worker.wakeAt <= now + 1 THEN Woken ELSE worker
  /\ UNCHANGED <<sched, timers, timer, stopper, budget>>

Start ==
  /\ ~sched.started /\ ~sched.stopping
  /\ \/ /\ sched' = [sched EXCEPT !.started = TRUE, !.ready = TRUE]
        /\ worker' = Idle
     \/ /\ sched' = [sched EXCEPT !.started = TRUE, !.stopping = TRUE]   \* no thread
        /\ UNCHANGED worker
  /\ UNCHANGED <<timers, timer, now, stopper, budget>>

-----------------------------------------------------------------------------
(* Schedule, RequestCancel, Reschedule, RequestStop and Stop.              *)

Admissible(t) ==
  /\ sched.ready /\ ~sched.stopping /\ Len(timers) < MaxTimers
  /\ Bytes[t] <= MaxRetained - sched.retained

\* A parent token that was stopped already has cancelled the timer by now.
Schedule(t) ==
  /\ timer[t].life = "new"
  /\ \/ /\ Admissible(t)
        /\ \E d \in Dues, cancelled \in BOOLEAN :
             timer' = [timer EXCEPT ![t].life = "listed", ![t].due = d, ![t].cancelled = cancelled]
        /\ timers' = Append(timers, t)
        /\ sched' = [sched EXCEPT !.retained = @ + Bytes[t]] /\ worker' = Woken
     \/ /\ ~Admissible(t) /\ timer' = [timer EXCEPT ![t].life = "rejected"]
        /\ UNCHANGED <<sched, timers, worker>>
  /\ UNCHANGED <<now, stopper, budget>>

\* Cancel, from the handle or from the parent's token.
Cancel(t) ==
  /\ timer[t].life = "listed" /\ ~timer[t].cancelled /\ ~timer[t].retiring
  /\ timer' = [timer EXCEPT ![t].cancelled = TRUE] /\ worker' = Woken
  /\ UNCHANGED <<sched, timers, now, stopper, budget>>

\* Only a pending timer moves.
Reschedule(t, d) ==
  /\ timer[t].life = "listed" /\ budget.reschedules > 0 /\ d # timer[t].due
  /\ ~sched.stopping /\ ~timer[t].cancelled /\ ~timer[t].retiring
  /\ ~timer[t].inFlight /\ ~timer[t].ready
  /\ timer' = [timer EXCEPT ![t].due = d] /\ worker' = Woken
  /\ budget' = [budget EXCEPT !.reschedules = @ - 1]
  /\ UNCHANGED <<sched, timers, now, stopper>>

RequestStop ==
  /\ stopper = "idle"
  /\ sched' = [sched EXCEPT !.stopping = TRUE]
  /\ timer' = [t \in Timers |-> IF Contains(timers, t)
                                THEN [timer[t] EXCEPT !.cancelled = TRUE] ELSE timer[t]]
  /\ worker' = Woken /\ stopper' = "joining"
  /\ UNCHANGED <<timers, now, budget>>

\* The join of the timing thread, and the executor is let go.
Stop ==
  /\ stopper = "joining" /\ worker.at \in {"none", "exited"}
  /\ stopper' = "stopped" /\ sched' = [sched EXCEPT !.ready = FALSE]
  /\ UNCHANGED <<timers, timer, worker, now, budget>>

-----------------------------------------------------------------------------
(* The arithmetic of repetition.                                           *)

After(time, interval) == IF interval > Never - time THEN Never ELSE time + interval

MutantNextSlot(served, interval) == After(now, interval)

\* The next point of the grid, or the last one that has passed already.
NextSlot(served, interval) ==
  LET next == After(served, interval)
  IN  IF next > now \/ next = Never THEN next
      ELSE served + ((now - served) \div interval) * interval

-----------------------------------------------------------------------------
(* Run: one pass over the list under the mutex.                            *)

Repeats(t) == ~timer[t].cancelled /\ timer[t].code = "Ok" /\ Interval[t] > 0

\* What the pass makes of a timer whose task was reported.
Settled(t) ==
  IF ~(timer[t].inFlight /\ timer[t].ready) THEN timer[t]
  ELSE IF ~Repeats(t) THEN [timer[t] EXCEPT !.inFlight = FALSE]
  ELSE [timer[t] EXCEPT !.inFlight = FALSE, !.ready = FALSE,
          !.due = IF t \in FixedRate THEN NextSlot(timer[t].due, Interval[t])
                  ELSE After(now, Interval[t])]

Signals(t) == timer[t].cancelled /\ ~timer[t].signalSent
MutantRetires(t) == timer[t].cancelled \/ Settled(t).ready

\* A timer in flight is never retired.
Retires(t) == ~Settled(t).inFlight /\ (timer[t].cancelled \/ Settled(t).ready)

Stops == {i \in DOMAIN timers : Signals(timers[i]) \/ Retires(timers[i])}
SettledBefore(i) == {timers[j] : j \in 1..(i - 1)}
SettleAll(S) == [t \in Timers |-> IF t \in S THEN Settled(t) ELSE timer[t]]

\* The first timer to signal or to retire ends the pass; those before it are settled.
SelectUrgent ==
  /\ worker.at = "loop" /\ Stops # {}
  /\ LET i == Min(Stops)
         t == timers[i]
         passed == SettleAll(SettledBefore(i))
     IN  IF Signals(t)
         THEN /\ timer' = [passed EXCEPT ![t].signalSent = TRUE]
              /\ worker' = [worker EXCEPT !.at = "signal", !.sel = t]
         ELSE /\ timer' = [passed EXCEPT ![t] = [Settled(t) EXCEPT !.retiring = TRUE]]
              /\ worker' = [worker EXCEPT !.at = "retire", !.sel = t,
                              !.code = IF timer[t].cancelled THEN "Cancelled" ELSE timer[t].code]
  /\ UNCHANGED <<sched, timers, now, stopper, budget>>

Listed == ToSet(timers)
DueNow == {t \in Listed : ~Settled(t).inFlight /\ Settled(t).due <= now}
Later == {t \in Listed : ~Settled(t).inFlight /\ Settled(t).due > now}
Position(t) == CHOOSE i \in DOMAIN timers : timers[i] = t
Earliest == CHOOSE t \in DueNow : \A u \in DueNow :
              \/ Settled(t).due < Settled(u).due
              \/ Settled(t).due = Settled(u).due /\ Position(t) <= Position(u)

SelectDue ==
  /\ worker.at = "loop" /\ Stops = {} /\ DueNow # {} /\ now >= sched.saturatedUntil
  /\ LET t == Earliest
     IN  /\ timer' = [SettleAll(Listed) EXCEPT ![t].inFlight = TRUE, ![t].ready = FALSE]
         /\ worker' = [worker EXCEPT !.at = "dispatch", !.sel = t]
  /\ UNCHANGED <<sched, timers, now, stopper, budget>>

MutantNextWake == Min({Never} \cup {Settled(t).due : t \in Later})

NextWake ==
  Min({Never} \cup {Settled(t).due : t \in Later}
        \cup (IF DueNow # {} THEN {sched.saturatedUntil} ELSE {}))

WaitForWake ==
  /\ worker.at = "loop" /\ Stops = {} /\ ~(sched.stopping /\ timers = <<>>)
  /\ DueNow = {} \/ now < sched.saturatedUntil
  /\ timer' = SettleAll(Listed)
  /\ worker' = [worker EXCEPT !.at = "waiting", !.wakeAt = NextWake]
  /\ UNCHANGED <<sched, timers, now, stopper, budget>>

Exit ==
  /\ worker.at = "loop" /\ sched.stopping /\ timers = <<>>
  /\ worker' = [worker EXCEPT !.at = "exited"]
  /\ UNCHANGED <<sched, timers, timer, now, stopper, budget>>

-----------------------------------------------------------------------------
(* What the timing thread does outside the mutex.                          *)

Signal ==
  /\ worker.at = "signal"
  /\ timer' = [timer EXCEPT ![worker.sel].token = TRUE]
  /\ worker' = Idle
  /\ UNCHANGED <<sched, timers, now, stopper, budget>>

\* WouldBlock leaves the due time and stops all dispatches for a while.
DispatchRefused(t) ==
  /\ timer' = [timer EXCEPT ![t].inFlight = FALSE, ![t].code = "Ok"]
  /\ sched' = [sched EXCEPT !.saturatedUntil = After(now, 1)]

\* TaskExecutor::Submit accepts, is full, or fails.
Dispatch ==
  /\ worker.at = "dispatch"
  /\ LET t == worker.sel
     IN  \/ timer' = [timer EXCEPT ![t].task = "live"] /\ UNCHANGED <<sched, budget>>
         \/ /\ budget.refusals > 0 /\ now < MaxClock
            /\ DispatchRefused(t) /\ budget' = [budget EXCEPT !.refusals = @ - 1]
         \/ /\ timer' = [timer EXCEPT ![t].inFlight = FALSE, ![t].ready = TRUE, ![t].code = "Error"]
            /\ UNCHANGED <<sched, budget>>
  /\ worker' = Idle
  /\ UNCHANGED <<timers, now, stopper>>

\* The captures are gone; then the list, the budget and the result.
Retire ==
  /\ worker.at = "retire"
  /\ LET t == worker.sel
     IN  /\ timers' = Remove(timers, t)
         /\ sched' = [sched EXCEPT !.retained = @ - Bytes[t]]
         /\ timer' = [timer EXCEPT ![t].life = "terminal", ![t].result = worker.code]
  /\ worker' = Idle
  /\ UNCHANGED <<now, stopper, budget>>

-----------------------------------------------------------------------------
(* The executor runs the task, or cancels it while it is queued, and the   *)
(* completion callback that Dispatch attached reports how it ended.        *)

TaskReports(t) ==
  /\ timer[t].task = "live"
  /\ \E code \in {"Ok", "Error"} \cup (IF timer[t].token THEN {"Cancelled"} ELSE {}) :
       timer' = [timer EXCEPT ![t].task = "none", ![t].ready = TRUE, ![t].code = code]
  /\ worker' = Woken
  /\ UNCHANGED <<sched, timers, now, stopper, budget>>

-----------------------------------------------------------------------------
Worker == SelectUrgent \/ SelectDue \/ WaitForWake \/ Exit \/ Signal \/ Dispatch \/ Retire

Stopped == stopper = "stopped" /\ UNCHANGED vars

Next ==
  \/ Tick \/ Start \/ RequestStop \/ Stop \/ Worker \/ Stopped
  \/ \E t \in Timers : \/ Schedule(t) \/ Cancel(t) \/ TaskReports(t)
                       \/ \E d \in Dues : Reschedule(t, d)

Spec == Init /\ [][Next]_vars

-----------------------------------------------------------------------------
(* Properties.                                                             *)

Live(t) == timer[t].task # "none"

TypeOK ==
  /\ sched.retained \in 0..MaxRetained /\ Len(timers) <= MaxTimers /\ IsInjective(timers)
  /\ \A t \in Timers : timer[t].due \in 0..Never
  /\ worker.at \in {"none", "loop", "waiting", "signal", "dispatch", "retire", "exited"}

\* TimersRetireQuietly.  A timer has at most one task at the executor, and none
\* once its captures are being destroyed, whichever of completion, cancellation
\* and stop came first; every listed timer stays charged until it is retired, and
\* when Stop returns every timer has its result and the executor holds none of
\* their callbacks (TimerScheduler.h: "stop cancels pending timers and joins
\* after active callbacks/captures retire").
TimersRetireQuietly ==
  /\ TypeOK
  /\ \A t \in Timers : Live(t) => timer[t].inFlight /\ ~timer[t].retiring /\ t \in Listed
  /\ sched.retained = MapThenSumSet(LAMBDA t : Bytes[t], Listed)
  /\ stopper = "stopped" =>
       \A t \in Timers : timer[t].life \in {"terminal", "rejected", "new"} /\ ~Live(t)

\* NoTimerForgotten.  The timing thread does not sleep while there is a timer to
\* signal, to retire or to dispatch, or when it should leave: no completion,
\* cancellation, earlier due time or end of a saturated spell is missed.
NoTimerForgotten ==
  worker.at = "waiting" =>
    /\ Stops = {} /\ (DueNow = {} \/ now < sched.saturatedUntil)
    /\ ~(sched.stopping /\ timers = <<>>)
    /\ \A t \in Later : worker.wakeAt <= Settled(t).due
    /\ DueNow # {} => worker.wakeAt <= sched.saturatedUntil

\* RepetitionsAreKept.  A fixed-rate timer moves along its grid, never serves a
\* point twice and lets at most one missed point wait, even when the executor
\* refused it; a timer that was cancelled while nothing was in flight never
\* starts again.
RepetitionKept ==
  \A t \in Timers :
    /\ timer[t].inFlight /\ ~timer'[t].inFlight /\ timer'[t].due # timer[t].due /\ t \in FixedRate =>
         /\ timer'[t].due > timer[t].due
         /\ timer'[t].due = Never \/ (timer'[t].due - timer[t].due) % Interval[t] = 0
         /\ timer'[t].due > now - Interval[t]
    /\ timer[t].cancelled /\ ~timer[t].inFlight => timer'[t].task = "none"
RepetitionsAreKept == [][RepetitionKept]_vars

\* TimersAreOrderly.  The scheduler's states, all in all.
TimersAreOrderly == TimersRetireQuietly /\ NoTimerForgotten
=============================================================================
