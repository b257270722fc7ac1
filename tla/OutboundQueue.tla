----------------------------- MODULE OutboundQueue -----------------------------
(***************************************************************************)
(* Runtime::OutboundQueue: messages staged before a transport, one pump    *)
(* that any thread may drive, a wait for transport capacity, and a wake-up *)
(* timer that is moved, scheduled anew or, when the scheduler is full,     *)
(* retried when the queue's own running timer ends.                        *)
(*                                                                         *)
(* An action is a critical section of the queue's mutex together with the  *)
(* calls up to the next one.  Due times are not kept: a pending wake-up    *)
(* may come at any time.  FinishIfReady goes with the section before it.   *)
(* A thread that gave up the pump and sets up a retry is a member of tails.*)
(***************************************************************************)
EXTENDS Integers, Sequences, SequencesExt, FiniteSetsExt

CONSTANTS
  Messages, Bytes, Key,          \* a message, its WireBytes and its latestKey
  Expiring,                      \* the messages that carry an expiry
  MaxMessages, MaxRetained, MaxPump,
  Refusals,                      \* times the scheduler answers WouldBlock
  Failures,                      \* other errors of sink, wait or scheduler
  MaxGeneration,
  None

VARIABLES
  q,        \* the flags, the generation and the charged metrics of State
  queue,    \* the list of entries
  pump,     \* the thread inside the pump: where it is, its item, ...
  capacity, \* the capacity wait: "none" or "waiting"
  timer,    \* the newest wake-up timer: its state and its generation
  retry,    \* the completion waits on that timer, and the one wakeRetry holds
  tails,    \* threads that end their Drive with a retry to set up
  caller,   \* where Enqueue of each message, BeginDrain and Close are
  fate,     \* what became of each message
  expired,  \* the messages whose expiry has passed
  budget    \* refusals and failures left

vars == <<q, queue, pump, capacity, timer, retry, tails, caller, fate, expired, budget>>

NoPump == [at |-> "none", by |-> 0, item |-> None, attempts |-> 0, retired |-> {}, continuation |-> FALSE]

Init ==
  /\ q = [pumping |-> FALSE, changed |-> FALSE, draining |-> FALSE, closed |-> FALSE,
          terminal |-> FALSE, halting |-> FALSE, halter |-> None, result |-> None,
          generation |-> 0, pending |-> 0, retained |-> 0]
  /\ queue = <<>> /\ pump = NoPump /\ capacity = "none"
  /\ timer = [st |-> "none", gen |-> 0] /\ retry = [held |-> 0, waits |-> {}]
  /\ tails = {} /\ expired = {}
  /\ caller = [c \in Messages \cup {"drain", "close"} |-> "idle"]
  /\ fate = [m \in Messages |-> None]
  /\ budget = [refusals |-> Refusals, failures |-> Failures]

SumBytes(S) == MapThenSumSet(LAMBDA m : Bytes[m], S)
Settle(S, what) == [m \in Messages |-> IF m \in S THEN what ELSE fate[m]]

ExpiryPasses(m) ==
  /\ m \in Expiring \ expired /\ expired' = expired \cup {m}
  /\ UNCHANGED <<q, queue, pump, capacity, timer, retry, tails, caller, fate, budget>>

-----------------------------------------------------------------------------
(* Drive's first section: become the pump, or leave a note.  The pump drops *)
(* the capacity wait first of all.                                          *)

Drive(state, wait, by) ==
  IF state.pumping \/ state.closed
  THEN /\ q' = [state EXCEPT !.changed = TRUE] /\ capacity' = wait /\ UNCHANGED pump
  ELSE /\ q' = [state EXCEPT !.changed = TRUE, !.pumping = TRUE] /\ capacity' = "none"
       /\ pump' = [NoPump EXCEPT !.at = "top", !.by = by]

Becomes(state) == ~(state.pumping \/ state.closed)

\* Halt's first section; a second caller returns at once.
MayHalt == ~q.terminal /\ ~q.halting

Halted(state, code, by) ==
  [state EXCEPT !.halting = TRUE, !.halter = by, !.closed = TRUE, !.changed = TRUE,
     !.result = IF state.closed THEN @ ELSE code,
     !.generation = IF @ < MaxGeneration THEN @ + 1 ELSE @]

NoRetry == [held |-> 0, waits |-> retry.waits \ {retry.held}]

\* The waits are reset and the timer is cancelled.
Halt(state, code, by) ==
  IF MayHalt
  THEN /\ q' = Halted(state, code, by) /\ capacity' = "none"
       /\ retry' = NoRetry
       /\ timer' = IF timer.st = "pending" THEN [timer EXCEPT !.st = "done"] ELSE timer
  ELSE q' = state /\ UNCHANGED <<capacity, retry, timer>>

MutantFinishable(state) ==
  ~state.terminal /\ ~state.pumping /\ ~state.halting /\ (state.closed \/ state.draining)

Finishable(state) ==
  /\ ~state.terminal /\ ~state.pumping /\ ~state.halting
  /\ state.pending = 0 /\ (state.closed \/ state.draining)

FinishIfReady(state) ==
  IF Finishable(state)
  THEN [state EXCEPT !.terminal = TRUE, !.result = IF state.closed THEN @ ELSE "Ok"]
  ELSE state

\* Every entry but the active one is discarded, each with its own sections.
HaltDiscards ==
  /\ q.halting
  /\ LET gone == ToSet(queue) \ {pump.item}
     IN  /\ queue' = SelectSeq(queue, LAMBDA m : m \notin gone)
         /\ fate' = Settle(gone, "discarded")
         /\ q' = FinishIfReady([q EXCEPT !.halting = FALSE, !.halter = None,
                     !.pending = @ - Cardinality(gone), !.retained = @ - SumBytes(gone)])
  /\ UNCHANGED <<pump, capacity, timer, retry, tails, caller, expired, budget>>

-----------------------------------------------------------------------------
(* Enqueue, BeginDrain, Close and the capacity callback.                   *)

Alike(m) == {i \in DOMAIN queue : Key[m] # None /\ Key[queue[i]] = Key[m]}

Place(m) ==
  IF Alike(m) # {}
  THEN LET i == Min(Alike(m))
       IN  /\ queue[i] # pump.item
           /\ Bytes[m] <= MaxRetained - (q.retained - Bytes[queue[i]])
           /\ queue' = [queue EXCEPT ![i] = m]
           /\ fate' = [fate EXCEPT ![queue[i]] = "replaced", ![m] = "queued"]
           /\ q' = [q EXCEPT !.retained = @ - Bytes[queue[i]] + Bytes[m],
                         !.changed = q.pumping]
  ELSE /\ q.pending < MaxMessages /\ Bytes[m] <= MaxRetained - q.retained
       /\ queue' = Append(queue, m) /\ fate' = [fate EXCEPT ![m] = "queued"]
       /\ q' = [q EXCEPT !.pending = @ + 1, !.retained = @ + Bytes[m], !.changed = q.pumping]

\* A refused message may be tried again; that is another Enqueue of it.
Enqueue(m) ==
  /\ caller[m] = "idle" /\ m \notin expired /\ ~q.closed /\ ~q.draining
  /\ Place(m)
  /\ caller' = [caller EXCEPT ![m] = "drive"]
  /\ UNCHANGED <<pump, capacity, timer, retry, tails, expired, budget>>

EnqueueDrives(m) ==
  /\ caller[m] = "drive" /\ Drive(q, capacity, 0)
  /\ caller' = [caller EXCEPT ![m] = "done"]
  /\ UNCHANGED <<queue, timer, retry, tails, fate, expired, budget>>

BeginDrain ==
  /\ caller["drain"] = "idle"
  /\ q' = [q EXCEPT !.draining = TRUE] /\ caller' = [caller EXCEPT !["drain"] = "drive"]
  /\ UNCHANGED <<queue, pump, capacity, timer, retry, tails, fate, expired, budget>>

DrainDrives ==
  /\ caller["drain"] = "drive" /\ Drive(q, capacity, 0)
  /\ caller' = [caller EXCEPT !["drain"] = "finish"]
  /\ UNCHANGED <<queue, timer, retry, tails, fate, expired, budget>>

DrainFinishes ==
  /\ caller["drain"] = "finish" /\ q' = FinishIfReady(q)
  /\ caller' = [caller EXCEPT !["drain"] = "done"]
  /\ UNCHANGED <<queue, pump, capacity, timer, retry, tails, fate, expired, budget>>

Close ==
  /\ caller["close"] = "idle" /\ Halt(q, "Cancelled", "other")
  /\ caller' = [caller EXCEPT !["close"] = "done"]
  /\ UNCHANGED <<queue, pump, tails, fate, expired, budget>>

\* Wake: the transport has room again, or its connection has failed.
CapacityWakes ==
  /\ capacity = "waiting"
  /\ \/ Drive(q, "none", 0) /\ UNCHANGED <<timer, retry, budget>>
     \/ /\ budget.failures > 0 /\ budget' = [budget EXCEPT !.failures = @ - 1]
        /\ Halt(q, "Error", "other") /\ UNCHANGED pump
  /\ UNCHANGED <<queue, tails, caller, fate, expired>>

-----------------------------------------------------------------------------
(* The pump.                                                               *)

\* Where the pump is, once it has released what it retired.
At(place) == pump.at = place /\ pump.retired = {}

PumpTop ==
  /\ At("top")
  /\ LET late == ToSet(queue) \cap expired
         rest == SelectSeq(queue, LAMBDA m : m \notin late)
         take == ~q.closed /\ rest # <<>> /\ pump.attempts < MaxPump
     IN  /\ queue' = rest /\ fate' = Settle(late, "expired")
         /\ pump' = [pump EXCEPT !.at = IF take THEN "send" ELSE "end", !.retired = late,
                       !.item = IF take THEN Head(rest) ELSE None,
                       !.continuation = ~take /\ ~q.closed /\ rest # <<>>]
         /\ q' = [q EXCEPT !.changed = FALSE]
  /\ UNCHANGED <<capacity, timer, retry, tails, caller, expired, budget>>

Released == [q EXCEPT !.pending = @ - Cardinality(pump.retired), !.retained = @ - SumBytes(pump.retired)]

\* Release: the payloads are gone before they are uncharged.
PumpReleases ==
  /\ pump.retired # {}
  /\ q' = Released /\ pump' = [pump EXCEPT !.retired = {}]
  /\ UNCHANGED <<queue, capacity, timer, retry, tails, caller, fate, expired, budget>>

AfterSend(code) == CASE code = "Ok" -> "top" [] code = "WouldBlock" -> "full" [] OTHER -> "fail"

PumpSends ==
  /\ At("send")
  /\ \E code \in {"Ok", "WouldBlock"} \cup (IF budget.failures > 0 THEN {"Error"} ELSE {}) :
       LET gone == IF code = "Ok" \/ q.closed THEN {pump.item} ELSE {}
       IN  /\ queue' = SelectSeq(queue, LAMBDA m : m \notin gone)
           /\ fate' = Settle(gone, IF code = "Ok" THEN "sent" ELSE "discarded")
           /\ pump' = [pump EXCEPT !.at = AfterSend(code), !.attempts = @ + 1,
                         !.item = None, !.retired = gone]
           /\ budget' = [budget EXCEPT !.failures = IF code = "Error" THEN @ - 1 ELSE @]
  /\ UNCHANGED <<q, capacity, timer, retry, tails, caller, expired>>

\* A failed send halts the queue and ends the loop.
PumpFails ==
  /\ At("fail") /\ Halt(q, "Error", "pump")
  /\ pump' = [pump EXCEPT !.at = "halted"]
  /\ UNCHANGED <<queue, tails, caller, fate, expired, budget>>

PumpAfterHalt ==
  /\ pump.at = "halted" /\ ~(q.halting /\ q.halter = "pump")
  /\ pump' = [pump EXCEPT !.at = "end"]
  /\ UNCHANGED <<q, queue, capacity, timer, retry, tails, caller, fate, expired, budget>>

\* WouldBlock: wait for capacity; the callback may come before it is stored.
PumpWaits ==
  /\ At("full")
  /\ \/ /\ q.closed /\ pump' = [pump EXCEPT !.at = "end"] /\ UNCHANGED <<capacity, budget>>
     \/ /\ ~q.closed /\ pump' = [pump EXCEPT !.at = "store"] /\ capacity' = "waiting"
        /\ UNCHANGED budget
     \/ /\ ~q.closed /\ budget.failures > 0 /\ budget' = [budget EXCEPT !.failures = @ - 1]
        /\ pump' = [pump EXCEPT !.at = "fail"] /\ UNCHANGED capacity
  /\ UNCHANGED <<q, queue, timer, retry, tails, caller, fate, expired>>

\* A change while the wait was set up tries again.
PumpStores ==
  /\ pump.at = "store"
  /\ pump' = [pump EXCEPT !.at = IF q.changed THEN "top" ELSE "end"]
  /\ capacity' = IF q.closed \/ q.changed THEN "none" ELSE capacity
  /\ UNCHANGED <<q, queue, timer, retry, tails, caller, fate, expired, budget>>

\* The pump is given up; its changed flag is not read before the next Drive sets it.
Unpumped == [q EXCEPT !.pumping = FALSE, !.changed = FALSE]

\* The callback of the queue's timer returns with the Drive it called.
CallbackReturns(by) ==
  timer' = IF by = 0 \/ timer.gen # by THEN timer
           ELSE [timer EXCEPT !.st = IF retry.waits = {} THEN "done" ELSE "ended"]

NeedsWake ==
  ~q.closed /\ (pump.continuation \/ q.changed \/ ToSet(queue) \cap Expiring # {})

MutantPumpEnds ==
  /\ At("end")
  /\ pump' = NoPump /\ q' = FinishIfReady(Unpumped) /\ CallbackReturns(pump.by)
  /\ UNCHANGED <<queue, capacity, retry, tails, caller, fate, expired, budget>>

\* No next time: the pump is given up in the section that found nothing to do.
PumpEnds ==
  /\ At("end")
  /\ IF NeedsWake
     THEN pump' = [pump EXCEPT !.at = "arm"] /\ UNCHANGED <<q, timer>>
     ELSE pump' = NoPump /\ q' = FinishIfReady(Unpumped) /\ CallbackReturns(pump.by)
  /\ UNCHANGED <<queue, capacity, retry, tails, caller, fate, expired, budget>>

-----------------------------------------------------------------------------
(* Arm, the retry of a refused wake-up, and the timer.                     *)

NextGeneration == [Unpumped EXCEPT !.generation = @ + 1]

ArmMoves ==
  /\ pump.at = "arm" /\ (q.closed \/ timer.st = "pending")
  /\ q' = FinishIfReady(Unpumped) /\ pump' = NoPump /\ CallbackReturns(pump.by)
  /\ UNCHANGED <<queue, capacity, retry, tails, caller, fate, expired, budget>>

ArmAnew == pump.at = "arm" /\ ~q.closed /\ timer.st # "pending" /\ q.generation < MaxGeneration

ArmSchedules ==
  /\ ArmAnew
  /\ q' = FinishIfReady(NextGeneration) /\ pump' = NoPump
  /\ timer' = [st |-> "pending", gen |-> q.generation + 1]
  /\ UNCHANGED <<queue, capacity, retry, tails, caller, fate, expired, budget>>

Unfinished == timer.st \in {"running", "ended"}

\* The scheduler is full: the queue's own timer, while it runs, will free a slot.
ArmDefers ==
  /\ ArmAnew /\ Unfinished
  /\ budget.refusals > 0 /\ budget' = [budget EXCEPT !.refusals = @ - 1]
  /\ q' = NextGeneration /\ pump' = NoPump
  /\ tails' = tails \cup {[at |-> "subscribe", by |-> pump.by, gen |-> q.generation + 1]}
  /\ UNCHANGED <<queue, capacity, timer, retry, caller, fate, expired>>

\* No timer of its own, or another error: the queue ends.
ArmFails ==
  /\ ArmAnew
  /\ \/ ~Unfinished /\ budget.refusals > 0 /\ budget' = [budget EXCEPT !.refusals = @ - 1]
     \/ budget.failures > 0 /\ budget' = [budget EXCEPT !.failures = @ - 1]
  /\ pump' = NoPump /\ CallbackReturns(pump.by)
  /\ q' = IF MayHalt THEN Halted(NextGeneration, "Error", "other") ELSE NextGeneration
  /\ capacity' = IF MayHalt THEN "none" ELSE capacity
  /\ retry' = IF MayHalt THEN NoRetry ELSE retry
  /\ UNCHANGED <<queue, tails, caller, fate, expired>>

\* RetryWake schedules a wake-up now, unless the retry is out of date.
RetryWake(gen) ==
  IF q.closed \/ q.generation # gen
  THEN UNCHANGED <<q, capacity, timer, budget>>
  ELSE \/ timer' = [st |-> "pending", gen |-> gen] /\ UNCHANGED <<q, capacity, budget>>
       \/ /\ budget.refusals > 0 /\ budget' = [budget EXCEPT !.refusals = @ - 1]
          /\ q' = IF MayHalt THEN Halted(q, "Error", "other") ELSE q
          /\ capacity' = IF MayHalt THEN "none" ELSE capacity
          /\ UNCHANGED timer

\* WaitForCompletion on the running timer; it may have ended by now.
TailSubscribes(t) ==
  /\ t.at = "subscribe"
  /\ tails' = (tails \ {t}) \cup {[t EXCEPT !.at = "store"]}
  /\ IF Unfinished
     THEN /\ retry' = [retry EXCEPT !.waits = @ \cup {t.gen}]
          /\ UNCHANGED <<q, capacity, timer, budget>>
     ELSE RetryWake(t.gen) /\ UNCHANGED retry
  /\ UNCHANGED <<queue, pump, caller, fate, expired>>

\* The wait takes the place of the one wakeRetry held, which is reset.
TailStores(t) ==
  /\ t.at = "store"
  /\ retry' = [held |-> t.gen, waits |-> retry.waits \ {retry.held}]
  /\ tails' = tails \ {t}
  /\ q' = FinishIfReady(q)
  /\ timer' = IF t.by = 0 \/ timer.gen # t.by THEN timer ELSE [timer EXCEPT !.st = "ended"]
  /\ UNCHANGED <<queue, pump, capacity, caller, fate, expired, budget>>

\* The ended timer completes: its slot is free and the waits on it are called.
TimerCompletes ==
  /\ timer.st = "ended"
  /\ IF retry.waits = {}
     THEN timer' = [timer EXCEPT !.st = "done"] /\ UNCHANGED <<q, capacity, retry, budget>>
     ELSE \E gen \in retry.waits :
            retry' = [retry EXCEPT !.waits = @ \ {gen}] /\ RetryWake(gen)
  /\ UNCHANGED <<queue, pump, tails, caller, fate, expired>>

TimerFires ==
  /\ timer.st = "pending"
  /\ IF timer.gen = q.generation
     THEN /\ Drive(q, capacity, timer.gen)
          /\ timer' = [timer EXCEPT !.st = IF Becomes(q) THEN "running" ELSE "done"]
     ELSE timer' = [timer EXCEPT !.st = "done"] /\ UNCHANGED <<q, capacity, pump>>
  /\ UNCHANGED <<queue, retry, tails, caller, fate, expired, budget>>

-----------------------------------------------------------------------------
Pump == PumpTop \/ PumpReleases \/ PumpSends \/ PumpFails \/ PumpAfterHalt \/ PumpWaits
          \/ PumpStores \/ PumpEnds \/ ArmMoves \/ ArmSchedules \/ ArmDefers \/ ArmFails

Next ==
  \/ Pump \/ HaltDiscards \/ TimerFires \/ TimerCompletes \/ CapacityWakes
  \/ BeginDrain \/ DrainDrives \/ DrainFinishes \/ Close
  \/ \E m \in Messages : Enqueue(m) \/ EnqueueDrives(m) \/ ExpiryPasses(m)
  \/ \E t \in tails : TailSubscribes(t) \/ TailStores(t)

Spec == Init /\ [][Next]_vars

-----------------------------------------------------------------------------
(* Properties.                                                             *)

TypeOK ==
  /\ q.pending \in 0..MaxMessages /\ q.retained \in 0..MaxRetained
  /\ capacity \in {"none", "waiting"} /\ q.generation \in 0..MaxGeneration
  /\ timer.st \in {"none", "pending", "running", "ended", "done"}

\* OutboundIsExact.  The charged count and bytes are those of the entries that are
\* queued or not yet released; the item being sent is still the head of the queue,
\* so what the transport has taken can never be replaced; and a queue that has
\* ended holds nothing, sends nothing more, and ended with Ok only if nothing was
\* discarded (OutboundQueue.h: "Accepted transport bytes are removed here and can
\* NEVER be replaced").
OutboundIsExact ==
  /\ TypeOK
  /\ q.pending = Len(queue) + Cardinality(pump.retired)
  /\ q.retained = SumBytes(ToSet(queue) \cup pump.retired)
  /\ pump.item # None => queue # <<>> /\ Head(queue) = pump.item
  /\ \A m \in Messages : (fate[m] = "queued") = Contains(queue, m)
  /\ q.terminal =>
       /\ queue = <<>> /\ pump.at # "send" /\ q.pending = 0 /\ ~q.halting
       /\ q.result = "Ok" => \A m \in Messages : fate[m] # "discarded"

\* A thread that will drive or re-arm the queue.
DriverComes ==
  \/ timer.st = "pending" /\ timer.gen = q.generation
  \/ q.generation \in retry.waits
  \/ \E t \in tails : t.at = "subscribe" /\ t.gen = q.generation
  \/ \E c \in Messages \cup {"drain"} : caller[c] = "drive"

\* NoWakeForgotten.  While no thread is in the pump, a queue with messages has a
\* capacity wait or a wake-up to come, a queue with expiries has a wake-up to come
\* whatever the capacity, and a drained or closed queue with nothing left has a
\* thread that will end it.  (OutboundQueue::State::Arm: a refused wake-up is set
\* again when the running timer returns its slot.)
NoWakeForgotten ==
  /\ ~q.closed /\ ~q.pumping /\ queue # <<>> => capacity = "waiting" \/ DriverComes
  /\ ~q.closed /\ ~q.pumping /\ ToSet(queue) \cap Expiring # {} => DriverComes
  /\ Finishable(q) => DriverComes \/ caller["drain"] = "finish" \/ tails # {}

\* OutboundIsOrderly.  The queue, all in all.
OutboundIsOrderly == OutboundIsExact /\ NoWakeForgotten
=============================================================================
