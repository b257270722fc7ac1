----------------------------- MODULE LatestValue -----------------------------
(***************************************************************************)
(* Runtime::LatestValue: a versioned value that readers observe, each with *)
(* its own version, by polling, by blocking or by a change subscription.   *)
(* A value is the version it was published as.                             *)
(*                                                                         *)
(* One action is one critical section of State::mutex with the notify_all  *)
(* that follows it.  The subscriptions a section takes out are completed   *)
(* after the unlock, by Fire.                                              *)
(***************************************************************************)
EXTENDS Integers, Sequences, FiniteSets, SequencesExt

CONSTANTS
  Readers,             \* threads that read in a loop, each from the version it saw last
  Watches,             \* one element per WaitForChange
  MaxVersion,          \* the last version a uint64_t can hold, small here
  MaxSubscriptions

LatestValueAssumption == MaxVersion \in Nat /\ MaxSubscriptions \in Nat \ {0}

VARIABLES
  alive,               \* some handle is left
  version, closed,
  watchers,            \* State::watchers, empty once Close took the list
  reader,              \* idle, waiting, awake, or Closed once it was told so
  seen,                \* the version each reader saw last
  stopped,             \* the readers whose stop token was stopped
  watch,               \* new, refused, pending or the code a subscription was given
  since,               \* the version each subscription was made with
  firing               \* <<subscription, code>> pairs taken out and not yet completed

vars == <<alive, version, closed, watchers, reader, seen, stopped, watch, since, firing>>

Init ==
  /\ alive = TRUE /\ version = 0 /\ closed = FALSE /\ watchers = <<>>
  /\ reader = [r \in Readers |-> "idle"] /\ seen = [r \in Readers |-> 0] /\ stopped = {}
  /\ watch = [w \in Watches |-> "new"] /\ since = [w \in Watches |-> 0] /\ firing = {}

-----------------------------------------------------------------------------
Notified == [r \in Readers |-> IF reader[r] = "waiting" THEN "awake" ELSE reader[r]]

CarryAll(code) == {<<w, code>> : w \in ToSet(watchers)}

\* Generations never wrap: the last version refuses a further Publish.
Publish ==
  /\ alive /\ ~closed /\ version < MaxVersion
  /\ version' = version + 1
  /\ firing' = firing \cup CarryAll("Ok") /\ watchers' = <<>> /\ reader' = Notified
  /\ UNCHANGED <<alive, closed, seen, stopped, watch, since>>

Close ==
  /\ alive /\ ~closed /\ closed' = TRUE
  /\ firing' = firing \cup CarryAll("Closed") /\ watchers' = <<>> /\ reader' = Notified
  /\ UNCHANGED <<alive, version, seen, stopped, watch, since>>

-----------------------------------------------------------------------------
(* ReadAfter and WaitAfter, with the version the reader saw last.          *)

Updated(r) == closed \/ version # seen[r]

MutantReadCode(r) ==
  IF r \in stopped THEN "Cancelled" ELSE IF closed THEN "Closed"
  ELSE IF version = seen[r] THEN "WouldBlock" ELSE "Ok"

\* An unseen value is handed out even after Close.
ReadCode(r) ==
  IF r \in stopped THEN "Cancelled"
  ELSE IF version # seen[r] THEN "Ok" ELSE IF closed THEN "Closed" ELSE "WouldBlock"

\* The call returns; a reader that was told Closed or Cancelled reads no more.
Return(r) ==
  /\ reader' = [reader EXCEPT ![r] = IF ReadCode(r) \in {"Ok", "WouldBlock"} THEN "idle"
                                     ELSE ReadCode(r)]
  /\ seen' = [seen EXCEPT ![r] = IF ReadCode(r) = "Ok" THEN version ELSE @]

\* A reader that passes a token waits; ReadAfter takes none.
ReadAfter(r) ==
  /\ alive /\ reader[r] = "idle" /\ r \notin stopped /\ Return(r)
  /\ UNCHANGED <<alive, version, closed, watchers, stopped, watch, since, firing>>

WaitAfter(r) ==
  /\ alive /\ reader[r] \in {"idle", "awake"}
  /\ IF r \in stopped \/ Updated(r)
     THEN Return(r)
     ELSE reader' = [reader EXCEPT ![r] = "waiting"] /\ UNCHANGED seen
  /\ UNCHANGED <<alive, version, closed, watchers, stopped, watch, since, firing>>

\* wait_until gives up at the deadline if there is still nothing new.
Timeout(r) ==
  /\ reader[r] \in {"waiting", "awake"} /\ ~Updated(r)
  /\ reader' = [reader EXCEPT ![r] = IF r \in stopped THEN "Cancelled" ELSE "idle"]
  /\ UNCHANGED <<alive, version, closed, watchers, seen, stopped, watch, since, firing>>

\* The caller's token is stopped; condition_variable_any wakes its wait.
StopRequested(r) ==
  /\ r \notin stopped /\ reader[r] \in {"idle", "waiting", "awake"}
  /\ stopped' = stopped \cup {r}
  /\ reader' = [reader EXCEPT ![r] = IF @ = "waiting" THEN "awake" ELSE @]
  /\ UNCHANGED <<alive, version, closed, watchers, seen, watch, since, firing>>

-----------------------------------------------------------------------------
(* WaitForChange.                                                          *)

\* Cancelled subscriptions give their places back before the cap is tested.
Pruned == SelectSeq(watchers, LAMBDA w : watch[w] = "pending")

AddWatcher(w) ==
  IF Len(Pruned) >= MaxSubscriptions
  THEN watchers' = Pruned /\ watch' = [watch EXCEPT ![w] = "refused"]
  ELSE watchers' = Append(Pruned, w) /\ watch' = [watch EXCEPT ![w] = "pending"]

MutantWatchCode(v) ==
  IF version > v + 1 THEN "Ok" ELSE IF closed THEN "Closed" ELSE "WouldBlock"

WatchCode(v) == IF version # v THEN "Ok" ELSE IF closed THEN "Closed" ELSE "WouldBlock"

WaitForChange(w, v) ==
  /\ alive /\ watch[w] = "new" /\ v <= version
  /\ since' = [since EXCEPT ![w] = v]
  /\ IF WatchCode(v) = "WouldBlock"
     THEN AddWatcher(w) /\ UNCHANGED firing
     ELSE /\ watch' = [watch EXCEPT ![w] = "pending"]
          /\ firing' = firing \cup {<<w, WatchCode(v)>>} /\ UNCHANGED watchers
  /\ UNCHANGED <<alive, version, closed, reader, seen, stopped>>

\* The owner, or the token bound to the subscription, cancels it.
CancelWatch(w) ==
  /\ watch[w] = "pending" /\ watch' = [watch EXCEPT ![w] = "Cancelled"]
  /\ UNCHANGED <<alive, version, closed, watchers, reader, seen, stopped, since, firing>>

\* Complete on a source carried out of a critical section; the first one counts.
Fire(f) ==
  /\ f \in firing /\ firing' = firing \ {f}
  /\ watch' = [watch EXCEPT ![f[1]] = IF @ = "pending" THEN f[2] ELSE @]
  /\ UNCHANGED <<alive, version, closed, watchers, reader, seen, stopped, since>>

MutantDestroy ==
  /\ alive /\ firing = {} /\ \A r \in Readers : reader[r] \notin {"waiting", "awake"}
  /\ alive' = FALSE /\ watchers' = <<>>
  /\ UNCHANGED <<version, closed, reader, seen, stopped, watch, since, firing>>

\* ~State: every call holds a handle, so none is under way.
Destroy ==
  /\ alive /\ firing = {} /\ \A r \in Readers : reader[r] \notin {"waiting", "awake"}
  /\ alive' = FALSE /\ firing' = CarryAll("Closed") /\ watchers' = <<>>
  /\ UNCHANGED <<version, closed, reader, seen, stopped, watch, since>>

-----------------------------------------------------------------------------
Next ==
  \/ Publish \/ Close \/ Destroy
  \/ \E r \in Readers : ReadAfter(r) \/ WaitAfter(r) \/ Timeout(r) \/ StopRequested(r)
  \/ \E w \in Watches : CancelWatch(w) \/ \E v \in 0 .. version : WaitForChange(w, v)
  \/ \E f \in firing : Fire(f)

Spec == Init /\ [][Next]_vars

-----------------------------------------------------------------------------
(* Properties.                                                             *)

TypeOK ==
  /\ version \in 0 .. MaxVersion /\ seen \in [Readers -> 0 .. MaxVersion]
  /\ watchers \in Seq(Watches) /\ Len(watchers) <= MaxSubscriptions
  /\ reader \in [Readers -> {"idle", "waiting", "awake", "Closed", "Cancelled"}]
  /\ watch \in [Watches -> {"new", "refused", "pending", "Ok", "Closed", "Cancelled"}]
  /\ firing \subseteq Watches \X {"Ok", "Closed"}

\* LastValueIsSeen.  A reader is told Closed only after it was handed the last
\* value published: closing never hides a snapshot from a slow reader
\* (Channel.h:256-257, "Close preserves the last unseen snapshot").
LastValueIsSeen == \A r \in Readers : reader[r] = "Closed" => closed /\ seen[r] = version

\* WatchersAreCurrent.  A subscription stays registered only while the value is
\* the one its owner knows and more may come, and a sleeping reader likewise:
\* no change falls between the version test and the registration.
WatchersAreCurrent ==
  /\ TypeOK
  /\ \A w \in ToSet(watchers) : since[w] = version /\ ~closed
  /\ \A r \in Readers : reader[r] = "waiting" => ~Updated(r)

\* ChangeIsTold.  A change, Close or the drop of the last handle answers every
\* pending subscription, whatever pruning did to the list: one that is not yet
\* answered is in the hands of the caller that took it out.
ChangeIsTold ==
  \A w \in Watches :
    watch[w] = "pending" /\ (closed \/ ~alive \/ version # since[w]) => \E f \in firing : f[1] = w

\* ValueIsCurrent.  LatestValue, all in all.
ValueIsCurrent == LastValueIsSeen /\ WatchersAreCurrent /\ ChangeIsTold
=============================================================================
