----------------------- MODULE CompletionSubscription -----------------------
(***************************************************************************)
(* CompletionSignal (Runtime/CompletionSignalInternal.h) and the one-shot  *)
(* subscriptions of Core/CompletionSubscription.cpp that observe it.       *)
(*                                                                         *)
(* A subscription is completed by whoever claims it first: the producer    *)
(* that completes the signal, the thread that stops its cancellation       *)
(* token, or its owner.  Reset suppresses a delivery or waits for it.      *)
(* Every action is one critical section of a mutex, or one step of the     *)
(* callback, which runs outside both mutexes.                              *)
(***************************************************************************)
EXTENDS Integers

CONSTANTS
  Subs,        \* subscriptions
  Producers,   \* threads that call CompletionSignal::Complete
  Capacity,    \* slots of the signal (16 in the code)
  None

CompletionAssumption ==
  /\ None \notin Subs /\ None \notin Producers \cup {"owner", "stopper"}
  /\ Producers \cap {"owner", "stopper"} = {}
  /\ Capacity \in Nat

Slots == 1..Capacity
Callers == Producers \cup {"owner", "stopper"}

VARIABLES
  ready,     \* CompletionSignal::mReady
  slots,     \* mSources, a source being its subscription
  taken,     \* the array the completing producer swapped out
  at,        \* the slot each producer has come to; 0 before Complete
  own,       \* what the owner of a subscription is doing with its handle
  done,      \* State::mDone
  by,        \* mInvoking and mThread: who runs the callback
  capture,   \* the callback and its captures: armed, moved, discarded or gone
  runs,      \* how often the callback was invoked (history)
  code,      \* the status it was invoked with (history)
  stopped,   \* the cancellation token
  stopper    \* its stop_callback: unbound, bound, firing, running or over

signalVars == <<ready, slots, taken, at>>
subVars == <<own, done, by, capture, runs, code>>
vars == <<ready, slots, taken, at, own, done, by, capture, runs, code, stopped, stopper>>

Init ==
  /\ ready = FALSE
  /\ slots = [i \in Slots |-> None] /\ taken = [i \in Slots |-> None]
  /\ at = [p \in Producers |-> 0]
  /\ own = [s \in Subs |-> "new"]
  /\ done = [s \in Subs |-> FALSE]
  /\ by = [s \in Subs |-> None]
  /\ capture = [s \in Subs |-> "armed"]
  /\ runs = [s \in Subs |-> 0] /\ code = [s \in Subs |-> None]
  /\ stopped = [s \in Subs |-> FALSE] /\ stopper = [s \in Subs |-> "unbound"]

-----------------------------------------------------------------------------
(* State::Complete.                                                        *)

MutantClaim(s, who, c) ==
  /\ by[s] = None
  /\ done' = [done EXCEPT ![s] = TRUE]
  /\ by' = [by EXCEPT ![s] = who]
  /\ capture' = [capture EXCEPT ![s] = "moved"]
  /\ runs' = [runs EXCEPT ![s] = @ + 1] /\ code' = [code EXCEPT ![s] = c]

\* The first critical section: the winner takes the callback and calls it.
Claim(s, who, c) ==
  /\ ~done[s]
  /\ done' = [done EXCEPT ![s] = TRUE]
  /\ by' = [by EXCEPT ![s] = who]
  /\ capture' = [capture EXCEPT ![s] = "moved"]
  /\ runs' = [runs EXCEPT ![s] = @ + 1] /\ code' = [code EXCEPT ![s] = c]

\* Complete returns false to everyone else.
TooLate(s) == done[s] /\ UNCHANGED <<done, by, capture, runs, code>>

\* The callback returned or threw; its captures are destroyed first.
DropCapture(s) ==
  /\ by[s] # None /\ capture[s] = "moved" /\ own[s] # "selfReset"
  /\ capture' = [capture EXCEPT ![s] = "gone"]
  /\ UNCHANGED <<own, done, by, runs, code, stopped, stopper>> /\ UNCHANGED signalVars

\* The second critical section, and the way back to what the thread was doing.
EndCallback(s) ==
  /\ by[s] # None /\ capture[s] = "gone"
  /\ by' = [by EXCEPT ![s] = None]
  /\ own' = [own EXCEPT ![s] = IF by[s] = "owner" /\ @ = "cancelling" THEN "held" ELSE @]
  /\ stopper' = [stopper EXCEPT ![s] = IF by[s] = "stopper" THEN "over" ELSE @]
  /\ UNCHANGED <<done, capture, runs, code, stopped>> /\ UNCHANGED signalVars

-----------------------------------------------------------------------------
(* CompletionSignal.                                                       *)

Pending(s) == s # None /\ ~done[s]

Occupied == {i \in Slots : slots[i] # None /\ ~done[slots[i]]}

MutantObserveSlot(s, i) ==
  /\ i \in Slots \ Occupied /\ \A j \in Slots \ Occupied : i <= j
  /\ slots' = [slots EXCEPT ![i] = s]

\* Observe takes the first slot whose source is not pending.
ObserveSlot(s, i) ==
  /\ ~ready /\ i \in Slots \ Occupied /\ \A j \in Slots \ Occupied : i <= j
  /\ slots' = [slots EXCEPT ![i] = s]

Subscribe(s) ==
  /\ own[s] = "new"
  /\ \/ /\ \E i \in Slots : ObserveSlot(s, i)
        /\ own' = [own EXCEPT ![s] = "bind"]
        /\ UNCHANGED <<done, capture>>
     \/ /\ ~ready /\ Occupied = Slots       \* WouldBlock: the registration is dropped
        /\ own' = [own EXCEPT ![s] = "released"]
        /\ done' = [done EXCEPT ![s] = TRUE]
        /\ capture' = [capture EXCEPT ![s] = "gone"]
        /\ UNCHANGED slots
     \/ /\ ready /\ own' = [own EXCEPT ![s] = "inline"]
        /\ UNCHANGED <<slots, done, capture>>
  /\ UNCHANGED <<ready, taken, at, by, runs, code, stopped, stopper>>

\* Observe found the signal complete and calls source.Complete after its mutex.
SubscribeInline(s) ==
  /\ own[s] = "inline"
  /\ Claim(s, "owner", "Ok") \/ TooLate(s)
  /\ own' = [own EXCEPT ![s] = "bind"]
  /\ UNCHANGED <<stopped, stopper>> /\ UNCHANGED signalVars

\* BindCancellation; a token that already stopped runs the callback here.
Bind(s) ==
  /\ own[s] = "bind" /\ by[s] # "owner"
  /\ own' = [own EXCEPT ![s] = "bound"]
  /\ IF stopped[s]
       THEN (Claim(s, "owner", "Cancelled") \/ TooLate(s)) /\ UNCHANGED stopper
       ELSE stopper' = [stopper EXCEPT ![s] = "bound"] /\ UNCHANGED <<done, by, capture, runs, code>>
  /\ UNCHANGED stopped /\ UNCHANGED signalVars

\* Subscribe returns the handle.
Expose(s) ==
  /\ own[s] = "bound" /\ by[s] # "owner"
  /\ own' = [own EXCEPT ![s] = "held"]
  /\ UNCHANGED <<done, by, capture, runs, code, stopped, stopper>> /\ UNCHANGED signalVars

\* CompletionSignal::Complete; a second call returns at once.
SignalComplete(p) ==
  /\ at[p] = 0
  /\ IF ready THEN at' = [at EXCEPT ![p] = Capacity + 1] /\ UNCHANGED <<ready, slots, taken>>
     ELSE /\ ready' = TRUE /\ taken' = slots
          /\ slots' = [i \in Slots |-> None]
          /\ at' = [at EXCEPT ![p] = 1]
  /\ UNCHANGED subVars /\ UNCHANGED <<stopped, stopper>>

\* The loop over the swapped-out sources.
SignalNext(p) ==
  /\ at[p] \in Slots /\ \A s \in Subs : by[s] # p
  /\ at' = [at EXCEPT ![p] = @ + 1]
  /\ LET s == taken[at[p]] IN
       IF Pending(s) THEN Claim(s, p, "Ok")
       ELSE UNCHANGED <<done, by, capture, runs, code>>
  /\ UNCHANGED <<ready, slots, taken, own, stopped, stopper>>

-----------------------------------------------------------------------------
(* The owner's handle.                                                     *)

Cancel(s) ==
  /\ own[s] = "held" /\ Claim(s, "owner", "Cancelled")
  /\ own' = [own EXCEPT ![s] = "cancelling"]
  /\ UNCHANGED <<stopped, stopper>> /\ UNCHANGED signalVars

\* State::Reset on a thread that is not running the callback.
Reset(s) ==
  /\ own[s] = "held"
  /\ own' = [own EXCEPT ![s] = "resetting"]
  /\ done' = [done EXCEPT ![s] = TRUE]
  /\ capture' = [capture EXCEPT ![s] = IF @ = "armed" THEN "discarded" ELSE @]
  /\ UNCHANGED <<by, runs, code, stopped, stopper>> /\ UNCHANGED signalVars

MutantResetQuiesce(s) == own[s] = "resetting"

\* mChanged.wait(!mInvoking).
ResetQuiesce(s) == own[s] = "resetting" /\ by[s] = None

ResetWaits(s) ==
  /\ ResetQuiesce(s)
  /\ own' = [own EXCEPT ![s] = "unbinding"]
  /\ UNCHANGED <<done, by, capture, runs, code, stopped, stopper>> /\ UNCHANGED signalVars

\* ~stop_callback waits for a stop callback that another thread is running.
Unbound(s) == stopper' = [stopper EXCEPT ![s] = IF @ = "bound" THEN "unbound" ELSE @]

ResetUnbinds(s) ==
  /\ own[s] = "unbinding" /\ stopper[s] \notin {"firing", "running"}
  /\ own' = [own EXCEPT ![s] = "released"]
  /\ Unbound(s)
  /\ capture' = [capture EXCEPT ![s] = "gone"]     \* `discarded` ends with Reset
  /\ UNCHANGED <<done, by, runs, code, stopped>> /\ UNCHANGED signalVars

\* Reset from inside the callback, on the thread that runs it, does not wait for it.
SelfReset(s) == by[s] # None /\ capture[s] = "moved"
                  /\ own[s] \in {"held", "cancelling"} /\ (by[s] = "owner") = (own[s] = "cancelling")

ResetInCallback(s) ==
  /\ SelfReset(s)
  /\ own' = [own EXCEPT ![s] = "selfReset"]
  /\ UNCHANGED <<done, by, capture, runs, code, stopped, stopper>> /\ UNCHANGED signalVars

MutantResetInCallbackReturns(s) ==
  /\ own[s] = "selfReset" /\ by[s] = None
  /\ own' = [own EXCEPT ![s] = "selfReleased"]
  /\ Unbound(s)
  /\ UNCHANGED <<done, by, capture, runs, code, stopped>> /\ UNCHANGED signalVars

ResetInCallbackReturns(s) ==
  /\ own[s] = "selfReset" /\ (stopper[s] # "firing" \/ by[s] = "stopper")
  /\ own' = [own EXCEPT ![s] = "selfReleased"]
  /\ Unbound(s)
  /\ UNCHANGED <<done, by, capture, runs, code, stopped>> /\ UNCHANGED signalVars

-----------------------------------------------------------------------------
(* std::stop_source::request_stop on the subscription's token.             *)

RequestStop(s) ==
  /\ ~stopped[s]
  /\ stopped' = [stopped EXCEPT ![s] = TRUE]
  /\ stopper' = [stopper EXCEPT ![s] = IF @ = "bound" THEN "firing" ELSE @]
  /\ UNCHANGED subVars /\ UNCHANGED signalVars

\* CancelCallback::operator().
CancelCallback(s) ==
  /\ stopper[s] = "firing"
  /\ IF done[s] THEN stopper' = [stopper EXCEPT ![s] = "over"] /\ UNCHANGED <<done, by, capture, runs, code>>
     ELSE stopper' = [stopper EXCEPT ![s] = "running"] /\ Claim(s, "stopper", "Cancelled")
  /\ UNCHANGED <<own, stopped>> /\ UNCHANGED signalVars

-----------------------------------------------------------------------------
Callback(s) == DropCapture(s) \/ EndCallback(s)
Owner(s) == SubscribeInline(s) \/ Bind(s) \/ Expose(s)
Resetting(s) == ResetWaits(s) \/ ResetUnbinds(s) \/ ResetInCallbackReturns(s)

Released(s) == own[s] \in {"released", "selfReleased"} /\ by[s] = None
Terminated ==
  /\ \A s \in Subs : Released(s) /\ stopped[s]
  /\ \A p \in Producers : at[p] > Capacity
  /\ UNCHANGED vars

Next ==
  \/ \E s \in Subs :
       \/ Subscribe(s) \/ Owner(s) \/ Cancel(s) \/ Reset(s) \/ Resetting(s)
       \/ ResetInCallback(s) \/ Callback(s) \/ RequestStop(s) \/ CancelCallback(s)
  \/ \E p \in Producers : SignalComplete(p) \/ SignalNext(p)
  \/ Terminated

Spec == Init /\ [][Next]_vars

-----------------------------------------------------------------------------
(* Properties.                                                             *)

TypeOK ==
  /\ ready \in BOOLEAN
  /\ slots \in [Slots -> Subs \cup {None}] /\ taken \in [Slots -> Subs \cup {None}]
  /\ at \in [Producers -> 0..(Capacity + 1)]
  /\ own \in [Subs -> {"new", "inline", "bind", "bound", "held", "cancelling", "resetting",
                       "unbinding", "released", "selfReset", "selfReleased"}]
  /\ done \in [Subs -> BOOLEAN] /\ by \in [Subs -> Callers \cup {None}]
  /\ capture \in [Subs -> {"armed", "moved", "discarded", "gone"}]
  /\ runs \in [Subs -> 0..1] /\ code \in [Subs -> {"Ok", "Cancelled", None}]
  /\ stopped \in [Subs -> BOOLEAN]
  /\ stopper \in [Subs -> {"unbound", "bound", "firing", "running", "over"}]

\* The callback is invoked at most once whoever races to complete the
\* subscription, and never before a completion or a cancellation asked for it.
DeliveredOnce ==
  /\ TypeOK
  /\ \A s \in Subs : runs[s] <= 1 /\ (code[s] = "Ok" => ready)

\* When a Reset that does not come from the callback has returned, the callback
\* is not running, will not run, and its captures are destroyed.
QuietAfterReset ==
  \A s \in Subs : own[s] = "released" =>
    by[s] = None /\ done[s] /\ capture[s] = "gone" /\ stopper[s] \notin {"bound", "firing", "running"}

\* Every call under way is blocked: no Subscribe, Reset, callback, stop request
\* or Complete can take its next step.
Blocked ==
  /\ \A s \in Subs : ~ENABLED (Owner(s) \/ Resetting(s) \/ Callback(s) \/ CancelCallback(s))
  /\ \A p \in Producers : ~ENABLED SignalNext(p)

\* When nothing moves any more, a completed signal has reached everyone who holds
\* a subscription, and every Reset has returned, also one called by the callback
\* it would wait for.  (Calls only go forward, so each of them ends.)
NobodyIsLeft ==
  Blocked => \A s \in Subs :
    /\ own[s] = "held" /\ ready => done[s]
    /\ own[s] \notin {"inline", "bind", "bound", "cancelling", "resetting", "unbinding", "selfReset"}

\* CompletionIsExact.  A completion, all in all (CompletionSubscription, CompletionSignal).
CompletionIsExact == DeliveredOnce /\ QuietAfterReset /\ NobodyIsLeft
=============================================================================
