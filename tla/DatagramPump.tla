---------------------------- MODULE DatagramPump ----------------------------
(***************************************************************************)
(* DatagramTransport's automatic receiving: a ReadableMonitor thread that  *)
(* waits for the socket and completes one-shot subscriptions, and the      *)
(* ReceivePump that turns a readable socket into a batch on its scheduler  *)
(* and arms again when the batch has ended.                                *)
(*                                                                         *)
(* Subscriptions are CompletionSubscriptions: Reset, and so a destructor,  *)
(* waits for a callback that another thread is inside of.  Generation g    *)
(* names the g-th arming, its readable subscription, its batch and the     *)
(* subscription of the batch's completion.                                 *)
(***************************************************************************)
EXTENDS Integers

CONSTANTS
  Packets,   \* datagrams that arrive
  MaxGen,    \* largest generation
  Faults,    \* subscriptions and batches that are refused
  Stoppers   \* "owner" stops from outside, "receiver" from inside a batch

Gens == 1..MaxGen

VARIABLES
  pump,      \* stopping, generation, readable, readableGeneration, terminal
  sub,       \* the readable subscription of each generation
  term,      \* the completion subscription of each generation, and its caller
  batch,     \* the one timer: none, due, polling, ended, with its generation
  arm,       \* where the agents inside Arm are
  monitor,   \* where the monitor thread is
  stop,      \* where the stoppers are
  data,      \* datagrams in the socket, and still to come
  budget     \* faults so far

vars == <<pump, sub, term, batch, arm, monitor, stop, data, budget>>

Agents == {"starter", "timer", "monitor"}
Idle == [at |-> "idle", gen |-> 0, held |-> 0]

Init ==
  /\ pump = [stopping |-> FALSE, generation |-> 0, readable |-> 0, readableGeneration |-> 0, terminal |-> 0]
  /\ sub = [g \in Gens |-> "none"]
  /\ term = [g \in Gens |-> [at |-> "none", by |-> "none"]]
  /\ batch = [at |-> "none", gen |-> 0]
  /\ arm = [a \in Agents |-> IF a = "starter" THEN [Idle EXCEPT !.at = "begin"] ELSE Idle]
  /\ monitor = Idle
  /\ stop = [s \in Stoppers |-> [at |-> "out", held |-> 0]]
  /\ data = [here |-> 0, coming |-> Packets] /\ budget = 0

Arrives ==
  /\ data.coming > 0 /\ data' = [here |-> data.here + 1, coming |-> data.coming - 1]
  /\ UNCHANGED <<pump, sub, term, batch, arm, monitor, stop, budget>>

Fault == budget < Faults /\ budget' = budget + 1

-----------------------------------------------------------------------------
(* Arm: by StartReceiving, by the timing thread in the completion callback *)
(* or, when the batch had ended already, by the monitor inside Ready.      *)

\* The agent is done; a completion callback it ran is over.
ArmEnds(a) ==
  /\ arm' = [arm EXCEPT ![a] = Idle]
  /\ term' = [g \in Gens |-> IF term[g].at = "called" /\ term[g].by = a THEN [at |-> "over", by |-> "none"] ELSE term[g]]

ArmBegins(a) ==
  /\ arm[a].at = "begin"
  /\ IF pump.stopping THEN ArmEnds(a) /\ UNCHANGED pump
     ELSE /\ pump.generation < MaxGen
          /\ pump' = [pump EXCEPT !.generation = @ + 1]
          /\ arm' = [arm EXCEPT ![a] = [at |-> "subscribe", gen |-> pump.generation + 1, held |-> 0]]
          /\ UNCHANGED term
  /\ UNCHANGED <<sub, batch, monitor, stop, data, budget>>

ArmSubscribes(a) ==
  /\ arm[a].at = "subscribe"
  /\ \/ /\ sub' = [sub EXCEPT ![arm[a].gen] = "pending"] /\ arm' = [arm EXCEPT ![a].at = "publish"]
        /\ UNCHANGED <<pump, term, budget>>
     \/ Fault /\ pump' = [pump EXCEPT !.stopping = TRUE] /\ ArmEnds(a) /\ UNCHANGED sub
  /\ UNCHANGED <<batch, monitor, stop, data>>

\* The new subscription takes readable's place unless it is outdated; the one
\* that is left over is destroyed on the way out.
ArmPublishes(a) ==
  LET g == arm[a].gen IN
  /\ arm[a].at = "publish"
  /\ IF g = pump.generation /\ ~pump.stopping
     THEN /\ pump' = [pump EXCEPT !.readable = g, !.readableGeneration = g]
          /\ arm' = [arm EXCEPT ![a].at = "retire", ![a].held = pump.readable]
     ELSE arm' = [arm EXCEPT ![a].at = "retire", ![a].held = g] /\ UNCHANGED pump
  /\ UNCHANGED <<sub, term, batch, monitor, stop, data, budget>>

\* Reset of a readable subscription: its callback is the monitor's.
MayReset(g, by) == g > 0 /\ by # "monitor" => sub[g] # "called"
Discard(g) == IF g > 0 /\ sub[g] = "pending" THEN [sub EXCEPT ![g] = "over"] ELSE sub

ArmRetires(a) ==
  /\ arm[a].at = "retire" /\ MayReset(arm[a].held, a)
  /\ sub' = Discard(arm[a].held) /\ ArmEnds(a)
  /\ UNCHANGED <<pump, batch, monitor, stop, data, budget>>

-----------------------------------------------------------------------------
(* The monitor thread.                                                     *)

\* DatagramReadiness::Wait returns Ok: it looks at the level, not at an edge.
Readable == data.here > 0

Wait(g) ==
  /\ monitor.at = "idle" /\ sub[g] = "pending" /\ Readable
  /\ sub' = [sub EXCEPT ![g] = "called"] /\ monitor' = [at |-> "ready", gen |-> g, held |-> 0]
  /\ UNCHANGED <<pump, term, batch, arm, stop, data, budget>>

ReadyEnds == monitor' = Idle /\ sub' = [sub EXCEPT ![monitor.gen] = "over"]

\* Takes the subscription it was called by, if it is there already, so that
\* nobody else will wait for this callback.
Ready ==
  /\ monitor.at = "ready"
  /\ IF pump.stopping \/ monitor.gen # pump.generation
     THEN ReadyEnds /\ UNCHANGED pump
     ELSE /\ pump' = [pump EXCEPT !.readable = IF pump.readableGeneration = monitor.gen THEN 0 ELSE @]
          /\ monitor' = [monitor EXCEPT !.at = "schedule"] /\ UNCHANGED sub
  /\ UNCHANGED <<term, batch, arm, stop, data, budget>>

Schedules ==
  /\ monitor.at = "schedule"
  /\ \/ /\ ~pump.stopping /\ batch' = [at |-> "due", gen |-> monitor.gen]
        /\ monitor' = [monitor EXCEPT !.at = "observe"] /\ UNCHANGED <<pump, sub, budget>>
     \/ /\ pump.stopping \/ budget < Faults
        /\ budget' = IF pump.stopping THEN budget ELSE budget + 1
        /\ pump' = [pump EXCEPT !.stopping = TRUE] /\ ReadyEnds /\ UNCHANGED batch
  /\ UNCHANGED <<term, arm, stop, data>>

\* WaitForCompletion: an ended batch is reported on the spot.
Observes ==
  /\ monitor.at = "observe"
  /\ \/ /\ batch.at = "ended" /\ batch' = [at |-> "none", gen |-> 0]
        /\ term' = [term EXCEPT ![monitor.gen] = [at |-> "called", by |-> "monitor"]]
        /\ arm' = [arm EXCEPT !["monitor"] = [Idle EXCEPT !.at = "begin"]]
     \/ /\ batch.at # "ended" /\ term' = [term EXCEPT ![monitor.gen].at = "pending"] /\ UNCHANGED <<batch, arm>>
  /\ monitor' = [monitor EXCEPT !.at = "publish"]
  /\ UNCHANGED <<pump, sub, stop, data, budget>>

\* Keeps the completion subscription, if the batch's end has not armed again yet.
ReadyPublishes ==
  /\ monitor.at = "publish" /\ arm["monitor"].at = "idle"
  /\ IF monitor.gen = pump.generation /\ ~pump.stopping
     THEN pump' = [pump EXCEPT !.terminal = monitor.gen] /\ monitor' = [monitor EXCEPT !.at = "retire", !.held = pump.terminal]
     ELSE monitor' = [monitor EXCEPT !.at = "retire", !.held = monitor.gen] /\ UNCHANGED pump
  /\ UNCHANGED <<sub, term, batch, arm, stop, data, budget>>

ReadyRetires ==
  /\ monitor.at = "retire"
  /\ monitor.held > 0 => term[monitor.held].at # "called"
  /\ term' = IF monitor.held = 0 THEN term ELSE [term EXCEPT ![monitor.held] = [at |-> "over", by |-> "none"]]
  /\ ReadyEnds
  /\ UNCHANGED <<pump, batch, arm, stop, data, budget>>

-----------------------------------------------------------------------------
(* The batch, on the executor, and its end, on the timing thread.          *)

BatchPolls ==
  /\ batch.at = "due" /\ arm["timer"].at = "idle" /\ ~pump.stopping
  /\ batch' = [batch EXCEPT !.at = "polling"]
  /\ UNCHANGED <<pump, sub, term, arm, monitor, stop, data, budget>>

\* PollDatagrams within its budget, or a batch that was cancelled first.
BatchEnds ==
  LET g == batch.gen IN
  /\ arm["timer"].at = "idle"
  /\ \/ /\ batch.at = "polling" /\ \A s \in Stoppers : s = "receiver" => stop[s].at \in {"out", "done"}
        /\ \E n \in 1..data.here : data' = [data EXCEPT !.here = @ - n]
     \/ batch.at = "due" /\ pump.stopping /\ UNCHANGED data
  /\ IF term[g].at = "pending"
     THEN /\ batch' = [at |-> "none", gen |-> 0]
          /\ term' = [term EXCEPT ![g] = [at |-> "called", by |-> "timer"]]
          /\ arm' = [arm EXCEPT !["timer"] = [Idle EXCEPT !.at = "begin"]]
     ELSE batch' = [batch EXCEPT !.at = "ended"] /\ UNCHANGED <<term, arm>>
  /\ UNCHANGED <<pump, sub, monitor, stop, budget>>

-----------------------------------------------------------------------------
(* RequestStop and StopReceiving; the owner first waits for pumpLifecycle. *)

RequestStop(s) ==
  /\ stop[s].at = "out" /\ pump.generation < MaxGen
  /\ IF s = "owner" THEN arm["starter"].at = "idle" ELSE batch.at = "polling"
  /\ pump' = [pump EXCEPT !.stopping = TRUE, !.generation = @ + 1, !.readable = 0]
  /\ stop' = [stop EXCEPT ![s] = [at |-> "reset", held |-> pump.readable]]
  /\ UNCHANGED <<sub, term, batch, arm, monitor, data, budget>>

Resets(s) ==
  /\ stop[s].at = "reset" /\ MayReset(stop[s].held, s)
  /\ sub' = Discard(stop[s].held)
  /\ stop' = [stop EXCEPT ![s] = [at |-> IF s = "owner" THEN "join" ELSE "done", held |-> 0]]
  /\ UNCHANGED <<pump, term, batch, arm, monitor, data, budget>>

\* scheduler.Stop joins the timing thread; then the completion subscription goes.
MutantMayJoin == batch.at # "polling"
MayJoin == batch.at \in {"none", "ended"} /\ arm["timer"].at = "idle"

Stops ==
  /\ "owner" \in Stoppers /\ stop["owner"].at = "join" /\ MayJoin
  /\ pump.terminal > 0 => term[pump.terminal].at # "called"
  /\ term' = IF pump.terminal = 0 THEN term ELSE [term EXCEPT ![pump.terminal] = [at |-> "over", by |-> "none"]]
  /\ pump' = [pump EXCEPT !.terminal = 0]
  /\ stop' = [stop EXCEPT !["owner"].at = "done"]
  /\ UNCHANGED <<sub, batch, arm, monitor, data, budget>>

Proceed ==
  \/ \E a \in Agents : ArmBegins(a) \/ ArmSubscribes(a) \/ ArmPublishes(a) \/ ArmRetires(a)
  \/ \E g \in Gens : Wait(g)
  \/ Ready \/ Schedules \/ Observes \/ ReadyPublishes \/ ReadyRetires \/ BatchPolls \/ BatchEnds
  \/ \E s \in Stoppers : Resets(s)
  \/ Stops

Next == Arrives \/ (\E s \in Stoppers : RequestStop(s)) \/ Proceed

Spec == Init /\ [][Next]_vars

-----------------------------------------------------------------------------

TypeOK ==
  /\ pump.generation \in 0..MaxGen /\ pump.readable \in 0..pump.generation /\ pump.terminal \in 0..pump.generation
  /\ \A g \in Gens : sub[g] \in {"none", "pending", "called", "over"} /\ term[g].at \in {"none", "pending", "called", "over"}
  /\ batch.at \in {"none", "due", "polling", "ended"}

\* One subscription at a time is waited on, and no packet can be forgotten: a
\* pump that was not stopped is armed, is handling a readable socket, has a
\* batch to run, or is about to arm again.
PumpStaysArmed ==
  /\ \A g, h \in Gens : sub[g] = "pending" /\ sub[h] = "pending" => g = h
  /\ pump.stopping
     \/ (\E g \in Gens : sub[g] = "pending") \/ monitor.at \in {"ready", "schedule", "observe"}
     \/ batch.at \in {"due", "polling"} \/ \E a \in Agents : arm[a].at \in {"begin", "subscribe"}

\* A batch belongs to the newest generation, so two never overlap; after
\* StopReceiving returned none runs or will, and nobody arms again.
StopEndsReceiving ==
  /\ batch.at \in {"due", "polling"} /\ ~pump.stopping => batch.gen = pump.generation
  /\ "owner" \in Stoppers /\ stop["owner"].at = "done" =>
       batch.at \in {"none", "ended"} /\ arm["timer"].at = "idle" /\ arm["starter"].at = "idle"

\* The pump, all in all.
PumpIsOrderly == TypeOK /\ PumpStaysArmed /\ StopEndsReceiving

\* Arming again and the callback of the readable subscription never wait for
\* each other: whoever is on its way can go on.
RearmNeverBlocks ==
  (\E a \in Agents : arm[a].at # "idle") \/ monitor.at # "idle"
    => ENABLED Proceed \/ pump.generation = MaxGen

=============================================================================
