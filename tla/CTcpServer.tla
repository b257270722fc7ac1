----------------------------- MODULE CTcpServer -----------------------------
(***************************************************************************)
(* The TCP server of the C interface: events that a consumer pulls, the    *)
(* two budgets they are charged to, the flow control that stops and        *)
(* reopens a connection's receives, the notifier that tells a consumer     *)
(* which connection has something, and the stop of the server.             *)
(*                                                                         *)
(* An event is one unit of a budget, which counts events and bytes alike.  *)
(* A thread is the list of the steps it has still to take, each one        *)
(* critical section: of a budget, a queue, the notifier, the waiting list. *)
(* Only flowMutex is held over several.  An I/O thread, named as its       *)
(* connection, runs that connection's callbacks one at a time.             *)
(***************************************************************************)
EXTENDS Integers, Sequences, SequencesExt, FiniteSetsExt, Functions

CONSTANTS
  Slots,       \* the connections, in the order of the notifier's slots
  Apps,        \* threads of the caller
  Uses,        \* what they use: "poll" or "notifier", "close", "handles", "stop"; and "ends": the remote side may close
  OwnMax,      \* max_connection_event_count
  GlobalMax,   \* max_event_count
  Arrivals,    \* receives of each connection
  Toggles,     \* pauses and resumes by the caller
  Faults       \* allocations that fail, and connections refused for want of a slot

VARIABLES
  peer,        \* TcpPeer, its PullQueue and its native connection
  todo,        \* of every thread
  server,      \* TcpState: stopping, peers, globalWaiters, accepted, and the budget
  box,         \* NotifierState: slots that are registered, ready; next; and how many were told before a ready one
  held,        \* events the caller has taken and not destroyed, by connection
  left         \* arrivals, toggles and faults still to come

vars == <<peer, todo, server, box, held, left>>

Nobody == "nobody"
Peers == Range(Slots)
Stopper == "stopper"
Threads == Peers \cup Apps \cup {Stopper}

Init ==
  /\ peer = [p \in Peers |->
       [native |-> "none", handle |-> "none", user |-> FALSE, paused |-> FALSE, waiting |-> FALSE,
        lock |-> Nobody, own |-> 0, queue |-> 0, terminal |-> "reserved", closed |-> FALSE, receiving |-> FALSE, unheard |-> FALSE]]
  /\ todo = [t \in Threads |-> <<>>]
  /\ server = [stop |-> "no", mapped |-> {}, waiters |-> <<>>, accepted |-> <<>>, count |-> 0]
  /\ box = [registered |-> {}, attached |-> {}, ready |-> {}, next |-> 0, passed |-> [p \in Peers |-> 0]]
  /\ held = [p \in Peers |-> 0]
  /\ left = [arrivals |-> Arrivals, toggles |-> Toggles, faults |-> Faults]

-----------------------------------------------------------------------------
(* Steps of a thread.                                                      *)

Step(op, p) == [op |-> op, peer |-> p]
Steps(ops, p) == [i \in DOMAIN ops |-> Step(ops[i], p)]
At(t, op, p) == todo[t] # <<>> /\ Head(todo[t]).op = op /\ Head(todo[t]).peer = p
Goes(t, steps) == todo' = [todo EXCEPT ![t] = steps \o Tail(@)]
Begins(t, steps) == todo[t] = <<>> /\ todo' = [todo EXCEPT ![t] = steps]

MutantDestroyed == <<"uncharge", "wake", "disown">>
\* An event is destroyed: its leases in the reverse order of their declaration,
\* each calling released when it has returned its share.
Destroyed == <<"uncharge", "wake", "disown", "flow">>

Full == server.count >= GlobalMax
OwnFull(p) == peer[p].own >= OwnMax

\* Budget::Charge of the global budget.  The one of the connection comes first.
Charge(t, p) ==
  /\ At(t, "charge", p) /\ Goes(t, <<>>)
  /\ server' = [server EXCEPT !.count = @ + 1] /\ UNCHANGED <<peer, box, held, left>>

Uncharge(t, p) ==
  /\ At(t, "uncharge", p) /\ Goes(t, <<>>)
  /\ server' = [server EXCEPT !.count = @ - 1] /\ UNCHANGED <<peer, box, held, left>>

Disown(t, p) ==
  /\ At(t, "disown", p) /\ Goes(t, <<>>)
  /\ peer' = [peer EXCEPT ![p].own = @ - 1] /\ UNCHANGED <<server, box, held, left>>

\* WakeGlobalWaiters: the list is taken as a whole, then one after the other.
WakeGlobalWaiters(t, p) ==
  /\ At(t, "wake", p)
  /\ Goes(t, FlattenSeq([i \in DOMAIN server.waiters |-> Steps(<<"unwait", "flow">>, server.waiters[i])]))
  /\ server' = [server EXCEPT !.waiters = <<>>] /\ UNCHANGED <<peer, box, held, left>>

Unwait(t, p) ==
  /\ At(t, "unwait", p) /\ peer[p].lock = Nobody /\ Goes(t, <<>>)
  /\ peer' = [peer EXCEPT ![p].waiting = FALSE] /\ UNCHANGED <<server, box, held, left>>

-----------------------------------------------------------------------------
(* TcpPeer::UpdateFlow, under flowMutex.                                   *)

\* The global budget is read on its own, before the other reasons.
ReadGlobal(t, p) ==
  /\ At(t, "flow", p) /\ peer[p].lock \in {Nobody, t}
  /\ Goes(t, <<Step(IF Full THEN "decideFull" ELSE "decide", p)>>)
  /\ peer' = [peer EXCEPT ![p].lock = t] /\ UNCHANGED <<server, box, held, left>>

\* PauseReceive or ResumeReceive where the answer has changed.
Decide(t, p) ==
  \E global \in BOOLEAN :
    /\ At(t, IF global THEN "decideFull" ELSE "decide", p)
    /\ LET done == ~global \/ peer[p].waiting
       IN  /\ peer' = [peer EXCEPT ![p].paused = peer[p].user \/ OwnFull(p) \/ global,
                                   ![p].lock = IF done THEN Nobody ELSE t,
                                   ![p].unheard = FALSE]
           /\ Goes(t, IF done THEN <<>> ELSE <<Step("add", p)>>)
    /\ UNCHANGED <<server, box, held, left>>

\* AddGlobalWaiter.  Where the list cannot grow UpdateFlow ends here.
AddGlobalWaiter(t, p) ==
  /\ At(t, "add", p)
  /\ \/ /\ server' = [server EXCEPT !.waiters = Append(@, p)]
        /\ peer' = [peer EXCEPT ![p].waiting = TRUE]
        /\ Goes(t, <<Step("recheck", p)>>) /\ UNCHANGED left
     \/ /\ left.faults > 0 /\ left' = [left EXCEPT !.faults = @ - 1]
        /\ peer' = [peer EXCEPT ![p].lock = Nobody, ![p].unheard = TRUE]
        /\ Goes(t, <<>>) /\ UNCHANGED server
  /\ UNCHANGED <<box, held>>

MutantRecheck(t, p) ==
  /\ At(t, "recheck", p)
  /\ peer' = [peer EXCEPT ![p].lock = Nobody] /\ Goes(t, <<>>)
  /\ UNCHANGED <<server, box, held, left>>
\* Once more, now that a release will find the connection in the list.
Recheck(t, p) ==
  /\ At(t, "recheck", p)
  /\ IF Full THEN peer' = [peer EXCEPT ![p].lock = Nobody] /\ Goes(t, <<>>)
     ELSE Goes(t, <<Step("flow", p)>>) /\ UNCHANGED peer
  /\ UNCHANGED <<server, box, held, left>>

UpdateFlow(t, p) == ReadGlobal(t, p) \/ Decide(t, p) \/ AddGlobalWaiter(t, p) \/ Recheck(t, p)

\* sc_tcp_connection_pause and sc_tcp_connection_resume.
SetUserPaused(t, p) ==
  /\ peer[p].handle = "app" /\ left.toggles > 0 /\ peer[p].lock = Nobody
  /\ peer' = [peer EXCEPT ![p].user = ~@] /\ left' = [left EXCEPT !.toggles = @ - 1]
  /\ Begins(t, Steps(<<"flow">>, p)) /\ UNCHANGED <<server, box, held>>

-----------------------------------------------------------------------------
(* PullQueue, and the notifier it signals when its lock is released.       *)

MutantSignal(t, p) ==
  /\ At(t, "signal", p) /\ Goes(t, <<>>)
  /\ box' = [box EXCEPT !.ready = IF peer[p].queue = 1 THEN @ \cup ({p} \cap box.attached \cap box.registered) ELSE @]
  /\ UNCHANGED <<peer, server, held, left>>
Signal(t, p) ==
  /\ At(t, "signal", p) /\ Goes(t, <<>>)
  /\ box' = [box EXCEPT !.ready = @ \cup ({p} \cap box.attached \cap box.registered)]
  /\ UNCHANGED <<peer, server, held, left>>

\* A closed queue destroys the event, and the connection is closed.
Push(t, p) ==
  /\ At(t, "push", p)
  /\ IF peer[p].closed
     THEN Goes(t, Steps(Destroyed \o <<"close">>, p)) /\ UNCHANGED peer
     ELSE peer' = [peer EXCEPT ![p].queue = @ + 1] /\ Goes(t, Steps(<<"signal", "flow">>, p))
  /\ UNCHANGED <<server, box, held, left>>

\* Finish: the terminal event was allocated with the connection.
Finish(t, p) ==
  /\ At(t, "finish", p)
  /\ IF peer[p].closed THEN peer' = [peer EXCEPT ![p].terminal = "destroyed"] /\ Goes(t, <<>>)
     ELSE peer' = [peer EXCEPT ![p].terminal = "queued", ![p].closed = TRUE] /\ Goes(t, Steps(<<"signal">>, p))
  /\ UNCHANGED <<server, box, held, left>>

\* Close: what is queued is destroyed outside the lock.
Close(t, p) ==
  /\ At(t, "discard", p)
  /\ peer' = [peer EXCEPT ![p].closed = TRUE, ![p].queue = 0,
                          ![p].terminal = IF @ = "queued" THEN "destroyed" ELSE @]
  /\ Goes(t, Steps(<<"signal">> \o FlattenSeq([i \in 1..peer[p].queue |-> Destroyed]), p))
  /\ UNCHANGED <<server, box, held, left>>

\* PullQueue::Next without waiting, again until it has nothing.
NextEvent(t, p) ==
  /\ At(t, "next", p)
  /\ \/ /\ peer[p].queue > 0
        /\ peer' = [peer EXCEPT ![p].queue = @ - 1] /\ held' = [held EXCEPT ![p] = @ + 1]
        /\ UNCHANGED todo
     \/ /\ peer[p].queue = 0 /\ peer[p].terminal = "queued"
        /\ peer' = [peer EXCEPT ![p].terminal = "taken"] /\ UNCHANGED <<todo, held>>
     \/ /\ peer[p].queue = 0 /\ peer[p].terminal # "queued"
        /\ Goes(t, <<>>) /\ UNCHANGED <<peer, held>>
  /\ UNCHANGED <<server, box, left>>

\* sc_tcp_connection_next of a caller that does not use the notifier.
Poll(t, p) ==
  /\ "poll" \in Uses /\ peer[p].handle = "app" /\ (peer[p].queue > 0 \/ peer[p].terminal = "queued")
  /\ Begins(t, Steps(<<"next">>, p)) /\ UNCHANGED <<peer, server, box, held, left>>

\* sc_tcp_event_destroy.
DestroyEvent(t, p) ==
  /\ held[p] > 0 /\ held' = [held EXCEPT ![p] = @ - 1]
  /\ Begins(t, Steps(Destroyed, p)) /\ UNCHANGED <<peer, server, box, left>>

-----------------------------------------------------------------------------
(* NotifierState.                                                          *)

MutantSubscription == <<"look", "attach">>
\* Subscribe: a slot, the attachment, and only then a look at the queue.
Subscription == <<"attach", "look">>

Subscribe(t, p) ==
  /\ "notifier" \in Uses /\ peer[p].handle = "app" /\ p \notin box.registered
  /\ box' = [box EXCEPT !.registered = @ \cup {p}]
  /\ Begins(t, Steps(Subscription, p)) /\ UNCHANGED <<peer, server, held, left>>

Attach(t, p) ==
  /\ At(t, "attach", p) /\ Goes(t, <<>>)
  /\ box' = [box EXCEPT !.attached = @ \cup {p}] /\ UNCHANGED <<peer, server, held, left>>

Look(t, p) ==
  /\ At(t, "look", p) /\ Goes(t, <<>>)
  /\ box' = [box EXCEPT !.ready = IF peer[p].queue > 0 \/ peer[p].closed THEN @ \cup {p} ELSE @]
  /\ UNCHANGED <<peer, server, held, left>>

MutantAfter(index) == 0
\* The slot after the one that was told is the first of the next search.
After(index) == (index + 1) % Len(Slots)

\* NotifierState::Next, and the consumer that then empties the connection's queue.
NextKey(t) ==
  /\ box.ready # {}
  /\ LET Place(n) == (box.next + n) % Len(Slots)
         index == Place(Min({n \in 0..Len(Slots) - 1 : Slots[Place(n) + 1] \in box.ready}))
         p == Slots[index + 1]
     IN  /\ box' = [box EXCEPT !.ready = @ \ {p}, !.next = After(index),
                      !.passed = [q \in Peers |-> IF q \in box.ready \ {p} THEN @[q] + 1 ELSE 0]]
         /\ Begins(t, Steps(<<"next">>, p))
  /\ UNCHANGED <<peer, server, held, left>>

-----------------------------------------------------------------------------
(* The native connection (external): one callback at a time, the end last. *)

\* A receive is under way; it arrives although the connection is paused meanwhile.
BeginReceive(p) ==
  /\ peer[p].native = "open" /\ ~peer[p].paused /\ ~peer[p].receiving /\ left.arrivals[p] > 0 /\ todo[p] = <<>>
  /\ peer' = [peer EXCEPT ![p].receiving = TRUE] /\ left' = [left EXCEPT !.arrivals[p] = @ - 1]
  /\ UNCHANGED <<todo, server, box, held>>

\* OnBytesReceived: the event is charged to the connection, then to the server.
\* Where it or its bytes cannot be allocated, what was charged is returned and the
\* connection closed.
OnBytesReceived(p) ==
  /\ peer[p].native = "open" /\ peer[p].receiving
  /\ \/ /\ peer' = [peer EXCEPT ![p].receiving = FALSE, ![p].own = @ + 1]
        /\ Begins(p, Steps(<<"charge", "push">>, p)) /\ UNCHANGED left
     \/ /\ left.faults > 0 /\ left' = [left EXCEPT !.faults = @ - 1]
        /\ \E charged \in BOOLEAN :
             /\ peer' = [peer EXCEPT ![p].receiving = FALSE, ![p].own = IF charged THEN @ + 1 ELSE @]
             /\ Begins(p, Steps((IF charged THEN <<"charge">> \o Destroyed ELSE <<>>) \o <<"close">>, p))
  /\ UNCHANGED <<server, box, held>>

Closing(c) == [c EXCEPT !.native = IF @ = "open" THEN "closing" ELSE @]
CloseNative(t, p) ==
  /\ At(t, "close", p) /\ Goes(t, <<>>)
  /\ peer' = [peer EXCEPT ![p] = Closing(@)] /\ UNCHANGED <<server, box, held, left>>

\* OnDisconnected: the remote end closed, or a close is carried out.
OnDisconnected(p) ==
  /\ peer[p].native = "closing" \/ ("ends" \in Uses /\ peer[p].native = "open")
  /\ peer' = [peer EXCEPT ![p].native = "closed"]
  /\ Begins(p, Steps(<<"finish", "remove">>, p)) /\ UNCHANGED <<server, box, held, left>>

Disconnected(t, p) ==
  /\ At(t, "remove", p) /\ Goes(t, <<>>)
  /\ server' = [server EXCEPT !.mapped = @ \ {p}] /\ UNCHANGED <<peer, box, held, left>>

-----------------------------------------------------------------------------
(* TcpState: accepting and stopping.                                       *)

\* Accepted, which nothing sees in between: Stop waits for the handler, and the
\* connection starts when it has returned.  Connections that are not modelled may
\* hold all slots.
Accepted(p) ==
  /\ peer[p].native = "none" /\ server.stop \in {"no", "stopping"}
  /\ \/ /\ server.stop = "no" /\ peer' = [peer EXCEPT ![p].native = "open", ![p].handle = "queued"]
        /\ server' = [server EXCEPT !.mapped = @ \cup {p}, !.accepted = Append(@, p)]
        /\ UNCHANGED left
     \/ /\ server.stop = "no" => left.faults > 0
        /\ left' = IF server.stop = "no" THEN [left EXCEPT !.faults = @ - 1] ELSE left
        /\ peer' = [peer EXCEPT ![p].native = "refused"] /\ UNCHANGED server
  /\ UNCHANGED <<todo, box, held>>

\* sc_tcp_server_accept.
Accept(t) ==
  /\ server.accepted # <<>> /\ todo[t] = <<>>
  /\ server' = [server EXCEPT !.accepted = Tail(@)]
  /\ peer' = [peer EXCEPT ![Head(server.accepted)].handle = "app"] /\ UNCHANGED <<todo, box, held, left>>

\* The last handle goes, and with it what its queue holds.  The caller does not
\* destroy a handle another thread is using.
OwnerGoes == <<"close", "discard">>
DestroyHandle(t, p) ==
  /\ "handles" \in Uses /\ peer[p].handle = "app" /\ \A u \in Apps : p \notin {step.peer : step \in Range(todo[u])}
  /\ peer' = [peer EXCEPT ![p].handle = "gone"]
  /\ Begins(t, Steps(OwnerGoes, p)) /\ UNCHANGED <<server, box, held, left>>

\* sc_tcp_connection_close.
CloseConnection(t, p) ==
  /\ "close" \in Uses /\ peer[p].handle = "app" /\ peer[p].native = "open"
  /\ Begins(t, Steps(<<"close">>, p)) /\ UNCHANGED <<peer, server, box, held, left>>

StopBegins ==
  /\ "stop" \in Uses /\ server.stop = "no" /\ server' = [server EXCEPT !.stop = "stopping"] /\ UNCHANGED <<peer, todo, box, held, left>>

\* Acceptor::Stop has waited for the handler; the connections nobody took go.
StopAccepting ==
  /\ server.stop = "stopping"
  /\ server' = [server EXCEPT !.stop = "closing", !.accepted = <<>>]
  /\ peer' = [p \in Peers |-> IF p \in Range(server.accepted) THEN [peer[p] EXCEPT !.handle = "gone"] ELSE peer[p]]
  /\ Begins(Stopper, FlattenSeq([i \in DOMAIN server.accepted |-> Steps(OwnerGoes, server.accepted[i])]))
  /\ UNCHANGED <<box, held, left>>

MutantStopPeer ==
  /\ server.stop = "closing" /\ todo[Stopper] = <<>>
  /\ \E p \in server.mapped : peer' = [peer EXCEPT ![p] = Closing(@)] /\ server' = [server EXCEPT !.stop = "done"]
  /\ UNCHANGED <<todo, box, held, left>>

\* One connection after the other is closed and awaited.
StopPeer ==
  /\ server.stop = "closing" /\ todo[Stopper] = <<>>
  /\ \E p \in server.mapped : peer' = [peer EXCEPT ![p] = Closing(@)] /\ server' = [server EXCEPT !.stop = p]
  /\ UNCHANGED <<todo, box, held, left>>
StopWaits ==
  /\ server.stop \in Peers \ server.mapped
  /\ server' = [server EXCEPT !.stop = "closing"] /\ UNCHANGED <<peer, todo, box, held, left>>
StopReturns ==
  /\ server.stop = "closing" /\ todo[Stopper] = <<>> /\ server.mapped = {}
  /\ server' = [server EXCEPT !.stop = "done"] /\ UNCHANGED <<peer, todo, box, held, left>>

-----------------------------------------------------------------------------

Section(t, p) ==
  \/ Charge(t, p) \/ Uncharge(t, p) \/ Disown(t, p) \/ WakeGlobalWaiters(t, p) \/ Unwait(t, p) \/ UpdateFlow(t, p)
  \/ Signal(t, p) \/ Push(t, p) \/ Finish(t, p) \/ Close(t, p) \/ NextEvent(t, p) \/ Attach(t, p) \/ Look(t, p)
  \/ CloseNative(t, p) \/ Disconnected(t, p)

Call(t, p) == SetUserPaused(t, p) \/ Poll(t, p) \/ DestroyEvent(t, p) \/ Subscribe(t, p)
              \/ CloseConnection(t, p) \/ DestroyHandle(t, p)

Busy == {t \in Threads : todo[t] # <<>>}

Next ==
  \/ \E t \in Busy : Section(t, Head(todo[t]).peer)
  \/ \E t \in Apps, p \in Peers : Call(t, p)
  \/ \E t \in Apps : NextKey(t) \/ Accept(t)
  \/ \E p \in Peers : BeginReceive(p) \/ OnBytesReceived(p) \/ OnDisconnected(p) \/ Accepted(p)
  \/ StopBegins \/ StopAccepting \/ StopPeer \/ StopWaits \/ StopReturns

Spec == Init /\ [][Next]_vars

-----------------------------------------------------------------------------

Pending(op, p) == Cardinality(UNION {{t} \X {i \in DOMAIN todo[t] : todo[t][i] = Step(op, p)} : t \in Busy})
Owed(ops, p) == \E t \in Busy : \E i \in DOMAIN todo[t] : todo[t][i].peer = p /\ todo[t][i].op \in ops
Flows == {"flow", "decide", "decideFull", "add", "recheck"}

TypeOK ==
  /\ \A p \in Peers :
       /\ peer[p].native \in {"none", "refused", "open", "closing", "closed"}
       /\ peer[p].lock \in Threads \cup {Nobody} /\ peer[p].queue \in Nat /\ held[p] \in Nat
  /\ server.mapped \subseteq Peers /\ box.ready \subseteq box.registered /\ server.count \in Nat

\* Each budget is charged for the events that exist, wherever they are.  The
\* connection's own is kept; the server's is exceeded by at most one event of
\* each of the connections that did not fill it.
LedgersAreExact ==
  /\ \A p \in Peers :
       /\ peer[p].own = peer[p].queue + held[p] + Pending("push", p) + Pending("disown", p)
       /\ peer[p].own <= OwnMax
  /\ server.count = MapThenSumSet(LAMBDA p : peer[p].queue + held[p] + Pending("push", p) - Pending("charge", p) + Pending("uncharge", p), Peers)
  /\ server.count <= GlobalMax + Cardinality(Peers) - 1

\* A connection is paused only while it has a reason to be, or a thread is about
\* to look again; one that only the global budget holds back is in the list that
\* the next release takes.  (unheard: the list could not grow.)
NoPeerIsForgotten ==
  \A p \in Peers :
    /\ peer[p].waiting => p \in Range(server.waiters) \/ Owed({"unwait"}, p)
    /\ peer[p].paused /\ ~peer[p].user /\ ~OwnFull(p) /\ ~peer[p].unheard /\ ~Owed(Flows \cup {"unwait"}, p) =>
         \/ Full /\ peer[p].waiting
         \/ p \in Range(server.waiters) /\ \E q \in Peers : Owed({"wake"}, q)

\* A queue with something to take has told its subscriber, or is about to, or is
\* being emptied; and a ready connection is not passed over twice by another.
ReadinessIsNotLost ==
  \A p \in box.attached :
    /\ peer[p].queue > 0 \/ peer[p].terminal = "queued" => p \in box.ready \/ Owed({"signal", "look", "next"}, p)
    /\ box.passed[p] < Len(Slots)

\* The end of a connection comes after all its bytes, and Stop leaves none.
EndsAreOrderly ==
  /\ \A p \in Peers :
       /\ peer[p].terminal \in {"queued", "taken"} => ~Owed({"push"}, p)
       /\ peer[p].terminal = "taken" => peer[p].queue = 0
       /\ peer[p].native = "closed" => peer[p].terminal # "reserved" \/ Owed({"finish"}, p)
  /\ server.stop \in Peers => peer[server.stop].native = "closing" \/ server.stop \notin server.mapped \/ Owed({"remove"}, server.stop)
  /\ server.stop = "done" => \A p \in Peers : peer[p].native \in {"none", "refused", "closed"} /\ peer[p].handle # "queued"

\* All of this together.
CTcpServerIsOrderly == TypeOK /\ LedgersAreExact /\ NoPeerIsForgotten /\ ReadinessIsNotLost /\ EndsAreOrderly
=============================================================================
