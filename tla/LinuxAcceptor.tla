---------------------------- MODULE LinuxAcceptor ----------------------------
(***************************************************************************)
(* The Acceptor on Linux: the listener and its retry timer, both one-shot  *)
(* registrations of an IoContext, the workers that accept and hand over,   *)
(* and the thread that listens, starts and stops, several times over.      *)
(***************************************************************************)
EXTENDS Integers, FiniteSets

CONSTANTS
  Workers,
  MaxGeneration,  \* Listens
  MaxPeers,       \* connections that arrive
  Exhaustions,    \* times accept4 runs out of descriptors or memory
  Faults          \* registrations and rearms epoll refuses

VARIABLES
  acc,      \* Acceptor::State::Shared
  armed,    \* the generation whose listener epoll watches, or 0
  timer,    \* the generation whose retry timer runs, or 0
  worker,
  owner,    \* the thread that controls the acceptor
  backlog, peers,
  handled,  \* accepted peers: handed to the handler, or closed
  budget    \* exhaustions and faults that happened

vars == <<acc, armed, timer, worker, owner, backlog, peers, handled, budget>>

Resting == [at |-> "idle", gen |-> 0]

Init ==
  /\ acc = [descriptor |-> FALSE, registered |-> FALSE, retry |-> FALSE, backoff |-> FALSE,
            generation |-> 0, stopping |-> FALSE, handoffs |-> 0, handler |-> FALSE]
  /\ armed = 0 /\ timer = 0
  /\ worker = [w \in Workers |-> Resting]
  /\ owner = "free" /\ backlog = 0 /\ peers = 0 /\ handled = 0
  /\ budget = [exhausted |-> 0, faults |-> 0]

Fault == budget.faults < Faults /\ budget' = [budget EXCEPT !.faults = @ + 1]

Closed(a) == [a EXCEPT !.stopping = TRUE, !.descriptor = FALSE, !.registered = FALSE,
                       !.retry = FALSE, !.backoff = FALSE]

\* CloseListenerLocked: both registrations go with their descriptors.
CloseListenerLocked(a) ==
  acc' = Closed(a) /\ armed' = 0 /\ timer' = 0 /\ backlog' = 0

-----------------------------------------------------------------------------
(* The controlling thread.                                                 *)

\* Listen, and SetConnectionHandler where the last Stop took the handler.
Listen ==
  /\ owner = "free" /\ ~acc.descriptor /\ acc.generation < MaxGeneration
  /\ acc.handler \/ acc.handoffs = 0
  /\ acc' = [acc EXCEPT !.descriptor = TRUE, !.stopping = FALSE, !.generation = @ + 1, !.handler = TRUE]
  /\ UNCHANGED <<armed, timer, worker, owner, backlog, peers, handled, budget>>

\* Start: the timer is made and registered while there are descriptors left;
\* whatever fails, nothing stays registered.
Start ==
  /\ owner = "free" /\ acc.descriptor /\ ~acc.registered /\ acc.handler
  /\ \/ /\ acc' = [acc EXCEPT !.registered = TRUE, !.retry = TRUE]
        /\ armed' = acc.generation /\ UNCHANGED budget
     \/ /\ Fault /\ UNCHANGED <<acc, armed>>
  /\ UNCHANGED <<timer, worker, owner, backlog, peers, handled>>

Stop ==
  /\ owner = "free" /\ (acc.descriptor \/ acc.handler)
  /\ CloseListenerLocked(acc) /\ owner' = "stopping"
  /\ UNCHANGED <<worker, peers, handled, budget>>

MutantStopReturns ==
  /\ owner = "stopping" /\ owner' = "free"
  /\ acc' = [acc EXCEPT !.handler = FALSE]
  /\ UNCHANGED <<armed, timer, worker, backlog, peers, handled, budget>>

\* It waits for the handoffs; the handler is retired after the last.
StopReturns ==
  /\ owner = "stopping" /\ acc.handoffs = 0 /\ owner' = "free"
  /\ acc' = [acc EXCEPT !.handler = FALSE]
  /\ UNCHANGED <<armed, timer, worker, backlog, peers, handled, budget>>

-----------------------------------------------------------------------------
(* The kernel.                                                             *)

PeerConnects ==
  /\ acc.descriptor /\ peers < MaxPeers
  /\ peers' = peers + 1 /\ backlog' = backlog + 1
  /\ UNCHANGED <<acc, armed, timer, worker, owner, handled, budget>>

\* A worker fetches the one event of a registration, which rests from then on.
FetchReady(w) ==
  /\ worker[w] = Resting /\ armed # 0 /\ backlog > 0
  /\ worker' = [worker EXCEPT ![w] = [at |-> "ready", gen |-> armed]] /\ armed' = 0
  /\ UNCHANGED <<acc, timer, owner, backlog, peers, handled, budget>>

FetchRetry(w) ==
  /\ worker[w] = Resting /\ timer # 0
  /\ worker' = [worker EXCEPT ![w] = [at |-> "retry", gen |-> timer]] /\ timer' = 0
  /\ UNCHANGED <<acc, armed, owner, backlog, peers, handled, budget>>

-----------------------------------------------------------------------------
(* The workers.                                                            *)

\* An event may outlive the listener it was for.
Stale(w) == acc.stopping \/ ~acc.descriptor \/ acc.generation # worker[w].gen

Leave(w) == worker' = [worker EXCEPT ![w] = Resting]

\* ParkListenerLocked: the timer rearms the listener later; without a timer
\* the listener is closed.
MutantPark(a) ==
  acc' = [a EXCEPT !.backoff = TRUE] /\ UNCHANGED <<armed, timer, backlog>>

ParkListenerLocked(a) ==
  \/ /\ acc' = [a EXCEPT !.backoff = TRUE] /\ timer' = a.generation
     /\ UNCHANGED <<armed, backlog>>
  \/ budget.faults < Faults /\ CloseListenerLocked(a)

\* OnReady: accept one, rearm before the handoff.
OnReady(w) ==
  /\ worker[w].at = "ready"
  /\ \/ /\ Stale(w) /\ Leave(w)
        /\ UNCHANGED <<acc, armed, timer, backlog, budget>>
     \/ /\ ~Stale(w) /\ budget.exhausted < Exhaustions
        /\ budget' = [budget EXCEPT !.exhausted = @ + 1]
        /\ ParkListenerLocked(acc) /\ Leave(w)
     \/ /\ ~Stale(w) /\ backlog = 0                             \* another worker took it
        /\ armed' = acc.generation /\ Leave(w) /\ UNCHANGED <<acc, timer, backlog, budget>>
     \/ /\ ~Stale(w) /\ backlog > 0
        /\ worker' = [worker EXCEPT ![w].at = "handoff"]
        /\ LET a == [acc EXCEPT !.backoff = FALSE, !.handoffs = @ + 1] IN
           \/ acc' = a /\ armed' = acc.generation /\ backlog' = backlog - 1 /\ UNCHANGED <<timer, budget>>
           \/ Fault /\ CloseListenerLocked(a)
  /\ UNCHANGED <<owner, peers, handled>>

\* OnRetry: the listener is armed again, or closed.
OnRetry(w) ==
  /\ worker[w].at = "retry" /\ Leave(w)
  /\ \/ Stale(w) /\ UNCHANGED <<acc, armed, timer, backlog, budget>>
     \/ ~Stale(w) /\ armed' = acc.generation /\ UNCHANGED <<acc, timer, backlog, budget>>
     \/ ~Stale(w) /\ Fault /\ CloseListenerLocked(acc)
  /\ UNCHANGED <<owner, peers, handled>>

\* The handler, then TcpConnection::Start; whatever throws, the peer is closed.
Handoff(w) ==
  /\ worker[w].at = "handoff" /\ Leave(w)
  /\ acc' = [acc EXCEPT !.handoffs = @ - 1] /\ handled' = handled + 1
  /\ UNCHANGED <<armed, timer, owner, backlog, peers, budget>>

Next ==
  \/ Listen \/ Start \/ Stop \/ StopReturns \/ PeerConnects
  \/ \E w \in Workers : FetchReady(w) \/ FetchRetry(w) \/ OnReady(w) \/ OnRetry(w) \/ Handoff(w)

Spec == Init /\ [][Next]_vars

-----------------------------------------------------------------------------

TypeOK ==
  /\ acc.generation \in 0..MaxGeneration /\ acc.handoffs \in 0..Cardinality(Workers)
  /\ armed \in 0..MaxGeneration /\ timer \in 0..MaxGeneration /\ backlog \in 0..MaxPeers

\* A handler runs only while the acceptor still owns it: Stop waits for every
\* handoff before it takes the handler, also one that a rearm failure orphaned.
HandlerOutlivesHandoffs ==
  /\ acc.handoffs = Cardinality({w \in Workers : worker[w].at = "handoff"})
  /\ acc.handoffs > 0 => acc.handler

\* A started listener is watched, or parked with its timer running, or a
\* worker holds the event of one of the two: running out of descriptors never
\* turns accepting off for good.
ListenerIsWatched ==
  acc.registered =>
    \/ armed = acc.generation \/ timer = acc.generation
    \/ \E w \in Workers : worker[w].at \in {"ready", "retry"} /\ worker[w].gen = acc.generation

\* Nothing watches a listener that is gone, and an event of an earlier
\* generation never touches a later one.
NothingWatchesAClosedListener ==
  /\ armed # 0 \/ timer # 0 => acc.registered
  /\ armed \in {0, acc.generation} /\ timer \in {0, acc.generation}

\* The acceptor, all in all.
AcceptorIsOrderly ==
  TypeOK /\ HandlerOutlivesHandoffs /\ ListenerIsWatched /\ NothingWatchesAClosedListener

=============================================================================
