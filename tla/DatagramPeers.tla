---------------------------- MODULE DatagramPeers ----------------------------
(***************************************************************************)
(* DatagramTransport's sessions: registration under a fresh token, polling *)
(* the socket, and sending within two token buckets.  The network loses,   *)
(* repeats and reorders datagrams; a client may appear at a new endpoint.  *)
(*                                                                         *)
(* A poll looks at a datagram under the mutex, asks the application        *)
(* without it, and commits under it again; whatever the mutex protects may *)
(* have changed.  Tokens are random and never repeat: the n-th issued is n.*)
(***************************************************************************)
EXTENDS Integers, Sequences, FiniteSets

CONSTANTS
  Sessions, Endpoints, Pollers,
  MaxRegistered,   \* maxRegisteredSessions
  MaxJump,         \* maxSequenceJump
  Migration,       \* allowEndpointMigration
  MaxSequence, MaxTokens, MaxBindings, MaxPolled,
  TotalRate, PeerRate,   \* [burst, rate]: datagrams at once and per time unit
  MaxClock

VARIABLES
  binding,    \* open, bindingGeneration and the time of Bind
  issued,     \* registrationGeneration, and so the newest token
  peers,      \* the registered sessions
  polling,    \* the flag
  poller,     \* where each Poll is and the datagram it looked at
  delivered,  \* per token, what its receiver was given
  total,      \* sendBucket
  sends,      \* datagrams sent since Bind, and per token
  now, polled \* the clock and the datagrams looked at

vars == <<binding, issued, peers, polling, poller, delivered, total, sends, now, polled>>

Tokens == 1..MaxTokens
Out == [at |-> "out", gen |-> 0, id |-> "", token |-> 0, sequence |-> 0, endpoint |-> ""]
Full(rate) == [left |-> rate.burst, updated |-> now]

Init ==
  /\ binding = [open |-> FALSE, gen |-> 0, since |-> 0]
  /\ issued = 0 /\ peers = [id \in {} |-> {}]
  /\ polling = FALSE /\ poller = [p \in Pollers |-> Out]
  /\ delivered = [t \in Tokens |-> <<>>]
  /\ now = 0 /\ polled = 0
  /\ total = [left |-> TotalRate.burst, updated |-> 0]
  /\ sends = [all |-> 0, of |-> [t \in Tokens |-> 0], since |-> [t \in Tokens |-> 0]]

Tick ==
  /\ now < MaxClock /\ now' = now + 1
  /\ UNCHANGED <<binding, issued, peers, polling, poller, delivered, total, sends, polled>>

-----------------------------------------------------------------------------
(* Bind, Close, RegisterSession, UnregisterSession.                        *)

Bind ==
  /\ ~binding.open /\ binding.gen < MaxBindings
  /\ binding' = [open |-> TRUE, gen |-> binding.gen + 1, since |-> now]
  /\ total' = Full(TotalRate) /\ sends' = [sends EXCEPT !.all = 0]
  /\ UNCHANGED <<issued, peers, polling, poller, delivered, now, polled>>

Close ==
  /\ binding.open /\ binding' = [binding EXCEPT !.open = FALSE]
  /\ peers' = [id \in {} |-> {}]
  /\ UNCHANGED <<issued, polling, poller, delivered, total, sends, now, polled>>

RegisterSession(id) ==
  /\ binding.open /\ id \notin DOMAIN peers /\ Cardinality(DOMAIN peers) < MaxRegistered
  /\ issued < MaxTokens /\ issued' = issued + 1
  /\ peers' = [i \in DOMAIN peers \cup {id} |->
       IF i = id THEN [token |-> issued + 1, endpoint |-> "", received |-> 0, sent |-> 0, ready |-> FALSE,
                       bucket |-> Full(PeerRate)]
       ELSE peers[i]]
  /\ sends' = [sends EXCEPT !.since[issued + 1] = now]
  /\ UNCHANGED <<binding, polling, poller, delivered, total, now, polled>>

UnregisterSession(id) ==
  /\ id \in DOMAIN peers
  /\ peers' = [i \in DOMAIN peers \ {id} |-> peers[i]]
  /\ UNCHANGED <<binding, issued, polling, poller, delivered, total, sends, now, polled>>

-----------------------------------------------------------------------------
(* PollPayload.                                                            *)

PollBegins(p) ==
  /\ poller[p].at = "out" /\ ~polling /\ binding.open /\ polling' = TRUE
  /\ poller' = [poller EXCEPT ![p] = [Out EXCEPT !.at = "receive", !.gen = binding.gen]]
  /\ UNCHANGED <<binding, issued, peers, delivered, total, sends, now, polled>>

\* Nothing more to read, the budget is used up, or the binding is another one.
PollEnds(p) ==
  /\ poller[p].at = "receive" /\ poller' = [poller EXCEPT ![p] = Out] /\ polling' = FALSE
  /\ UNCHANGED <<binding, issued, peers, delivered, total, sends, now, polled>>

\* Whether a datagram of session id may go on to the application.
Acceptable(id, sequence, endpoint) ==
  /\ sequence > peers[id].received /\ sequence - peers[id].received <= MaxJump
  /\ Migration \/ ~peers[id].ready \/ peers[id].endpoint = endpoint

\* A datagram of any registration there ever was; unknown tokens and what is
\* not acceptable are counted and dropped.
PollReceives(p, token, sequence, endpoint) ==
  /\ poller[p].at = "receive" /\ binding.open /\ binding.gen = poller[p].gen
  /\ token <= issued /\ polled < MaxPolled /\ polled' = polled + 1
  /\ \E id \in DOMAIN peers :
       /\ peers[id].token = token /\ Acceptable(id, sequence, endpoint)
       /\ poller' = [poller EXCEPT ![p] = [at |-> "admit", gen |-> @.gen, id |-> id, token |-> token,
                                           sequence |-> sequence, endpoint |-> endpoint]]
  /\ UNCHANGED <<binding, issued, peers, polling, delivered, total, sends, now>>

\* The registration is still the one the datagram was looked at for.
MutantStillValid(q) ==
  /\ binding.open /\ q.id \in DOMAIN peers
  /\ q.sequence > peers[q.id].received

StillValid(q) ==
  /\ binding.open /\ binding.gen = q.gen /\ q.id \in DOMAIN peers
  /\ peers[q.id].token = q.token /\ q.sequence > peers[q.id].received

\* The application's answer, and the commit.
PollCommits(p) ==
  LET q == poller[p] IN
  /\ q.at = "admit"
  /\ \/ poller' = [poller EXCEPT ![p].at = "receive"] /\ UNCHANGED <<peers, polling>>   \* rejected
     \/ /\ StillValid(q) /\ UNCHANGED polling
        /\ peers' = [peers EXCEPT ![q.id].received = q.sequence, ![q.id].endpoint = q.endpoint, ![q.id].ready = TRUE]
        /\ poller' = [poller EXCEPT ![p].at = "deliver"]
     \/ ~StillValid(q) /\ UNCHANGED peers /\
        IF binding.open /\ binding.gen = q.gen THEN poller' = [poller EXCEPT ![p].at = "receive"] /\ UNCHANGED polling
        ELSE poller' = [poller EXCEPT ![p] = Out] /\ polling' = FALSE
  /\ UNCHANGED <<binding, issued, delivered, total, sends, now, polled>>

\* The receiver runs without the mutex; the flag keeps other polls away.
PollDelivers(p) ==
  LET q == poller[p] IN
  /\ q.at = "deliver" /\ poller' = [poller EXCEPT ![p] = [Out EXCEPT !.at = "receive", !.gen = q.gen]]
  /\ delivered' = [delivered EXCEPT ![q.token] = Append(@, [id |-> q.id, sequence |-> q.sequence, endpoint |-> q.endpoint])]
  /\ UNCHANGED <<binding, issued, peers, polling, total, sends, now, polled>>

-----------------------------------------------------------------------------
(* SendPayload.                                                            *)

\* SendBucket::Available: what has flowed in since, up to the burst.
MutantFilled(b, rate) == [left |-> b.left + rate.rate * (now - b.updated), updated |-> now]
Filled(b, rate) ==
  LET left == b.left + rate.rate * (now - b.updated)
  IN  [left |-> IF left > rate.burst THEN rate.burst ELSE left, updated |-> now]

\* A datagram costs one; the socket may refuse it, which consumes nothing.
SendPayload(id) ==
  LET peer == peers[id]
      all == Filled(total, TotalRate)
      own == Filled(peer.bucket, PeerRate)
      goes == all.left >= 1 /\ own.left >= 1
  IN
  /\ id \in DOMAIN peers /\ binding.open /\ peers[id].ready /\ peers[id].sent < MaxSequence
  /\ \E taken \in BOOLEAN :
       LET n == IF goes /\ taken THEN 1 ELSE 0 IN
       /\ total' = [all EXCEPT !.left = @ - n]
       /\ peers' = [peers EXCEPT ![id].bucket = [own EXCEPT !.left = @ - n], ![id].sent = @ + n]
       /\ sends' = [sends EXCEPT !.all = @ + n, !.of[peer.token] = @ + n]
  /\ UNCHANGED <<binding, issued, polling, poller, delivered, now, polled>>

Next ==
  \/ Tick \/ Bind \/ Close
  \/ \E id \in Sessions : RegisterSession(id) \/ UnregisterSession(id) \/ SendPayload(id)
  \/ \E p \in Pollers :
       \/ PollBegins(p) \/ PollEnds(p) \/ PollCommits(p) \/ PollDelivers(p)
       \/ \E t \in Tokens, s \in 1..MaxSequence, e \in Endpoints : PollReceives(p, t, s, e)

Spec == Init /\ [][Next]_vars

-----------------------------------------------------------------------------

TypeOK ==
  /\ DOMAIN peers \subseteq Sessions /\ Cardinality(DOMAIN peers) <= MaxRegistered
  /\ issued \in 0..MaxTokens /\ binding.gen \in 0..MaxBindings /\ polling \in BOOLEAN

\* Whatever is registered, closed or bound meanwhile: a registration gets its
\* own datagrams, each at most once, in increasing order with bounded jumps,
\* and, where migration is off, all from one endpoint.
DatagramsAreNotReplayed ==
  \A t \in Tokens : LET d == delivered[t] IN
    /\ \A i, j \in DOMAIN d : i < j => d[i].sequence < d[j].sequence /\ d[i].id = d[j].id
    /\ \A i \in DOMAIN d : i > 1 => d[i].sequence - d[i-1].sequence <= MaxJump
    /\ ~Migration => \A i, j \in DOMAIN d : d[i].endpoint = d[j].endpoint

\* What a poll is about to deliver was committed by this very registration.
PeersAreTheirOwn ==
  /\ \A p, q \in Pollers : poller[p].at # "out" /\ poller[q].at # "out" => p = q
  /\ \A id \in DOMAIN peers : LET d == delivered[peers[id].token] IN
       /\ d # <<>> => d[1].id = id /\ peers[id].ready
       /\ peers[id].received # (IF d = <<>> THEN 0 ELSE d[Len(d)].sequence) =>
            \E p \in Pollers : /\ poller[p].at = "deliver" /\ poller[p].token = peers[id].token
                               /\ poller[p].sequence = peers[id].received

\* Sending never outruns a bucket, whatever was sent before and however long
\* the transport idled: from any point on at most the burst and what flowed in.
SendStaysWithinRate ==
  LET Within(b, rate, sent, since) ==
        b.left \in 0..rate.burst /\ sent + b.left <= rate.burst + rate.rate * (b.updated - since) IN
  /\ binding.open => Within(total, TotalRate, sends.all, binding.since)
  /\ \A id \in DOMAIN peers : LET t == peers[id].token IN
       Within(peers[id].bucket, PeerRate, sends.of[t], sends.since[t]) /\ peers[id].sent = sends.of[t]

\* The sessions, all in all.
PeersAreOrderly == TypeOK /\ DatagramsAreNotReplayed /\ PeersAreTheirOwn /\ SendStaysWithinRate

=============================================================================
