----------------------------- MODULE RouteTable -----------------------------
(***************************************************************************)
(* The routes of Web::HttpServer: exact paths and patterns, registered by  *)
(* method before Start, and the entry a request is given.  A raw segment   *)
(* of a path is a member of Raw; Decoding says what it decodes to, or that *)
(* it does not (DecodeSegment).  A segment of a pattern is a literal, by   *)
(* its decoded value, or a named parameter.                                *)
(***************************************************************************)
EXTENDS Integers, Sequences, SequencesExt, FiniteSets

CONSTANTS
  Raw,         \* raw path segments
  Decoding,    \* what each decodes to
  Invalid,     \* of those that do not decode
  Names,       \* parameter names
  Methods,
  MaxSegments,
  ExactPaths,  \* raw paths that may be registered
  MaxRoutes    \* registrations

Values == {Decoding[r] : r \in Raw} \ {Invalid}
Literal(v) == [parameter |-> FALSE, value |-> v]
Parameter(x) == [parameter |-> TRUE, value |-> x]

RawPaths == UNION {[1..n -> Raw] : n \in 1..MaxSegments}

\* CompileRoutePattern: literals decode, and no name is used twice.
Patterns ==
  {p \in UNION {[1..n -> {Literal(v) : v \in Values} \cup {Parameter(x) : x \in Names}] : n \in 1..MaxSegments} :
     \A i, j \in DOMAIN p : p[i].parameter /\ p[i] = p[j] => i = j}

VARIABLES
  exact,      \* mExact: raw paths with a target for each method
  patterns,   \* mPatterns: groups of a shape with an entry for each method
  used,       \* the server was started
  targets,    \* registrations accepted, in order
  reply       \* what the last request was given

vars == <<exact, patterns, used, targets, reply>>

Nothing == [status |-> 0]

Init == exact = <<>> /\ patterns = <<>> /\ used = FALSE /\ targets = <<>> /\ reply = Nothing

-----------------------------------------------------------------------------

MatchesRoutePattern(pattern, path) ==
  /\ Len(pattern) = Len(path)
  /\ \A i \in DOMAIN path : IF pattern[i].parameter THEN path[i] # "" ELSE pattern[i].value = path[i]

SameRouteShape(left, right) ==
  /\ Len(left) = Len(right)
  /\ \A i \in DOMAIN left :
       /\ left[i].parameter = right[i].parameter
       /\ ~left[i].parameter => left[i].value = right[i].value

\* A literal where the other has its first different kind of segment.
MutantMoreSpecificRoutePattern(left, right) ==
  /\ Len(left) = Len(right)
  /\ \E i \in DOMAIN left : ~left[i].parameter /\ right[i].parameter
MoreSpecificRoutePattern(left, right) ==
  /\ Len(left) = Len(right)
  /\ \E i \in DOMAIN left :
       /\ ~left[i].parameter /\ right[i].parameter
       /\ \A j \in 1..(i - 1) : left[j].parameter = right[j].parameter

\* The parameters of a pattern with the segments they matched.
CaptureRouteParameters(pattern, path) ==
  {<<pattern[i].value, path[i]>> : i \in {j \in DOMAIN pattern : pattern[j].parameter}}

Decodes(raw) == \A i \in DOMAIN raw : Decoding[raw[i]] # Invalid
DecodeRoutePath(raw) == [i \in DOMAIN raw |-> Decoding[raw[i]]]

-----------------------------------------------------------------------------
\* Registration, until the server is started.

Entry(n, pattern) == [target |-> n, pattern |-> pattern]

\* A second target for a method of the path is refused.
AddExact(method, path) ==
  /\ LET known == IF path \in DOMAIN exact THEN exact[path] ELSE <<>>
         n == Len(targets) + 1 IN
     /\ method \notin DOMAIN known
     /\ exact' = [q \in DOMAIN exact \cup {path} |->
                    IF q # path THEN exact[q]
                    ELSE [m \in DOMAIN known \cup {method} |-> IF m = method THEN Entry(n, <<>>) ELSE known[m]]]
     /\ targets' = Append(targets, [method |-> method, path |-> path, pattern |-> <<>>])
  /\ UNCHANGED <<patterns, used, reply>>

\* Patterns of one shape are one group, whatever their names.
AddPattern(method, pattern) ==
  LET group == SelectInSeq(patterns, LAMBDA g : SameRouteShape(g.shape, pattern))
      n == Len(targets) + 1 IN
  /\ \/ /\ group = 0
        /\ patterns' = Append(patterns, [shape |-> pattern, methods |-> [m \in {method} |-> Entry(n, pattern)]])
     \/ /\ group # 0 /\ method \notin DOMAIN patterns[group].methods
        /\ patterns' = [patterns EXCEPT ![group].methods =
                          [m \in DOMAIN @ \cup {method} |-> IF m = method THEN Entry(n, pattern) ELSE @[m]]]
  /\ targets' = Append(targets, [method |-> method, path |-> <<>>, pattern |-> pattern])
  /\ UNCHANGED <<exact, used, reply>>

RegisterRoute(method, path) == ~used /\ Len(targets) < MaxRoutes /\ AddExact(method, path)
RegisterRoutePattern(method, pattern) == ~used /\ Len(targets) < MaxRoutes /\ AddPattern(method, pattern)

Start == ~used /\ used' = TRUE /\ UNCHANGED <<exact, patterns, targets, reply>>

-----------------------------------------------------------------------------
\* Find keeps the best group so far as it goes through them.
Best(path) ==
  FoldLeft(LAMBDA best, g : IF MatchesRoutePattern(g.shape, path)
                               /\ (best = <<>> \/ MoreSpecificRoutePattern(g.shape, best[1].shape))
                            THEN <<g>> ELSE best, <<>>, patterns)

Find(raw) ==
  IF raw \in DOMAIN exact THEN [invalid |-> FALSE, methods |-> exact[raw]]
  ELSE IF patterns = <<>> THEN [invalid |-> FALSE, methods |-> <<>>]
  ELSE IF ~Decodes(raw) THEN [invalid |-> TRUE, methods |-> <<>>]
  ELSE LET best == Best(DecodeRoutePath(raw)) IN
       [invalid |-> FALSE, methods |-> IF best = <<>> THEN <<>> ELSE best[1].methods]

\* AllowedMethods: HEAD is allowed wherever GET is.
AllowedMethods(methods) == DOMAIN methods \cup (IF "GET" \in DOMAIN methods THEN {"HEAD"} ELSE {})

\* The part of HandleRequest that chooses: 400, 404, 405, or an entry and its parameters.
Chooses(method, raw) ==
  LET match == Find(raw)
      m == IF method = "HEAD" /\ "HEAD" \notin DOMAIN match.methods THEN "GET" ELSE method IN
  IF match.invalid THEN [status |-> 400]
  ELSE IF match.methods = <<>> THEN [status |-> 404]
  ELSE IF m \notin DOMAIN match.methods THEN [status |-> 405, allow |-> AllowedMethods(match.methods)]
  ELSE [status |-> 200, target |-> match.methods[m].target,
        parameters |-> CaptureRouteParameters(match.methods[m].pattern,
                         IF match.methods[m].pattern = <<>> THEN <<>> ELSE DecodeRoutePath(raw))]

Request(method, raw) ==
  /\ used /\ reply' = Chooses(method, raw)
  /\ UNCHANGED <<exact, patterns, used, targets>>

Next ==
  \/ Start
  \/ \E m \in Methods : \/ \E raw \in ExactPaths : RegisterRoute(m, raw)
                        \/ \E p \in Patterns : RegisterRoutePattern(m, p)
  \/ reply = Nothing /\ \E m \in Methods \cup {"HEAD"}, raw \in RawPaths : Request(m, raw)

Spec == Init /\ [][Next]_vars

-----------------------------------------------------------------------------

TypeOK ==
  /\ Len(targets) <= MaxRoutes /\ used \in BOOLEAN
  /\ \A i \in DOMAIN patterns : patterns[i].shape \in Patterns

\* What the registrations say of a path, without the table: an exact path of its
\* raw spelling, or else the patterns that match it and that no other is more specific than.
Registered(raw) ==
  LET exactly == {n \in DOMAIN targets : targets[n].pattern = <<>> /\ targets[n].path = raw}
      matching == {n \in DOMAIN targets : targets[n].pattern # <<>> /\ Decodes(raw)
                                          /\ MatchesRoutePattern(targets[n].pattern, DecodeRoutePath(raw))}
      literals(n) == {i \in DOMAIN targets[n].pattern : ~targets[n].pattern[i].parameter}
      first(n, k) == \E i \in literals(n) \ literals(k) : \A j \in literals(k) \ literals(n) : i < j IN
  IF exactly # {} THEN exactly ELSE {n \in matching : ~\E k \in matching : first(k, n)}

\* Whatever the order of registration, a path has the methods of its most
\* specific resource and of no other, each with the target and the parameter
\* names it was registered with; a generic route never adds a method.  (A reply
\* leaves the table alone: each table is asked once.)
RoutingIsByTheMostSpecific ==
  /\ TypeOK
  /\ reply = Nothing => \A raw \in RawPaths : \A method \in Methods :
    LET chosen == Chooses(method, raw)
        own == {n \in Registered(raw) : targets[n].method = method} IN
    /\ chosen.status = 200 <=> own # {}
    /\ own # {} => own = {chosen.target}
    /\ (own # {} /\ targets[chosen.target].pattern # <<>>) =>
         {c[1] : c \in chosen.parameters} =
           {targets[chosen.target].pattern[i].value :
              i \in {j \in DOMAIN raw : targets[chosen.target].pattern[j].parameter}}
    /\ chosen.status = 404 => Registered(raw) = {}
    /\ chosen.status = 405 => {targets[n].method : n \in Registered(raw)} \subseteq chosen.allow

=============================================================================
