----------------------------- MODULE HttpParser -----------------------------
(***************************************************************************)
(* Web::Detail::HttpParser: requests that arrive in pieces of any size and *)
(* are parsed as far as they go, with the caller (Peer::ProcessInput) that *)
(* chooses between a buffered and a streamed body when the head is known,  *)
(* and gives a streamed body the credit of its reader before each call.    *)
(*                                                                         *)
(* A message is a request line, fields, a body (in chunks) and trailers,   *)
(* and Wire writes it down.  The symbols are the bytes "cr" and "lf",      *)
(* hexadecimal digits, others, and whole lines: "post" (a buffered route)  *)
(* and "put" (a streamed one), "old" a post of HTTP/1.0, "next" of an      *)
(* unknown version; fields "host", "expect", "length0"..., "chunked",      *)
(* "zip chunked" and "zip"; anything else that is a field is "other".      *)
(***************************************************************************)
EXTENDS Integers, Sequences, SequencesExt, FiniteSetsExt

CONSTANTS
  Streams,       \* sequences of records [lead, line, fields, chunks, trailers]; a chunk is [size, data]
  Cuts,          \* sizes of the pieces they arrive in
  MaxHeaders, MaxFields, MaxBody, MaxStreamed, MaxChunk

VARIABLES
  stream,    \* what the client sends
  wire,      \* the part of it that has not arrived
  input,     \* what has arrived and was not consumed
  parser,    \* stage, remaining, overhead, trailers, search, continue, streaming, maxBody, bodyBytes, body, and who it is for
  calling,   \* ProcessInput is in its loop
  got        \* the requests: line, continued, body, and their status, 0 before the end

vars == <<stream, wire, input, parser, calling, got>>

CRLF == <<"cr", "lf">>
Digits == [d \in {"0", "1", "2", "3"} |-> CASE d = "0" -> 0 [] d = "1" -> 1 [] d = "2" -> 2 [] d = "3" -> 3]
Lengths == [f \in {"length0", "length1", "length3"} |-> CASE f = "length0" -> 0 [] f = "length1" -> 1 [] f = "length3" -> 3]
Transfers == {"chunked", "zip chunked", "zip"}
Fields == {"host", "expect", "other"} \cup DOMAIN Lengths \cup Transfers
Lines(lines) == FlattenSeq([i \in 1..Len(lines) |-> <<lines[i]>> \o CRLF])

\* How a client writes a message.
Chunked(m) == "chunked" \in Range(m.fields)
Body(m) == FlattenSeq([i \in 1..Len(m.chunks) |-> m.chunks[i].data])
HeadOf(m) == Lines(<<m.line>> \o m.fields) \o CRLF
WireChunk(c) == c.size \o CRLF \o c.data \o CRLF
Wire(m) ==
  FlattenSeq([i \in 1..m.lead |-> CRLF]) \o HeadOf(m)
    \o (IF Chunked(m) THEN FlattenSeq([i \in 1..Len(m.chunks) |-> WireChunk(m.chunks[i])]) \o <<"0">> \o CRLF
                           \o Lines(m.trailers) \o CRLF
        ELSE Body(m))

\* A parser as the server makes it, one for every request.
NewParser(separate) ==
  [stage |-> "Headers", remaining |-> 0, overhead |-> 0, trailers |-> 0, search |-> 0, continue |-> FALSE,
   streaming |-> FALSE, maxBody |-> IF separate THEN MaxStreamed ELSE MaxBody, bodyBytes |-> 0, separate |-> separate]

Init ==
  /\ stream \in Streams /\ wire = FlattenSeq([i \in 1..Len(stream) |-> Wire(stream[i])]) /\ input = <<>> /\ got = <<>>
  /\ calling = FALSE /\ \E separate \in BOOLEAN : parser = NewParser(separate)

-----------------------------------------------------------------------------
\* How a call of Parse ends: what it consumed, what the parser becomes, and what ProcessInput does about it.

Consume(n) == input' = SubSeq(input, n + 1, Len(input))
NeedMore(next, n) == parser' = next /\ Consume(n) /\ calling' = FALSE /\ UNCHANGED got
Loops(next, n) == parser' = next /\ Consume(n) /\ UNCHANGED <<calling, got>>

This == Len(got)
Ended(end) == [got EXCEPT ![This].end = end]
Opened(line) == Append(got, [line |-> line, continued |-> FALSE, body |-> <<>>, end |-> 0])

\* HttpError, or the end of the connection of a streamed body.  A request whose head failed was never opened.
Fail(status) ==
  /\ parser' = [parser EXCEPT !.stage = "Failed"] /\ calling' = FALSE /\ UNCHANGED input
  /\ got' = IF parser.stage = "Headers" THEN Append(got, [line |-> "none", continued |-> FALSE, body |-> <<>>, end |-> status])
            ELSE Ended(status)

\* Complete; the server starts the next request with a new parser.
Complete(n, body) ==
  /\ parser' = NewParser(parser.separate) /\ Consume(n) /\ UNCHANGED calling
  /\ got' = [got EXCEPT ![This].body = @ \o body, ![This].end = 200]

-----------------------------------------------------------------------------
\* ParseHeaders.

Count(fields, kind) == Len(SelectSeq(fields, LAMBDA f : f \in kind))
Repeats(fields, i, kind) == fields[i] \in kind /\ Count(SubSeq(fields, 1, i - 1), kind) > 0

FieldStatus(fields, i) ==
  IF fields[i] \notin Fields \/ i > MaxFields \/ Repeats(fields, i, {"host"}) \/ Repeats(fields, i, DOMAIN Lengths)
     \/ Repeats(fields, i, Transfers)
  THEN 400
  ELSE IF fields[i] \in DOMAIN Lengths /\ Lengths[fields[i]] > parser.maxBody THEN 413
  ELSE IF Repeats(fields, i, {"expect"}) THEN 417
  ELSE 200

Has(fields, kind) == Range(fields) \cap kind # {}
FramingStatus(line, fields) ==
  IF (~Has(fields, {"host"}) /\ line # "old") \/ (Has(fields, DOMAIN Lengths) /\ Has(fields, Transfers))
     \/ (line = "old" /\ Has(fields, Transfers))
  THEN 400
  ELSE IF Has(fields, {"zip chunked"}) THEN 501 ELSE IF Has(fields, {"zip"}) THEN 400 ELSE 200

HeadStatus(line, fields) ==
  LET wrong == {i \in 1..Len(fields) : FieldStatus(fields, i) # 200} IN
  IF line = "next" THEN 505
  ELSE IF line \notin {"post", "put", "old"} THEN 400
  ELSE IF wrong # {} THEN FieldStatus(fields, Min(wrong)) ELSE FramingStatus(line, fields)

Length(fields) == Max({0} \cup {Lengths[f] : f \in Range(fields) \cap DOMAIN Lengths})

\* The lines of a block that holds line ends only in pairs; one that is not a single symbol is none.
LinesOf(block) ==
  LET ends == {i \in 1..Len(block) : block[i] = "lf"}
      line(end) == LET from == Max({0} \cup {i \in ends : i < end}) IN SubSeq(block, from + 1, end - 2)
      sorted == SetToSortSeq(ends, <)
  IN  [i \in 1..Len(sorted) |-> IF Len(line(sorted[i])) = 1 THEN line(sorted[i])[1] ELSE "nonsense"]

\* The head of the next request: ParseHeaders, and what ConfigureBody then says of its body.
ParseHeaders(size) ==
  LET lines == LinesOf(SubSeq(input, 1, size - 2))
      line == lines[1]
      fields == SubSeq(lines, 2, Len(lines))
      transfer == Has(fields, Transfers)
      streaming == parser.separate /\ line = "put"
      limit == IF streaming THEN MaxStreamed ELSE MaxBody
      length == Length(fields)
  IN  IF HeadStatus(line, fields) # 200 THEN Fail(HeadStatus(line, fields))
      ELSE IF parser.separate /\ length > limit THEN Fail(413)
      ELSE /\ parser' = [parser EXCEPT !.stage = IF transfer THEN "ChunkSize" ELSE "FixedBody", !.remaining = length,
                                       !.continue = Has(fields, {"expect"}) /\ line # "old" /\ (transfer \/ length # 0),
                                       !.streaming = streaming, !.maxBody = limit]
           /\ got' = Opened(line) /\ Consume(size) /\ UNCHANGED calling

MutantAfterCr(i) == i > parser.search + 1 /\ input[i - 1] = "cr"
AfterCr(i) == i > 1 /\ input[i - 1] = "cr"
Unpaired(i) == IF input[i] = "lf" THEN ~AfterCr(i) ELSE AfterCr(i)
EndsHead(i) == input[i] = "lf" /\ i >= 4 /\ input[i - 2] = "lf"

\* Empty lines before a request; a cr may be half of one.
SkipLines ==
  /\ calling /\ parser.stage = "Headers" /\ parser.search = 0
  /\ \/ IsPrefix(CRLF, input) /\ Loops(parser, 2)
     \/ input = <<"cr">> /\ NeedMore(parser, 0)
  /\ UNCHANGED <<stream, wire>>

\* Only what is new is searched for the end of the head.
ParseHead ==
  LET new == parser.search + 1..Len(input)
      stops == {i \in new : Unpaired(i) \/ EndsHead(i)}
  IN  /\ calling /\ parser.stage = "Headers" /\ (parser.search = 0 => ~IsPrefix(CRLF, input) /\ input # <<"cr">>)
      /\ IF stops = {}
         THEN IF Len(input) >= MaxHeaders THEN Fail(431) ELSE NeedMore([parser EXCEPT !.search = Len(input)], 0)
         ELSE IF Unpaired(Min(stops)) THEN Fail(400)
         ELSE IF Min(stops) > MaxHeaders THEN Fail(431)
         ELSE ParseHeaders(Min(stops))
      /\ UNCHANGED <<stream, wire>>

\* Advance returns Continue, or TakeContinue takes it, and 100 is sent.
Continue ==
  /\ calling /\ parser.continue /\ parser' = [parser EXCEPT !.continue = FALSE]
  /\ got' = [got EXCEPT ![This].continued = TRUE] /\ UNCHANGED <<stream, wire, input, calling>>

-----------------------------------------------------------------------------
\* The body, with what the reader of a streamed one has credit for.

Credits == IF parser.streaming THEN 0..MaxChunk ELSE {parser.remaining}
Takes(n) == [parser EXCEPT !.remaining = @ - n, !.bodyBytes = @ + n]
Pushed(n) == [got EXCEPT ![This].body = @ \o SubSeq(input, 1, n)]
InBody(stage) == calling /\ ~parser.continue /\ parser.stage = stage

FixedBody ==
  /\ InBody("FixedBody")
  /\ \E credit \in Credits :
       LET count == Min({Len(input), parser.remaining, credit}) IN
       IF parser.remaining = count /\ ~(parser.streaming /\ count # 0) THEN Complete(count, SubSeq(input, 1, count))
       ELSE parser' = Takes(count) /\ Consume(count) /\ got' = Pushed(count) /\ calling' = (parser.streaming /\ count # 0)
  /\ UNCHANGED <<stream, wire>>

ChunkData ==
  /\ InBody("ChunkData")
  /\ \E credit \in Credits :
       LET count == Min({Len(input), parser.remaining, credit})
           whole == parser.remaining = count
       IN  /\ parser' = [Takes(count) EXCEPT !.stage = IF whole THEN "ChunkEnd" ELSE @]
           /\ Consume(count) /\ got' = Pushed(count) /\ calling' = (whole \/ (parser.streaming /\ count # 0))
  /\ UNCHANGED <<stream, wire>>

\* The first line of the input: the place of its end, or 0.
LineEnds == {i \in 1..Len(input) - 1 : input[i] = "cr" /\ input[i + 1] = "lf"}
LineEnd == IF LineEnds = {} THEN 0 ELSE Min(LineEnds)
Line == SubSeq(input, 1, LineEnd - 1)

\* A line that is not yet whole, or whose size the room left does not hold.
ShortLine(room) ==
  \/ LineEnd = 0 /\ Len(input) > room /\ Fail(431)
  \/ LineEnd = 0 /\ Len(input) <= room /\ NeedMore(parser, 0)
  \/ LineEnd > 0 /\ LineEnd + 1 > room /\ Fail(431)

HexEnd(line) == Min({i \in 1..Len(line) + 1 : i = Len(line) + 1 \/ line[i] \notin DOMAIN Digits}) - 1
Size(line) == FoldLeft(LAMBDA sum, d : 16 * sum + Digits[d], 0, SubSeq(line, 1, HexEnd(line)))
ValidSize(line) == HexEnd(line) > 0 /\ SubSeq(line, HexEnd(line) + 1, Len(line)) \in {<<>>, <<"extension">>}

ChunkSize ==
  LET room == MaxHeaders - parser.overhead IN
  /\ InBody("ChunkSize")
  /\ \/ ShortLine(room)
     \/ /\ LineEnd > 0 /\ LineEnd + 1 <= room
        /\ IF ~ValidSize(Line) THEN Fail(400)
           ELSE IF Size(Line) > parser.maxBody - parser.bodyBytes THEN Fail(413)
           ELSE Loops([parser EXCEPT !.remaining = Size(Line), !.overhead = @ + LineEnd + 1,
                                     !.stage = IF Size(Line) = 0 THEN "Trailers" ELSE "ChunkData"], LineEnd + 1)
  /\ UNCHANGED <<stream, wire>>

ChunkEnd ==
  /\ InBody("ChunkEnd")
  /\ IF Len(input) < 2 THEN NeedMore(parser, 0)
     ELSE IF ~IsPrefix(CRLF, input) THEN Fail(400)
     ELSE IF parser.overhead > MaxHeaders - 2 THEN Fail(431)
     ELSE Loops([parser EXCEPT !.overhead = IF parser.streaming THEN 0 ELSE @ + 2, !.stage = "ChunkSize"], 2)
  /\ UNCHANGED <<stream, wire>>

\* No field at all, or one that frames, routes or authorizes.
ForbiddenTrailer(line) == line # <<"other">>

Trailers ==
  LET room == MaxHeaders - parser.trailers IN
  /\ InBody("Trailers")
  /\ \/ ShortLine(room)
     \/ /\ LineEnd > 0 /\ LineEnd + 1 <= room
        /\ IF Line = <<>> THEN Complete(2, <<>>)
           ELSE IF ForbiddenTrailer(Line) THEN Fail(400)
           ELSE Loops([parser EXCEPT !.trailers = @ + LineEnd + 1], LineEnd + 1)
  /\ UNCHANGED <<stream, wire>>

-----------------------------------------------------------------------------
\* ProcessInput begins: bytes arrive, or the credit of a body returns.

Arrive ==
  /\ ~calling /\ parser.stage # "Failed" /\ wire # <<>> /\ calling' = TRUE
  /\ \E n \in Cuts : LET size == Min({n, Len(wire)}) IN
       input' = input \o SubSeq(wire, 1, size) /\ wire' = SubSeq(wire, size + 1, Len(wire))
  /\ UNCHANGED <<stream, parser, got>>

CreditReleased ==
  /\ ~calling /\ parser.stage \in {"FixedBody", "ChunkData"} /\ parser.streaming /\ input # <<>>
  /\ calling' = TRUE /\ UNCHANGED <<stream, wire, input, parser, got>>

Next ==
  \/ Arrive \/ CreditReleased \/ SkipLines \/ ParseHead \/ Continue
  \/ FixedBody \/ ChunkSize \/ ChunkData \/ ChunkEnd \/ Trailers

Spec == Init /\ [][Next]_vars

-----------------------------------------------------------------------------
\* Which messages are requests, from the message alone.

Limit(m) == IF parser.separate /\ m.line = "put" THEN MaxStreamed ELSE MaxBody
Once(m, kind) == Count(m.fields, kind) <= 1
Overheads(m) == [i \in 1..Len(m.chunks) |-> Len(m.chunks[i].size) + 4]
Overhead(m) == FoldSeq(LAMBDA size, sum : size + sum, 0, Overheads(m))

HeadIsOne(m) ==
  /\ m.line \in {"post", "put", "old"} /\ Range(m.fields) \subseteq Fields /\ Len(m.fields) <= MaxFields
  /\ Once(m, {"host"}) /\ Once(m, {"expect"}) /\ Once(m, DOMAIN Lengths \cup Transfers)
  /\ m.line = "old" \/ Has(m.fields, {"host"})
  /\ Has(m.fields, Transfers) => Chunked(m) /\ m.line # "old"
  /\ Len(HeadOf(m)) <= MaxHeaders /\ Length(m.fields) <= Limit(m)

ChunksAreOne(m) ==
  /\ \A i \in 1..Len(m.chunks) : LET c == m.chunks[i] IN ValidSize(c.size) /\ Size(c.size) = Len(c.data) /\ c.data # <<>>
  /\ Len(Body(m)) <= Limit(m) /\ Range(m.trailers) \subseteq {"other"} /\ Len(Lines(m.trailers)) + 2 <= MaxHeaders
  /\ IF parser.separate /\ m.line = "put" THEN \A i \in 1..Len(m.chunks) : Overheads(m)[i] <= MaxHeaders
     ELSE Overhead(m) + 3 <= MaxHeaders

IsRequest(m) == HeadIsOne(m) /\ (Chunked(m) => ChunksAreOne(m))
Expects(m) == Has(m.fields, {"expect"}) /\ m.line # "old" /\ (Chunked(m) \/ Length(m.fields) # 0)

\* TypeOK.  Stages and the counters that the limits are reckoned from.
TypeOK ==
  /\ parser.stage \in {"Headers", "FixedBody", "ChunkSize", "ChunkData", "ChunkEnd", "Trailers", "Failed"}
  /\ parser.overhead \in 0..MaxHeaders /\ parser.trailers \in 0..MaxHeaders
  /\ (parser.stage = "Headers" => parser.search \in 0..Len(input))

\* StreamIsDecoded.  However a stream of requests is cut, each is parsed as it was written: its
\* line, its body, its 100 and where it ends.
StreamIsDecoded ==
  /\ Len(got) <= Len(stream)
  /\ \A i \in 1..Len(got) : LET m == stream[i] IN
       /\ got[i].end = 200 =>
            IsRequest(m) /\ got[i].line = m.line /\ got[i].body = Body(m) /\ got[i].continued = Expects(m)
       /\ got[i].end = 0 => i = Len(got) /\ got[i].line = m.line
       /\ got[i].end \notin {0, 200} => ~IsRequest(m) /\ i = Len(got) /\ parser.stage = "Failed"
       /\ IsPrefix(got[i].body, Body(m))
  /\ got # <<>> /\ parser.bodyBytes > 0 => parser.bodyBytes <= Limit(stream[Len(got)])

\* NothingIsLeft.  When everything has arrived and nothing is left to do, every request was parsed up to the first that is none.
NothingIsLeft ==
  ~calling /\ wire = <<>> /\ ~ENABLED CreditReleased =>
    \/ parser.stage = "Failed"
    \/ Len(got) = Len(stream) /\ \A i \in 1..Len(got) : got[i].end = 200

\* ParserIsExact.  HttpParser, all in all: what it parses does not depend on how the input arrives.
ParserIsExact == TypeOK /\ StreamIsDecoded /\ NothingIsLeft
=============================================================================
