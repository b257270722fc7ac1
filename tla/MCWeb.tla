-------------------------------- MODULE MCWeb --------------------------------
(***************************************************************************)
(* The parts of Web::HttpServer, the request limiter and the file services *)
(* for TLC.  A behaviour is one of one part.  RequestLimiter has its own   *)
(* variables; the other parts share the variables x1, x2, ... by position, *)
(* and a part leaves alone those it does not use.                          *)
(***************************************************************************)
EXTENDS RequestLimiter, Sequences

CONSTANTS
  Parts,       \* the parts that are checked
  FormsSent,   \* the multipart forms
  Absent, Missing

VARIABLES part, x1, x2, x3, x4, x5, x6, x7, x8, x9, x10, x11, x12

others == <<x1, x2, x3, x4, x5, x6, x7, x8, x9, x10, x11, x12>>

-----------------------------------------------------------------------------

\* Two peers, of which the server admits one at a time.
Server == INSTANCE HttpServer WITH
  Peers <- {"p1", "p2"}, MaxConnections <- 1, AppCalls <- 2, Requests <- 1,
  server <- x1, peers <- x2, conn <- x3, notice <- x4, lock <- x5, pending <- x6, deferred <- x7,
  progress <- x8, thread <- x9, drain <- x10, closed <- x11, budget <- x12

\* Pipelined, streamed, refused and malformed requests, with and without a policy.
Exchanges ==
  [sends : {<<"get", "last">>, <<"up", "piece", "end">>, <<"upx", "bad">>}, policy : {FALSE}]
  \cup [sends : {<<"get">>, <<"headx", "piece", "end">>, <<"up", "end">>, <<"miss", "bad">>, <<"pre">>}, policy : {TRUE}]

Exchange == INSTANCE HttpExchange WITH
  Scripts <- Exchanges, MaxRequests <- 2, MaxInput <- 2, PauseAt <- 1, MaxPieces <- 1, MaxActive <- 2, Faults <- 1,
  peer <- x1, turn <- x2, net <- x3, resp <- x4, decision <- x5, body <- x6, handler <- x7, wire <- x8,
  used <- x9, progress <- x10, draining <- x11, faults <- x12

Socket == INSTANCE WebSocketPeer WITH
  Scripts <- {<<"text", "close">>, <<"first", "final">>, <<"ping", "more">>, <<"pong">>, <<"bad">>},
  MaxInput <- 1, Pauses <- 1, MaxWrites <- 2, Faults <- 1,
  ws <- x1, net <- x2, out <- x3, heart <- x4, pauser <- x5, turn <- x6, progress <- x7, wire <- x8,
  got <- x9, budget <- x10

\* Requests with bodies that hold line ends, in chunks or not, pipelined; and what is none: too long a head, too large a
\* body, too many trailers, unpaired line ends, repeated or contradicting fields.
Piece(size, data) == [size |-> size, data |-> data]
Message(lead, line, fields, chunks, trailers) ==
  [lead |-> lead, line |-> line, fields |-> fields, chunks |-> chunks, trailers |-> trailers]
Get == Message(0, "post", <<"host">>, <<>>, <<>>)
Refused(line, fields) == <<Message(0, line, fields, <<>>, <<>>), Get>>
InChunks(line, chunks, trailers) == <<Message(0, line, <<"chunked", "host">>, chunks, trailers), Get>>
RequestStreams ==
  {<<Message(1, "post", <<"host", "length3", "expect">>, <<Piece(<<>>, <<"cr", "lf", "x">>)>>, <<>>), Get>>,
   <<Message(0, "put", <<"host", "length3">>, <<Piece(<<>>, <<"x", "cr", "lf">>)>>, <<>>), Message(2, "put", <<"host">>, <<>>, <<>>)>>,
   <<Message(0, "old", <<"expect", "length1">>, <<Piece(<<>>, <<"x">>)>>, <<>>), Get>>,
   <<Message(0, "put", <<"host", "chunked", "expect">>,
             <<Piece(<<"2">>, <<"cr", "lf">>), Piece(<<"0", "1", "extension">>, <<"x">>), Piece(<<"1">>, <<"x">>)>>, <<"other">>), Get>>,
   InChunks("post", <<Piece(<<"1">>, <<"lf">>), Piece(<<"1">>, <<"cr">>)>>, <<"other">>),
   InChunks("post", <<Piece(<<"1", "extension">>, <<"x">>), Piece(<<"1", "extension">>, <<"x">>)>>, <<>>),
   InChunks("post", <<Piece(<<"2">>, <<"x", "x">>), Piece(<<"2">>, <<"x", "x">>)>>, <<>>),
   InChunks("put", <<Piece(<<"3">>, <<"x", "x", "x">>), Piece(<<"2">>, <<"x", "x">>)>>, <<>>),
   InChunks("post", <<Piece(<<"1">>, <<"x", "x">>)>>, <<>>), InChunks("post", <<Piece(<<"x">>, <<"x">>)>>, <<>>),
   InChunks("post", <<>>, <<"host">>), InChunks("post", <<>>, <<"other", "other", "other", "other", "other">>),
   <<Get, Message(0, "post", <<"other">>, <<>>, <<>>), Get>>, Refused("next", <<"host">>), Refused("old", <<"chunked">>),
   Refused("post", <<"host", "cr">>), Refused("post", <<"host", "lf">>), Refused("post", <<"expect", "host", "expect">>),
   Refused("post", <<"host", "length1", "length1">>), Refused("post", <<"host", "length0", "chunked">>),
   Refused("post", <<"host", "other", "other", "other">>), Refused("post", <<"host", "zip chunked">>), Refused("post", <<"host", "zip">>)}

Parser == INSTANCE HttpParser WITH
  Streams <- RequestStreams, Cuts <- {1, 2, 3, 60}, MaxHeaders <- 14, MaxFields <- 3, MaxBody <- 3, MaxStreamed <- 4, MaxChunk <- 2,
  stream <- x1, wire <- x2, input <- x3, parser <- x4, calling <- x5, got <- x6

\* Forms whose data look like delimiters; too many or too large parts, unsound heads, no end.
Part(head, data) == [head |-> head, data |-> data]
Form(preamble, parts, pad, end, epilogue) ==
  [preamble |-> preamble, parts |-> parts, pad |-> pad, end |-> end, epilogue |-> epilogue]
End == <<"-", "-">>
Plain(parts) == Form(<<>>, parts, <<>>, End, <<>>)
Xs(n) == [i \in 1..n |-> "x"]
MultipartForms ==
  {Form(<<>>, <<Part(<<"field">>, <<"x">>), Part(<<"file">>, Xs(3))>>, <<>>, End \o <<"cr", "lf">>, <<>>),
   Form(<<"x">>, <<Part(<<"field">>, <<"cr", "lf", "-", "-", "b", "x">>)>>, <<>>, End, <<>>),
   Form(Xs(9), <<Part(<<"type", "file">>, <<"cr", "lf", "-", "-", "b", "-", "x">>)>>, <<"sp">>, End \o <<"cr", "lf">>, <<"x">>),
   Form(<<"-", "-", "x">>, <<Part(<<"file">>, <<"cr", "lf", "-", "cr">>)>>, <<"sp", "sp", "sp">>, End \o <<"sp">>, <<>>),
   Form(<<>>, <<Part(<<"field">>, <<"x">>)>>, <<>>, <<>>, <<>>), Form(<<>>, <<Part(<<"field">>, <<"x">>)>>, <<>>, <<"-">>, <<>>),
   Form(<<>>, <<Part(<<"field">>, <<>>)>>, <<>>, End \o <<"cr", "lf">>, Xs(30)),
   Plain(<<Part(<<"file">>, <<>>), Part(<<"file">>, <<>>)>>), Plain(<<Part(<<"field">>, <<>>), Part(<<"file">>, <<>>), Part(<<"field">>, <<>>)>>),
   Plain(<<Part(<<"field", "file">>, <<>>)>>), Plain(<<Part(<<"other", "other", "field">>, <<>>)>>), Plain(<<Part(<<"other">>, <<>>)>>),
   Plain(<<Part(<<"encoded", "field">>, <<>>)>>), Plain(<<Part(<<>>, <<"x">>)>>), Plain(<<Part(<<"field">>, Xs(7))>>),
   Plain(<<Part(<<"file">>, Xs(20))>>)}

\* A preamble with a line that only looks like a delimiter.
DeceivingForms == {Form(<<"-", "-", "b", "x">>, <<Part(<<"field">>, <<"x">>)>>, <<>>, End, <<>>)}

Multipart == INSTANCE MultipartParser WITH
  Forms <- FormsSent, Cuts <- {1, 3, 60}, Weight <- [field |-> 2, file |-> 2, type |-> 2, other |-> 1, encoded |-> 1],
  MaxParts <- 2, MaxFiles <- 1, MaxHeaders <- 2, MaxHeaderBytes <- 8, MaxPartBytes <- 6, MaxFileBytes <- 7, MaxTotalBytes <- 40,
  MaxRetainedBytes <- 27, MaxEventBytes <- 4,
  form <- x1, wire <- x2, state <- x3, buffer <- x4, held <- x5, events <- x6, reply <- x7

\* Lengths on both sides of every bound of a frame, and bytes on both sides of every bound of UTF-8.
ClientFrames ==
  [final : BOOLEAN, reserved : BOOLEAN, opcode : {0, 2, 3, 8, 10}, masked : BOOLEAN, short : {0, 125}, long : {0}, top : {FALSE}]
  \cup [final : BOOLEAN, reserved : {FALSE}, opcode : {1, 9}, masked : {TRUE}, short : {126}, long : {125, 126, 65535}, top : {FALSE}]
  \cup [final : BOOLEAN, reserved : {FALSE}, opcode : {1, 9}, masked : {TRUE}, short : {127}, long : {65535, 65536, 65537}, top : BOOLEAN]

Protocol(frames) == INSTANCE WebSocketProtocol WITH
  Frames <- frames, MaxPayload <- 65536, Bytes <- {65, 128, 144, 160, 193, 194, 224, 237, 240, 244, 245}, MaxText <- 4,
  frame <- x1, arrived <- x2, answer <- x3, text <- x4, pending <- x5, verdict <- x6
AnyFrame == {CHOOSE f \in ClientFrames : TRUE}

\* Two spellings of one segment and one that does not decode.
Routes == INSTANCE RouteTable WITH
  Raw <- {"a", "A", "x"}, Decoding <- [a |-> "a", A |-> "a", x |-> "invalid"], Invalid <- "invalid",
  Names <- {"p", "q"}, Methods <- {"GET", "PUT"}, MaxSegments <- 2, ExactPaths <- {<<"a">>, <<"A", "a">>}, MaxRoutes <- 3,
  exact <- x1, patterns <- x2, used <- x3, targets <- x4, reply <- x5

\* Every combination of preconditions, and every range of a file of up to two bytes.
Condition == {Absent, "met", "failed"}
FileRequests ==
  [method : {"GET"}, match : Condition, unmodified : {Absent, "failed"}, noneMatch : Condition,
   modified : {Absent, "failed"}, ifRange : {Absent}, range : {Absent}]
  \cup [method : {"HEAD", "POST"}, match : {Absent}, unmodified : {Absent}, noneMatch : Condition,
        modified : {Absent}, ifRange : {Absent}, range : {Absent}]
  \cup [method : {"GET"}, match : {Absent}, unmodified : {Absent}, noneMatch : {Absent}, modified : {Absent}, ifRange : Condition,
        range : [first : {Absent}, last : 0..3] \cup [first : 0..2, last : {Absent} \cup 0..3]]

Transfer == INSTANCE FileTransfer WITH
  Sizes <- {0, 1, 2}, Requests <- FileRequests, Chunk <- 1, Stalls <- 1, None <- Absent,
  file <- x1, request <- x2, plan <- x3, refs <- x4, life <- x5, task <- x6, resp <- x7, wait <- x8,
  full <- x9, stop <- x10, stalls <- x11

\* RequestLimiter: three keys of which two fit, one longer than the others.
MCKeyBytes == [a |-> 1, b |-> 2, c |-> 1]

\* Three writers of one target, each with its own durability.
File == INSTANCE AtomicFile WITH
  Writers <- [a |-> "file", b |-> "directory", c |-> "none"], Chunks <- 2, Faults <- 1,
  state <- x1, cache <- x2, disk <- x3, dirty <- x4, names <- x5, target <- x6, up <- x7, budget <- x8

\* Six records, of which one is large, rotated through two archives.
Logger == INSTANCE AsyncLogger WITH
  Records <- 6, Size <- [r \in 1..6 |-> IF r = 2 THEN 2 ELSE 1], MaxQueued <- 2, MaxRetained <- 3,
  MaxFile <- 2, Retained <- 2, Faults <- 2,
  log <- x1, life <- x2, files <- x3, stream <- x4, at <- x5, rotated <- x6, past <- x7, budget <- x8

-----------------------------------------------------------------------------

From6 == x6 = 0 /\ x7 = 0 /\ x8 = 0
From4 == x4 = 0 /\ x5 = 0
From9 == x9 = 0 /\ x10 = 0 /\ x11 = 0 /\ x12 = 0

MCInit ==
  /\ part \in Parts /\ Init
  /\ \/ part = "server" /\ Server!Init
     \/ part = "exchange" /\ Exchange!Init
     \/ part = "socket" /\ Socket!Init /\ x11 = 0 /\ x12 = 0
     \/ part = "parser" /\ Parser!Init /\ x7 = 0 /\ x8 = 0 /\ From9
     \/ part = "multipart" /\ Multipart!Init /\ x8 = 0 /\ From9
     \/ part = "text" /\ Protocol(AnyFrame)!Init /\ x7 = 0 /\ x8 = 0 /\ From9
     \/ part = "frame" /\ Protocol(ClientFrames)!Init /\ x7 = 0 /\ x8 = 0 /\ From9
     \/ part = "routes" /\ Routes!Init /\ From6 /\ From9
     \/ part = "transfer" /\ Transfer!Init /\ x12 = 0
     \/ part = "limiter" /\ x1 = 0 /\ x2 = 0 /\ x3 = 0 /\ From4 /\ From6 /\ From9
     \/ part = "file" /\ File!Init /\ From9
     \/ part = "logger" /\ Logger!Init /\ From9

after5 == <<x6, x7, x8>>
after8 == <<x9, x10, x11, x12>>

\* A step of a part that is not the limiter.
OtherNext ==
  \/ part = "server" /\ Server!Next
  \/ part = "exchange" /\ Exchange!Next
  \/ part = "socket" /\ Socket!Next /\ UNCHANGED <<x11, x12>>
  \/ part = "parser" /\ Parser!Next /\ UNCHANGED <<x7, x8, after8>>
  \/ part = "multipart" /\ Multipart!Next /\ UNCHANGED <<x8, after8>>
  \/ part = "text" /\ Protocol(AnyFrame)!Fragment /\ UNCHANGED <<x7, x8, after8>>
  \/ part = "frame" /\ Protocol(ClientFrames)!Receive /\ UNCHANGED <<x7, x8, after8>>
  \/ part = "routes" /\ Routes!Next /\ UNCHANGED <<after5, after8>>
  \/ part = "transfer" /\ Transfer!Next /\ UNCHANGED x12
  \/ part = "file" /\ File!Next /\ UNCHANGED after8
  \/ part = "logger" /\ Logger!Next /\ UNCHANGED after8

MCNext ==
  /\ UNCHANGED part
  /\ \/ OtherNext /\ UNCHANGED vars
     \/ part = "limiter" /\ Next /\ UNCHANGED others

MCSpec == MCInit /\ [][MCNext]_<<part, vars, others>>

-----------------------------------------------------------------------------
(* The properties are those of the modules, each for its part; for the     *)
(* limiter, LimiterIsExact as it stands in RequestLimiter.                 *)

\* HttpServerIsOrderly.  HttpServer: a closed peer is finished exactly once, by
\* whichever of the threads that met it; onClose never runs on the
\* application's thread or on the sweep; a drain ends with the last peer; and a
\* Stop under way is never stuck and leaves no peer, no hand-over and no
\* thread.
HttpServerIsOrderly == part = "server" => Server!HttpServerIsOrderly

\* ExchangeIsOrderly.  An HTTP exchange: responses go out whole and in the
\* order of their requests, the budget counts what is held and a closed peer
\* holds nothing, an event that lets the peer go on is never lost, and whatever
\* a peer waits for a deadline bounds.
ExchangeIsOrderly == part = "exchange" => Exchange!ExchangeIsOrderly

\* WebSocketIsOrderly.  A WebSocket: outgoing messages are whole, with only
\* control frames between their fragments; onOpen comes first and onClose once
\* and last; and no frame lies in the buffer while nobody holds it and nobody
\* is on the way to take it.
WebSocketIsOrderly == part = "socket" => Socket!WebSocketIsOrderly

\* ParsersAreExact.  HttpParser, MultipartParser, Utf8FragmentState and
\* ParseClientFrame: what is parsed depends on the bytes alone, never on how
\* they are cut; what the grammar and the limits admit is decoded to the byte,
\* all else is refused; and no limit keeps an admissible input waiting for
\* ever.
ParsersAreExact ==
  /\ part = "parser" => Parser!ParserIsExact
  /\ part = "multipart" => Multipart!MultipartIsExact
  /\ part = "text" => Protocol(AnyFrame)!ProtocolIsExact
  /\ part = "frame" => Protocol(ClientFrames)!ProtocolIsExact

\* RoutingIsByTheMostSpecific.  RoutePattern: in whatever order routes were
\* registered, a path has the methods of its most specific resource and of no
\* other, with the target and the parameters of that registration.
RoutingIsByTheMostSpecific == part = "routes" => Routes!RoutingIsByTheMostSpecific

\* TransferIsExact.  FileResponse: a partial response is exactly the bytes
\* asked for of the file as it was opened; a response that finished carried all
\* it announced, and one whose task is gone has ended; and no callback outlives
\* the wait it answers.
TransferIsExact == part = "transfer" => Transfer!TransferIsExact

\* AtomicFileIsAtomic.  AtomicFile: whoever opens the target reads a whole
\* file, after a crash too if its writer synchronised it; after a crash the
\* target is no older than any commit that synchronised the directory and
\* answered Ok; and a temporary file stays only after a crash or a failed
\* unlink.
AtomicFileIsAtomic == part = "file" => File!AtomicFileIsAtomic

\* LoggerIsExact.  AsyncLogger: every record accepted is queued, being written,
\* written or counted as an error; files read from the oldest hold the records
\* in order and within their size; and a rotation that stops half way gives up
\* no archive it should keep.
LoggerIsExact == part = "logger" => Logger!LoggerIsExact

-----------------------------------------------------------------------------
(* What the code is said to do, and does not.                              *)

\* A closing WebSocket is not paused, so that it reads the answer to its Close
\* (PauseReceive and SendClose).
CloseReadsItsAnswer == part = "socket" => Socket!CloseReadsItsAnswer

\* A form that was read to its end had all its parts told, whatever its preamble
\* (MultipartParser::Read).
NoPartIsSkipped == part = "multipart" => Multipart!NoPartIsSkipped
=============================================================================
