--------------------------- MODULE MultipartParser ---------------------------
(***************************************************************************)
(* Web::MultipartParser: a body of multipart/form-data that is fed in      *)
(* pieces of any size and pulled as events (PartBegin, Data, PartEnd),     *)
(* while events that were handed out are released by other threads.        *)
(*                                                                         *)
(* A form is a preamble, parts and an epilogue, and Wire writes it down.   *)
(* Its symbols are the bytes "cr", "lf", "-", "b" (the boundary), "sp" (a  *)
(* space or tab) and others; a line of a part's head is one symbol.        *)
(***************************************************************************)
EXTENDS Integers, Sequences, SequencesExt, FiniteSetsExt

CONSTANTS
  Forms,           \* records [preamble, parts, pad, end, epilogue]; a part is [head, data]
  Cuts,            \* sizes of the pieces a form arrives in
  Weight,          \* string bytes of an event made from each line of a head
  MaxParts, MaxFiles, MaxHeaders, MaxHeaderBytes, MaxPartBytes, MaxFileBytes, MaxTotalBytes, MaxRetainedBytes,
  MaxEventBytes    \* MultipartOptions; Create sees that MaxEventBytes <= MaxRetainedBytes, and that this holds two heads
                   \* and the line of a boundary: 2 * MaxHeaderBytes + 80, of which the boundary is 70

VARIABLES
  form,     \* what the client sends
  wire,     \* the part of it that still has to be fed
  state,    \* phase, error, eof, initialStart, file, total, partBytes, part, files
  buffer,
  held,     \* the charges of the events that nobody has released
  events,   \* what was read, data that follow one another joined
  reply     \* what Read answered last

vars == <<form, wire, state, buffer, held, events, reply>>

CRLF == <<"cr", "lf">>
marker == <<"-", "-", "b">>
delimiter == CRLF \o marker

\* How a client writes a form.
Lines(head) == FlattenSeq([i \in 1..Len(head) |-> <<head[i]>> \o CRLF])
WirePart(part, pad) == pad \o CRLF \o Lines(part.head) \o CRLF \o part.data \o delimiter
Wire(f) ==
  (IF f.preamble = <<>> THEN marker ELSE f.preamble \o delimiter)
    \o FlattenSeq([i \in 1..Len(f.parts) |-> WirePart(f.parts[i], f.pad)]) \o f.end \o f.epilogue

Init ==
  /\ form \in Forms /\ wire = Wire(form) /\ buffer = <<>> /\ held = <<>> /\ events = <<>> /\ reply = "none"
  /\ state = [phase |-> "Initial", error |-> "Ok", eof |-> FALSE, initialStart |-> TRUE, file |-> FALSE,
              total |-> 0, partBytes |-> 0, part |-> 0, files |-> 0]

Held == FoldSeq(LAMBDA bytes, sum : bytes + sum, 0, held)
Retained == Len(buffer) + Held
Failed(code) == state' = [state EXCEPT !.error = code] /\ buffer' = <<>>

-----------------------------------------------------------------------------
\* Feed, Finish, Cancel; and an event that its last owner lets go.

\* Room is left for the strings of the event of a head.
Accepts(n) == Min({n, MaxRetainedBytes - Retained, MaxRetainedBytes - MaxHeaderBytes - Len(buffer)})

Feed ==
  /\ state.error = "Ok" /\ ~state.eof /\ wire # <<>> /\ reply' = "none"
  /\ \E n \in Cuts :
       LET size == Min({n, Len(wire)}) IN
       IF size > MaxTotalBytes - state.total THEN Failed("TooLarge") /\ UNCHANGED wire
       ELSE LET count == Accepts(size) IN
            /\ count > 0 /\ buffer' = buffer \o SubSeq(wire, 1, count) /\ wire' = SubSeq(wire, count + 1, Len(wire))
            /\ state' = [state EXCEPT !.total = @ + count]
  /\ UNCHANGED <<form, held, events>>

Finish ==
  /\ state.error = "Ok" /\ ~state.eof /\ wire = <<>> /\ state' = [state EXCEPT !.eof = TRUE] /\ reply' = "none"
  /\ UNCHANGED <<form, wire, buffer, held, events>>

Cancel ==
  /\ state.phase # "Done" /\ state.error = "Ok" /\ Failed("Cancelled")
  /\ UNCHANGED <<form, wire, held, events, reply>>

Release ==
  /\ \E i \in 1..Len(held) : held' = RemoveAt(held, i)
  /\ reply' = "none" /\ UNCHANGED <<form, wire, state, buffer, events>>

-----------------------------------------------------------------------------
\* Read.

Joined(event) ==
  IF event.kind = "Data" /\ events # <<>> /\ Last(events).kind = "Data"
  THEN Append(Front(events), [kind |-> "Data", data |-> Last(events).data \o event.data])
  ELSE Append(events, event)

\* Event: charged while somebody holds it; then the input it was made of is dropped.
Event(event, bytes, consumed, next) ==
  IF bytes > MaxRetainedBytes THEN Failed("TooLarge") /\ reply' = "error" /\ UNCHANGED <<held, events>>
  ELSE IF bytes > MaxRetainedBytes - Held - (Len(buffer) - consumed)
  THEN reply' = "WouldBlock" /\ UNCHANGED <<state, buffer, held, events>>
  ELSE /\ held' = (IF bytes = 0 THEN held ELSE Append(held, bytes)) /\ events' = Joined(event) /\ reply' = "event"
       /\ buffer' = SubSeq(buffer, consumed + 1, Len(buffer)) /\ state' = next

Fail(code) == Failed(code) /\ reply' = "error" /\ UNCHANGED <<held, events>>
Waits(next, rest) ==
  /\ IF state.eof THEN state' = [next EXCEPT !.error = "InvalidFormat"] /\ buffer' = <<>> /\ reply' = "error"
     ELSE state' = next /\ buffer' = rest /\ reply' = "WouldBlock"
  /\ UNCHANGED <<held, events>>

Starts(s, at, pattern) == at + Len(pattern) <= Len(s) /\ SubSeq(s, at + 1, at + Len(pattern)) = pattern

\* DelimiterSuffix: what follows a delimiter that ends at position start, and where its line ends.
DelimiterSuffix(s, start) ==
  LET dashed == start < Len(s) /\ s[start + 1] = "-"
      from == IF dashed THEN start + 2 ELSE start
      pos == Min({i \in from..Len(s) : i = Len(s) \/ s[i + 1] # "sp"})
      is(kind, end) == [kind |-> kind, end |-> end]
  IN  IF dashed /\ Len(s) < from THEN is("More", 0)
      ELSE IF dashed /\ s[from] # "-" THEN is("Invalid", 0)
      ELSE IF pos - start > MaxHeaderBytes THEN is("Invalid", 0)
      ELSE IF pos = Len(s) THEN is(IF dashed /\ state.eof THEN "Final" ELSE "More", pos)
      ELSE IF s[pos + 1] # "cr" THEN is("Invalid", 0)
      ELSE IF Len(s) < pos + 2 THEN is("More", 0)
      ELSE IF s[pos + 2] # "lf" THEN is("Invalid", 0)
      ELSE is(IF dashed THEN "Final" ELSE "Normal", pos + 2)

\* The search for a delimiter from a position on: one that is none is passed over; before the first part, what
\* stands before one is dropped, and the search goes on from the position it had reached.
RECURSIVE Seek(_, _)
Seek(s, search) ==
  LET places == {at \in search..Len(s) - Len(delimiter) : Starts(s, at, delimiter)} IN
  IF places = {} THEN [kind |-> "None", at |-> 0, end |-> 0, rest |-> s]
  ELSE LET at == Min(places)
           suffix == DelimiterSuffix(s, at + Len(delimiter))
       IN  IF suffix.kind = "Invalid" THEN Seek(s, at + 1)
           ELSE IF at # 0 /\ state.phase = "Initial" THEN Seek(SubSeq(s, at + 1, Len(s)), search)
           ELSE [kind |-> suffix.kind, at |-> at, end |-> suffix.end, rest |-> s]

Data(count) ==
  LET size == Min({count, MaxEventBytes}) IN
  IF size > (IF state.file THEN MaxFileBytes ELSE MaxPartBytes) - state.partBytes THEN Fail("TooLarge")
  ELSE Event([kind |-> "Data", data |-> SubSeq(buffer, 1, size)], size, size, [state EXCEPT !.partBytes = @ + size])

MutantKeep == Len(delimiter) - 2
\* What may be the beginning of a delimiter and its line.
Keep == Len(delimiter) + 2
After(kind) == IF kind = "Final" THEN "Epilogue" ELSE "Headers"
Drop(s, n) == SubSeq(s, n + 1, Len(s))
Reading == state.error = "Ok" /\ reply \in {"none", "event", "again"}

\* The first delimiter may stand at the very start, without the line end before it.
ReadInitial ==
  LET starts == state.initialStart /\ Starts(buffer, 0, marker)
      first == DelimiterSuffix(buffer, Len(marker))
      found == Seek(buffer, IF starts THEN 1 ELSE 0)
      seen == [state EXCEPT !.initialStart = @ /\ ~starts /\ found.rest = buffer]
      enters(kind, rest) ==
        /\ state' = [state EXCEPT !.initialStart = FALSE, !.phase = After(kind)] /\ buffer' = rest
        /\ reply' = "again" /\ UNCHANGED <<held, events>>
  IN  /\ Reading /\ state.phase = "Initial"
      /\ IF state.initialStart /\ Len(buffer) < Len(marker) /\ IsPrefix(buffer, marker) THEN Waits(state, buffer)
         ELSE IF starts /\ first.kind = "More" THEN Waits(state, buffer)
         ELSE IF starts /\ first.kind # "Invalid" THEN enters(first.kind, Drop(buffer, first.end))
         ELSE IF found.kind \in {"Normal", "Final"} THEN enters(found.kind, Drop(found.rest, found.end))
         ELSE IF found.kind = "None" /\ Len(found.rest) > Keep
         THEN Waits([seen EXCEPT !.initialStart = FALSE], Drop(found.rest, Len(found.rest) - Keep))
         ELSE Waits(seen, found.rest)
      /\ UNCHANGED <<form, wire>>

\* Headers: one disposition, at most one type, nothing encoded.
Disposition == {"field", "file"}
Repeats(head, i, kind) == head[i] \in kind /\ \E j \in 1..i - 1 : head[j] \in kind
Fault(head, i) ==
  IF head[i] \notin DOMAIN Weight THEN "InvalidFormat"
  ELSE IF i > MaxHeaders THEN "TooLarge"
  ELSE IF Repeats(head, i, Disposition) \/ Repeats(head, i, {"type"}) \/ head[i] = "encoded" THEN "InvalidFormat"
  ELSE "Ok"
Headers(head) ==
  LET faults == {i \in 1..Len(head) : Fault(head, i) # "Ok"} IN
  IF faults # {} THEN Fault(head, Min(faults))
  ELSE IF Range(head) \cap Disposition = {} THEN "InvalidFormat" ELSE "Ok"

HeadEnds(s) == {i \in 0..Len(s) - 4 : Starts(s, i, CRLF \o CRLF)}
\* The lines of a block; one that is not a single symbol is none.
LinesOf(block) ==
  LET shaped == \A i \in 1..Len(block) : (block[i] = "cr") = (i % 3 = 2) /\ (block[i] = "lf") = (i % 3 = 0) IN
  IF shaped /\ Len(block) % 3 = 1 THEN [i \in 1..(Len(block) + 2) \div 3 |-> block[3 * i - 2]] ELSE <<"nonsense">>
WeightOf(head) == FoldSeq(LAMBDA line, sum : Weight[line] + sum, 0, head)

ReadHeaders ==
  /\ Reading /\ state.phase = "Headers"
  /\ IF HeadEnds(buffer) = {}
     THEN IF Len(buffer) > MaxHeaderBytes THEN Fail("TooLarge") ELSE Waits(state, buffer)
     ELSE LET end == Min(HeadEnds(buffer))
              head == LinesOf(SubSeq(buffer, 1, end))
              file == "file" \in Range(head)
          IN  IF end + 4 > MaxHeaderBytes \/ state.part = MaxParts THEN Fail("TooLarge")
              ELSE IF Headers(head) # "Ok" THEN Fail(Headers(head))
              ELSE IF file /\ state.files = MaxFiles THEN Fail("TooLarge")
              ELSE Event([kind |-> "PartBegin", head |-> head], WeightOf(head), end + 4,
                         [state EXCEPT !.part = @ + 1, !.file = file, !.files = IF file THEN @ + 1 ELSE @,
                                       !.partBytes = 0, !.phase = "Body"])
  /\ UNCHANGED <<form, wire>>

ReadBody ==
  LET found == Seek(buffer, 0) IN
  /\ Reading /\ state.phase = "Body"
  /\ IF found.kind = "None"
     THEN IF Len(buffer) > Keep THEN Data(Len(buffer) - Keep) ELSE Waits(state, buffer)
     ELSE IF found.at # 0 THEN Data(found.at)
     ELSE IF found.kind = "More" THEN Waits(state, buffer)
     ELSE Event([kind |-> "PartEnd"], 0, found.end, [state EXCEPT !.phase = After(found.kind)])
  /\ UNCHANGED <<form, wire>>

ReadEpilogue ==
  /\ Reading /\ state.phase = "Epilogue" /\ buffer' = <<>>
  /\ IF state.eof THEN state' = [state EXCEPT !.phase = "Done"] /\ reply' = "done"
     ELSE reply' = "WouldBlock" /\ UNCHANGED state
  /\ UNCHANGED <<form, wire, held, events>>

Next ==
  \/ reply # "again" /\ (Feed \/ Finish \/ Cancel)
  \/ Release
  \/ ReadInitial \/ ReadHeaders \/ ReadBody \/ ReadEpilogue

Spec == Init /\ [][Next]_vars

-----------------------------------------------------------------------------
\* What a form says, and when it is one the options admit.

PartEvents(part) ==
  <<[kind |-> "PartBegin", head |-> part.head]>>
    \o (IF part.data = <<>> THEN <<>> ELSE <<[kind |-> "Data", data |-> part.data]>>) \o <<[kind |-> "PartEnd"]>>
Expected == FlattenSeq([i \in 1..Len(form.parts) |-> PartEvents(form.parts[i])])

IsFile(part) == "file" \in Range(part.head)
Admissible(part) ==
  /\ part.head # <<>> /\ Headers(part.head) = "Ok" /\ Len(Lines(part.head)) + 2 <= MaxHeaderBytes
  /\ Len(part.data) <= IF IsFile(part) THEN MaxFileBytes ELSE MaxPartBytes
WellFormed ==
  /\ Len(Wire(form)) <= MaxTotalBytes /\ Len(form.parts) <= MaxParts
  /\ Len(SelectSeq(form.parts, IsFile)) <= MaxFiles /\ \A i \in 1..Len(form.parts) : Admissible(form.parts[i])
  /\ Len(form.pad) <= MaxHeaderBytes /\ IsPrefix(<<"-", "-">>, form.end)
  /\ form.epilogue = <<>> \/ IsSuffix(CRLF, form.end)

\* TypeOK.  Phases, codes and answers; the bytes fed and those still to be fed are the form.
TypeOK ==
  /\ state.phase \in {"Initial", "Headers", "Body", "Epilogue", "Done"}
  /\ reply \in {"none", "again", "event", "WouldBlock", "done", "error"}
  /\ state.error \in {"Ok", "InvalidFormat", "TooLarge", "Cancelled"} /\ state.total + Len(wire) = Len(Wire(form))

\* EventsAreTheForms.  However the form is cut, every event Read hands out is the next that the form says, the last of
\* data perhaps not yet whole.
Tells(event, expected) ==
  event = expected \/ (event.kind = "Data" /\ expected.kind = "Data" /\ IsPrefix(event.data, expected.data))
EventsAreTheForms ==
  /\ Len(events) <= Len(Expected)
  /\ \A i \in 1..Len(events) : IF i < Len(events) THEN events[i] = Expected[i] ELSE Tells(events[i], Expected[i])

\* NoPartIsSkipped.  Read says that the form is over only when all its parts were told.
NoPartIsSkipped == state.phase = "Done" => events = Expected

\* NothingStalls.  When nobody holds an event, Read waits for nothing but more input, and Feed has room for it: a full
\* buffer never keeps an event from being made.
NothingStalls ==
  reply = "WouldBlock" /\ held = <<>> /\ state.error = "Ok" => ~state.eof /\ Accepts(1) > 0

\* MultipartIsExact.  The events are those of the form, the bytes retained are within the limit, and a form is refused
\* when and only when it is not well formed or too large.
MultipartIsExact ==
  /\ TypeOK /\ EventsAreTheForms /\ NoPartIsSkipped /\ NothingStalls
  /\ Retained <= MaxRetainedBytes
  /\ state.phase = "Done" => WellFormed
  /\ state.error \in {"InvalidFormat", "TooLarge"} => ~WellFormed
=============================================================================
