----------------------------- MODULE FrameReader -----------------------------
(***************************************************************************)
(* Protocol::FrameReader over FrameCodec::Reader: a stream of bytes,       *)
(* received in pieces of any size, cut into frames with a little-endian    *)
(* length before the body.  The codec keeps the bytes of one frame in a    *)
(* fixed storage that it compacts; the reader copies each whole body into  *)
(* its queue, unless the caller's admission refuses it.                    *)
(***************************************************************************)
EXTENDS Integers, Sequences, SequencesExt

CONSTANTS
  Base,         \* values of a byte
  HeaderSize,   \* bytes of the length
  MaxBodySize,
  MaxStream,    \* bytes received
  MaxCompleted, \* bodies the caller admits
  Faults        \* failed copies

Byte == 0..(Base - 1)
Capacity == HeaderSize + MaxBodySize

VARIABLES
  codec,      \* mStorage with mStart and mEnd; mTerminalError
  reader,     \* mCompleted, mCompletedBodyBytes, mAdmissionTerminal
  answer,     \* what the last Append returned
  received,   \* the stream so far
  taken,      \* bodies the caller took or discarded
  faults

vars == <<codec, reader, answer, received, taken, faults>>

NewCodec == [storage |-> [i \in 0..(Capacity - 1) |-> 0], start |-> 0, end |-> 0, error |-> "None"]

Init ==
  /\ codec = NewCodec /\ reader = [completed |-> <<>>, bytes |-> 0, terminal |-> FALSE]
  /\ answer = "None" /\ received = <<>> /\ taken = <<>> /\ faults = 0

-----------------------------------------------------------------------------
\* FrameCodec.

ReadLittleEndianLength(c) ==
  FoldLeft(LAMBDA sum, i : sum + c.storage[c.start + i - 1] * Base ^ (i - 1), 0, [i \in 1..HeaderSize |-> i])

Body(c, length) == [i \in 1..length |-> c.storage[c.start + HeaderSize + i - 1]]

\* CopyCompletedFrame: r carries the outcome of this Append as well.
CopyCompletedFrame(r, body, fails) ==
  IF r.failed \/ r.rejected THEN r
  ELSE IF Len(r.completed) >= MaxCompleted THEN [r EXCEPT !.rejected = TRUE]
  ELSE IF fails THEN [r EXCEPT !.failed = TRUE]
  ELSE [r EXCEPT !.completed = Append(@, body), !.bytes = @ + Len(body)]

\* PumpCompletedFrames: the length is checked before the body has come.
RECURSIVE PumpCompletedFrames(_, _, _)
PumpCompletedFrames(c, r, fails) ==
  IF c.end - c.start < HeaderSize THEN [c |-> c, r |-> r]
  ELSE LET length == ReadLittleEndianLength(c) IN
       IF length > MaxBodySize THEN [c |-> [c EXCEPT !.error = "TooLarge"], r |-> r]
       ELSE IF c.end - c.start < HeaderSize + length THEN [c |-> c, r |-> r]
       ELSE PumpCompletedFrames([c EXCEPT !.start = @ + HeaderSize + length],
                                CopyCompletedFrame(r, Body(c, length), fails), fails)

MutantCompactUnreadBytes(c) == [c EXCEPT !.start = 0, !.end = @ - c.start]
CompactUnreadBytes(c) ==
  [c EXCEPT !.start = 0, !.end = @ - c.start,
            !.storage = [i \in DOMAIN @ |-> IF i < c.end - c.start THEN @[c.start + i] ELSE @[i]]]

\* Reader::Append: pump, make room, copy what fits, until all is consumed.
RECURSIVE Consume(_, _, _, _)
Consume(c, r, bytes, fails) ==
  LET p == PumpCompletedFrames(c, r, fails)
      room == IF p.c.end = Capacity /\ p.c.start # 0 THEN CompactUnreadBytes(p.c) ELSE p.c
      least(m, n) == IF m < n THEN m ELSE n
      count == least(Capacity - room.end, Len(bytes)) IN
  IF p.c.error # "None" \/ bytes = <<>> THEN p
  ELSE IF count = 0 THEN [c |-> [room EXCEPT !.error = "InvalidFormat"], r |-> p.r]
  ELSE Consume([room EXCEPT !.end = @ + count,
                            !.storage = [i \in DOMAIN @ |-> IF i \in room.end..(room.end + count - 1)
                                                            THEN bytes[i - room.end + 1] ELSE @[i]]],
               p.r, SubSeq(bytes, count + 1, Len(bytes)), fails)

EncodeTo(body) ==
  [i \in 1..HeaderSize |-> (Len(body) \div Base ^ (i - 1)) % Base] \o body

-----------------------------------------------------------------------------
\* FrameReader.

\* Append; the caller closes the connection after a failure.
AppendBytes(bytes) ==
  /\ answer = "None" /\ received' = received \o bytes /\ UNCHANGED taken
  /\ \E fails \in BOOLEAN :
       LET r == [completed |-> reader.completed, bytes |-> reader.bytes, failed |-> FALSE, rejected |-> FALSE]
           done == Consume(codec, r, bytes, fails) IN
       /\ fails => faults < Faults
       /\ codec' = done.c /\ faults' = faults + (IF done.r.failed THEN 1 ELSE 0)
       /\ reader' = [completed |-> done.r.completed, bytes |-> done.r.bytes, terminal |-> done.r.rejected]
       /\ answer' = IF done.r.rejected THEN "TooLarge" ELSE IF done.r.failed THEN "AllocationFailure" ELSE done.c.error

\* NextFrame and TakeNextFrame.
TakeNextFrame ==
  /\ reader.completed # <<>>
  /\ reader' = [reader EXCEPT !.completed = Tail(@), !.bytes = @ - Len(Head(reader.completed))]
  /\ taken' = Append(taken, Head(reader.completed)) /\ UNCHANGED <<codec, answer, received, faults>>

DiscardCompletedFrames ==
  /\ reader.completed # <<>> /\ reader' = [reader EXCEPT !.completed = <<>>, !.bytes = 0]
  /\ taken' = taken \o reader.completed /\ UNCHANGED <<codec, answer, received, faults>>

\* ReleaseStorage: a reader like a new one.
ReleaseStorage ==
  /\ answer # "None" /\ codec' = NewCodec /\ reader' = [completed |-> <<>>, bytes |-> 0, terminal |-> FALSE]
  /\ answer' = "None" /\ received' = <<>> /\ taken' = <<>> /\ UNCHANGED faults

Finish == IF reader.terminal THEN "TooLarge"
          ELSE IF codec.error # "None" THEN codec.error
          ELSE IF codec.start = codec.end THEN "None" ELSE "InvalidFormat"

Next ==
  \/ \E n \in 1..(MaxStream - Len(received)) : \E bytes \in [1..n -> Byte] : AppendBytes(bytes)
  \/ TakeNextFrame \/ DiscardCompletedFrames \/ ReleaseStorage

Spec == Init /\ [][Next]_vars

-----------------------------------------------------------------------------

TypeOK ==
  /\ 0 <= codec.start /\ codec.start <= codec.end /\ codec.end <= Capacity
  /\ answer \in {"None", "TooLarge", "AllocationFailure"} /\ Len(reader.completed) <= MaxCompleted

\* The frames of a stream, one byte after the other: the bytes of the frame
\* under way, the bodies before it, and whether its length is too large.
Frames(stream) ==
  LET length(head) == FoldLeft(LAMBDA sum, i : sum + head[i] * Base ^ (i - 1), 0, [i \in 1..HeaderSize |-> i])
      whole(part) == Len(part) >= HeaderSize /\ Len(part) = HeaderSize + length(part)
      step(s, b) == LET part == Append(s.part, b) IN
                    IF s.bad THEN s
                    ELSE IF Len(part) >= HeaderSize /\ length(part) > MaxBodySize THEN [s EXCEPT !.bad = TRUE, !.part = part]
                    ELSE IF whole(part) THEN [s EXCEPT !.part = <<>>, !.bodies = Append(@, SubSeq(part, HeaderSize + 1, Len(part)))]
                    ELSE [s EXCEPT !.part = part] IN
  FoldLeft(step, [part |-> <<>>, bodies |-> <<>>, bad |-> FALSE], stream)

\* However the stream was cut into pieces, the bodies handed out and still
\* queued are those of the stream, in order; a length that is too large is
\* found with its header and ends the reader; what was refused or could not be
\* copied is the end of what was handed out, never a gap.
FramesAreThoseOfTheStream ==
  LET f == Frames(received)
      bodies == taken \o reader.completed IN
  /\ IsPrefix(bodies, f.bodies)
  /\ answer = "None" => bodies = f.bodies /\ ~f.bad
  /\ answer = "TooLarge" /\ ~reader.terminal => f.bad /\ bodies = f.bodies
  /\ answer = "None" => (Finish = "None" <=> f.part = <<>>)
  /\ reader.bytes = FoldLeft(LAMBDA sum, b : sum + Len(b), 0, reader.completed)
  \* The encoder's frame is the stream of its body, and of nothing else.
  /\ \A i \in DOMAIN taken : Frames(EncodeTo(taken[i])) = [part |-> <<>>, bodies |-> <<taken[i]>>, bad |-> FALSE]

\* Framing, all in all.
FramingIsExact == TypeOK /\ FramesAreThoseOfTheStream

=============================================================================
