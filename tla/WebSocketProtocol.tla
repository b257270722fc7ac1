-------------------------- MODULE WebSocketProtocol --------------------------
(***************************************************************************)
(* What Web::Detail knows of the bytes of a WebSocket: ParseClientFrame    *)
(* and EncodeServerFrame, and the text of a message in Utf8FragmentState.  *)
(*                                                                         *)
(* A frame of a client arrives in pieces and is asked for again with every *)
(* piece.  Of a payload only the length counts: a frame is what its first  *)
(* two bytes say (final, reserved bits, opcode, masked, the seven bits of  *)
(* the length) and the length in the two or eight bytes that may follow,   *)
(* whose top bit is a field of its own.                                    *)
(*                                                                         *)
(* The fragments of a text are checked as they arrive, keeping at most one *)
(* incomplete character, with Core::Detail::IsValidUtf8, which knows whole *)
(* texts only.                                                             *)
(***************************************************************************)
EXTENDS Integers, Sequences, SequencesExt, FiniteSetsExt

CONSTANTS
  Frames,       \* records [final, reserved, opcode, masked, short, long, top]
  MaxPayload,
  Bytes,        \* bytes of texts, some of every range the code tells apart
  MaxText       \* bytes of a message

VARIABLES
  frame,
  arrived,      \* bytes of input
  answer,       \* of ParseClientFrame: kind, consumed, closeCode
  text,         \* all fragments so far
  pending,      \* the incomplete character at their end
  verdict       \* what Append said of the last fragment: "accepted" or "refused", of the final one "ended" or "incomplete"

frameVars == <<frame, arrived, answer>>
textVars == <<text, pending, verdict>>
vars == <<frameVars, textVars>>

-----------------------------------------------------------------------------
\* ParseClientFrame and EncodeServerFrame.

NeedMore == [kind |-> "NeedMore", consumed |-> 0, closeCode |-> 1002]
Error(code) == [kind |-> "Error", consumed |-> 0, closeCode |-> code]

Opcodes == {0, 1, 2, 8, 9, 10}
Control(f) == f.opcode >= 8
HeaderSize(f) == CASE f.short < 126 -> 2 [] f.short = 126 -> 4 [] f.short = 127 -> 10
Length(f) == IF f.short < 126 THEN f.short ELSE f.long

MutantShortest(f) == FALSE
\* A longer form of a length that a shorter one holds.
NotShortest(f) == (f.short = 126 /\ f.long < 126) \/ (f.short = 127 /\ f.long < 65536)

ParseClientFrame(f, n) ==
  IF n < 2 THEN NeedMore
  ELSE IF f.reserved \/ ~f.masked \/ f.opcode \notin Opcodes \/ (Control(f) /\ (~f.final \/ f.short > 125)) THEN Error(1002)
  ELSE IF n < HeaderSize(f) THEN NeedMore
  ELSE IF (f.short = 127 /\ f.top) \/ NotShortest(f) THEN Error(1002)
  ELSE IF ~Control(f) /\ Length(f) > MaxPayload THEN Error(1009)
  ELSE IF n < HeaderSize(f) + 4 + Length(f) THEN NeedMore
  ELSE [kind |-> "Complete", consumed |-> HeaderSize(f) + 4 + Length(f), closeCode |-> 1000]

\* EncodeServerFrame: the bytes of the length.
LengthBytes(length) ==
  IF length < 126 THEN <<length>>
  ELSE IF length <= 65535 THEN <<126, length \div 256, length % 256>>
  ELSE <<127>> \o [i \in 1..8 |-> IF i <= 4 THEN 0 ELSE (length \div 256 ^ (8 - i)) % 256]

\* The input grows to a place near one where the answer may change.
Places == {0, 1, 2, 3, 4, 9, 10} \cup {HeaderSize(frame) + 4 + Length(frame) + d : d \in -1..1}
Receive ==
  /\ answer.kind = "NeedMore" /\ \E n \in Places : n > arrived /\ arrived' = n /\ answer' = ParseClientFrame(frame, n)
  /\ UNCHANGED <<frame, textVars>>

-----------------------------------------------------------------------------
\* Core::Detail::IsValidUtf8.

Continuations(lead) ==
  CASE lead < 128 -> 0 [] lead \div 32 = 6 -> 1 [] lead \div 16 = 14 -> 2 [] lead \div 8 = 30 -> 3 [] OTHER -> -1
Smallest(count) == CASE count = 0 -> 0 [] count = 1 -> 128 [] count = 2 -> 2048 [] count = 3 -> 65536
IsContinuation(byte) == byte \div 64 = 2
LeadBits(lead, count) == CASE count = 0 -> lead [] count = 1 -> lead % 32 [] count = 2 -> lead % 16 [] count = 3 -> lead % 8
CodePoint(s, count) == FoldLeft(LAMBDA sum, byte : 64 * sum + (byte % 64), LeadBits(s[1], count), SubSeq(s, 2, count + 1))

RECURSIVE IsValidUtf8(_)
IsValidUtf8(s) ==
  s = <<>> \/
  LET count == Continuations(s[1]) IN
  /\ count >= 0 /\ count < Len(s) /\ \A i \in 2..count + 1 : IsContinuation(s[i])
  /\ CodePoint(s, count) >= Smallest(count) /\ CodePoint(s, count) \notin 55296..57343 /\ CodePoint(s, count) <= 1114111
  /\ IsValidUtf8(SubSeq(s, count + 2, Len(s)))

-----------------------------------------------------------------------------
\* Append.

Width(lead) ==
  CASE lead < 128 -> 1 [] lead \in 194..223 -> 2 [] lead \in 224..239 -> 3 [] lead \in 240..244 -> 4 [] OTHER -> 0

MutantPadding(lead, index) == 128
\* The smallest byte that can follow, at a position counted from 0.
Padding(lead, index) == IF index = 1 /\ lead = 224 THEN 160 ELSE IF index = 1 /\ lead = 240 THEN 144 ELSE 128

ValidPartial(s) ==
  Width(s[1]) # 0
    /\ IsValidUtf8([i \in 1..Width(s[1]) |-> IF i <= Len(s) THEN s[i] ELSE Padding(s[1], i - 1)])

Says(ok, rest) == [ok |-> ok, pending |-> rest]

\* The rest of a fragment: its last character may be incomplete.
Rest(s, final) ==
  LET last == Max({1} \cup {i \in 1..Len(s) : ~IsContinuation(s[i])})
      cut == Width(s[last]) > Len(s) - last + 1
      kept == IF cut THEN SubSeq(s, last, Len(s)) ELSE <<>>
  IN  IF s = <<>> THEN Says(TRUE, <<>>)
      ELSE Says(/\ cut => ValidPartial(kept)
                /\ IsValidUtf8(IF cut THEN SubSeq(s, 1, last - 1) ELSE s)
                /\ ~final \/ kept = <<>>, kept)

Appended(fragment, final) ==
  LET take == Min({Width(pending[1]) - Len(pending), Len(fragment)})
      whole == pending \o SubSeq(fragment, 1, take)
  IN  IF pending = <<>> THEN Rest(fragment, final)
      ELSE IF Len(whole) # Width(pending[1]) THEN Says(~final /\ ValidPartial(whole), whole)
      ELSE IF ~IsValidUtf8(whole) THEN Says(FALSE, whole)
      ELSE Rest(SubSeq(fragment, take + 1, Len(fragment)), final)

AppendFragment(fragment, final) ==
  LET says == Appended(fragment, final) IN
  /\ text' = text \o fragment /\ pending' = says.pending
  /\ verdict' = IF final THEN (IF says.ok THEN "ended" ELSE "incomplete") ELSE (IF says.ok THEN "accepted" ELSE "refused")

Fragment ==
  /\ verdict = "accepted"
  /\ \E n \in 0..MaxText - Len(text), final \in BOOLEAN : \E fragment \in [1..n -> Bytes] : AppendFragment(fragment, final)
  /\ UNCHANGED frameVars

Init ==
  /\ frame \in Frames /\ arrived = 0 /\ answer = NeedMore
  /\ text = <<>> /\ pending = <<>> /\ verdict = "accepted"
Next == Receive \/ Fragment
Spec == Init /\ [][Next]_vars

-----------------------------------------------------------------------------

\* A frame RFC 6455 lets a client send, of a size the server takes.
Sound(f) ==
  /\ f.masked /\ ~f.reserved /\ f.opcode \in {0, 1, 2} \cup {8, 9, 10} /\ (f.opcode \in {8, 9, 10} => f.final /\ Length(f) <= 125)
  /\ (f.short = 126 => f.long \in 126..65535) /\ (f.short = 127 => f.long > 65535 /\ ~f.top)
Total(f) == HeaderSize(f) + 4 + Length(f)

\* The number in the bytes of a length.
Decoded(bytes) ==
  IF bytes[1] < 126 THEN bytes[1] ELSE FoldLeft(LAMBDA sum, byte : 256 * sum + byte, 0, SubSeq(bytes, 2, Len(bytes)))

\* The table of well-formed sequences of the Unicode standard, a row for each range of first bytes.

Tail1 == 128..191
Rows ==
  {<<0..127>>, <<194..223, Tail1>>, <<{224}, 160..191, Tail1>>,
   <<225..236 \cup 238..239, Tail1, Tail1>>, <<{237}, 128..159, Tail1>>,
   <<{240}, 144..191, Tail1, Tail1>>, <<241..243, Tail1, Tail1, Tail1>>, <<{244}, 128..143, Tail1, Tail1>>}
Matches(s, row) == Len(s) <= Len(row) /\ \A i \in 1..Len(s) : s[i] \in row[i]

\* A text is what can become well formed: whole characters, then none or a part of one.
RECURSIVE Begins(_, _)
Begins(s, whole) ==
  \/ s = <<>>
  \/ \E row \in Rows : IF Len(s) >= Len(row)
                       THEN Matches(SubSeq(s, 1, Len(row)), row) /\ Begins(SubSeq(s, Len(row) + 1, Len(s)), whole)
                       ELSE ~whole /\ Matches(s, row)

\* TypeOK.  The frame and the answers of ParseClientFrame; at most one incomplete character is kept.
TypeOK ==
  /\ frame \in Frames /\ answer.kind \in {"NeedMore", "Complete", "Error"}
  /\ Len(pending) <= 4 /\ text \in Seq(Bytes) /\ verdict \in {"accepted", "refused", "ended", "incomplete"}

\* FrameIsExact.  A sound frame is whole exactly when its last byte is there, and no byte after it is taken; one that is none is
\* refused with the header, and what the server writes of a length is what a client reads of it.
FrameIsExact ==
  /\ answer.kind = "Complete" =>
       Sound(frame) /\ Length(frame) <= MaxPayload /\ arrived >= Total(frame) /\ answer.consumed = Total(frame)
  /\ answer.kind = "Error" => IF answer.closeCode = 1009 THEN Sound(frame) /\ Length(frame) > MaxPayload ELSE ~Sound(frame)
  /\ answer.kind = "NeedMore" =>
       arrived < HeaderSize(frame) \/ (Sound(frame) /\ Length(frame) <= MaxPayload /\ arrived < Total(frame))
  /\ Decoded(LengthBytes(Length(frame))) = Length(frame)
  /\ LengthBytes(Length(frame))[1] = 126 => Length(frame) \in 126..65535
  /\ LengthBytes(Length(frame))[1] = 127 => Length(frame) > 65535

\* TextIsExact.  However a message is cut, it is refused with the first fragment that no text continues, and
\* accepted at its end when it is well formed.
TextIsExact ==
  /\ verdict = "accepted" => Begins(text, FALSE) /\ IsSuffix(pending, text) /\ Len(pending) <= 3
  /\ verdict = "ended" => Begins(text, TRUE) /\ pending = <<>>
  /\ verdict = "refused" => ~Begins(text, FALSE)
  /\ verdict = "incomplete" => ~Begins(text, TRUE)
  /\ IsValidUtf8(text) = Begins(text, TRUE)

\* ProtocolIsExact.  The frames and the texts.
ProtocolIsExact == TypeOK /\ FrameIsExact /\ TextIsExact
=============================================================================
