----------------------------- MODULE AsyncLogger ----------------------------
(***************************************************************************)
(* Observability::AsyncLogger: callers queue records, one worker writes    *)
(* them to a file that it rotates.  A file is the sequence of the records  *)
(* in it, or Missing.  Every file operation may fail, and a tool outside   *)
(* may delete the active file.                                             *)
(***************************************************************************)
EXTENDS Integers, Sequences, FiniteSetsExt, SequencesExt

CONSTANTS
  Records,        \* records offered, 1..Records in the order accepted
  Size,           \* the bytes of each record
  MaxQueued, MaxRetained,
  MaxFile,        \* maxFileBytes
  Retained,       \* retainedFiles
  Faults,         \* operations that fail, and deletions by others
  Missing

VARIABLES
  log,       \* queue, charge, the record being written, the counters, the level
  life,      \* used, ready, stopping, stopped
  files,     \* active, pending (".rotating") and archives 1..Retained
  stream,    \* the ofstream's state, fileBytes, and whether its file is the active one
  at,        \* where the worker is
  rotated,   \* Output's success so far
  past,      \* segments closed so far; the records written; those in a deleted file
  budget

vars == <<log, life, files, stream, at, rotated, past, budget>>

Bytes(s) == FoldSeq(LAMBDA r, sum : sum + Size[r], 0, s)
Fault == budget < Faults /\ budget' = budget + 1
Level == {0, 1}

Init ==
  /\ log = [queue |-> <<>>, retained |-> 0, writing |-> 0, next |-> 1, level |-> 0,
            accepted |-> 0, written |-> 0, errors |-> 0]
  /\ life = [used |-> FALSE, ready |-> FALSE, stopping |-> FALSE, stopped |-> FALSE, ended |-> FALSE]
  /\ files = [active |-> Missing, pending |-> Missing, archive |-> [i \in 1..Retained |-> Missing]]
  /\ stream = [good |-> FALSE, bytes |-> 0, named |-> FALSE]
  /\ at = "idle" /\ rotated = FALSE
  /\ past = [closed |-> 0, written |-> {}, deleted |-> {}] /\ budget = 0

\* A failure before the worker runs leaves the logger as it was.
Start ==
  /\ ~life.used /\ ~life.stopping
  /\ \/ /\ life' = [life EXCEPT !.used = TRUE, !.ready = TRUE]
        /\ files' = [files EXCEPT !.active = IF @ = Missing THEN <<>> ELSE @]
        /\ stream' = [good |-> TRUE, named |-> TRUE, bytes |-> Bytes(files'.active)]
        /\ UNCHANGED budget
     \/ Fault /\ UNCHANGED <<life, files, stream>>
  /\ UNCHANGED <<log, past, at>>

Admits(r) == Len(log.queue) < MaxQueued /\ Size[r] <= MaxRetained - log.retained

Write(level) ==
  /\ life.ready /\ ~life.stopping /\ level >= log.level
  /\ log.next <= Records /\ Admits(log.next)
  /\ log' = [log EXCEPT !.queue = Append(@, log.next), !.retained = @ + Size[log.next],
                        !.next = @ + 1, !.accepted = @ + 1]
  /\ UNCHANGED <<life, files, stream, at, past, budget>>

SetLevel(level) ==
  /\ life.ready /\ ~life.stopping /\ level # log.level /\ log' = [log EXCEPT !.level = level]
  /\ UNCHANGED <<life, files, stream, at, past, budget>>

RequestStop ==
  /\ ~life.stopping /\ life' = [life EXCEPT !.stopping = TRUE]
  /\ UNCHANGED <<log, files, stream, at, past, budget>>

\* Join the worker if there is one.
Stop ==
  /\ life.stopping /\ ~life.stopped /\ (life.ready => life.ended)
  /\ life' = [life EXCEPT !.stopped = TRUE]
  /\ UNCHANGED <<log, files, stream, at, past, budget>>

-----------------------------------------------------------------------------
\* The worker: take a record, rotate if it does not fit, write it, settle it.

Take ==
  /\ at = "idle" /\ log.queue # <<>>
  /\ log' = [log EXCEPT !.queue = Tail(@), !.writing = Head(log.queue)]
  /\ at' = "output" /\ UNCHANGED <<life, files, stream, past, budget>>

Ends ==
  /\ at = "idle" /\ log.queue = <<>> /\ life.stopping /\ life.ready /\ ~life.ended
  /\ life' = [life EXCEPT !.ended = TRUE] /\ UNCHANGED <<log, files, stream, past, at, budget>>

Fits == stream.bytes + Size[log.writing] <= MaxFile

Output ==
  /\ at = "output"
  /\ at' = IF Fits THEN "put" ELSE IF files.pending = Missing THEN "move" ELSE "clear"
  /\ rotated' = Fits
  /\ UNCHANGED <<log, life, files, stream, past, budget>>

\* The first free number, or the last when all are taken.
MutantFreeSlot == Retained
FreeSlot == Min({i \in 1..Retained : files.archive[i] = Missing} \cup {Retained})

\* Stopped at k: the archives from k have moved up, k is free.
Shifted(k) ==
  [i \in 1..Retained |->
     CASE i = k -> Missing
       [] i > k /\ i <= FreeSlot -> files.archive[i - 1]
       [] OTHER -> files.archive[i]]

\* Move the archives up to the free number, then the pending piece into file.1.
ArchivePending(success, failure) ==
  \/ /\ files' = [files EXCEPT !.archive = [Shifted(1) EXCEPT ![1] = files.pending], !.pending = Missing]
     /\ success /\ UNCHANGED budget
  \/ Fault /\ failure /\ UNCHANGED files
  \/ Fault /\ failure /\ \E k \in 1..FreeSlot : files' = [files EXCEPT !.archive = Shifted(k)]

\* A piece left by an earlier rotation goes first.
Clears ==
  /\ at = "clear" /\ ArchivePending(at' = "move", at' = "append")
  /\ UNCHANGED <<log, life, stream, past>>

\* rename(file, file.rotating)
Moves ==
  /\ at = "move"
  /\ \/ /\ files.active # Missing /\ at' = "archive" /\ UNCHANGED budget
        /\ files' = [files EXCEPT !.pending = files.active, !.active = Missing]
        /\ past' = [past EXCEPT !.closed = @ + 1]
     \/ /\ at' = "append" /\ UNCHANGED <<files, past>>
        /\ IF files.active = Missing THEN UNCHANGED budget ELSE Fault
  /\ UNCHANGED <<log, life, stream>>

Archives ==
  /\ at = "archive" /\ at' = "fresh"
  /\ ArchivePending(rotated' = TRUE, UNCHANGED rotated)
  /\ UNCHANGED <<log, life, stream, past>>

\* Open the active path again; fileBytes follows the file where there is one.
Reopen ==
  /\ at \in {"append", "fresh"} /\ at' = "put"
  /\ \/ /\ files' = [files EXCEPT !.active = IF at = "append" /\ @ # Missing THEN @ ELSE <<>>]
        /\ stream' = [good |-> TRUE, named |-> TRUE, bytes |-> Bytes(files'.active)]
        /\ UNCHANGED <<rotated, budget>>
     \/ /\ Fault /\ rotated' = FALSE /\ UNCHANGED files
        /\ stream' = [good |-> FALSE, named |-> FALSE,
                      bytes |-> IF files.active = Missing THEN stream.bytes ELSE Bytes(files.active)]
  /\ UNCHANGED <<log, life, past>>

\* A record that does not fit even now is dropped as an output error.
MutantPuts == TRUE
Puts == Fits
Put ==
  /\ at = "put" /\ at' = "settle"
  /\ \/ /\ ~Puts /\ rotated' = FALSE /\ UNCHANGED <<files, stream, past, budget>>
     \/ /\ Puts /\ ~stream.good /\ rotated' = FALSE
        /\ stream' = [stream EXCEPT !.bytes = @ + Size[log.writing]] /\ UNCHANGED <<files, past, budget>>
     \/ /\ Puts /\ stream.good /\ Fault /\ rotated' = FALSE
        /\ stream' = [stream EXCEPT !.bytes = @ + Size[log.writing], !.good = FALSE] /\ UNCHANGED <<files, past>>
     \/ /\ Puts /\ stream.good /\ UNCHANGED <<rotated, budget>>
        /\ stream' = [stream EXCEPT !.bytes = @ + Size[log.writing]]
        /\ files' = IF stream.named THEN [files EXCEPT !.active = Append(@, log.writing)] ELSE files
        /\ past' = [past EXCEPT !.written = IF stream.named THEN @ \cup {log.writing} ELSE @]
  /\ UNCHANGED <<log, life>>

\* The allocation is released before its charge is.
Settle ==
  /\ at = "settle" /\ at' = "idle" /\ rotated' = FALSE
  /\ log' = [log EXCEPT !.retained = @ - Size[log.writing], !.writing = 0,
                        !.written = @ + IF rotated THEN 1 ELSE 0,
                        !.errors = @ + IF rotated THEN 0 ELSE 1]
  /\ UNCHANGED <<life, files, stream, past, budget>>

\* A tool outside deletes the active file under the open stream.
Deletes ==
  /\ Fault /\ files.active # Missing
  /\ past' = [past EXCEPT !.deleted = @ \cup ToSet(files.active)]
  /\ files' = [files EXCEPT !.active = Missing] /\ stream' = [stream EXCEPT !.named = FALSE]
  /\ UNCHANGED <<log, life, at, rotated>>

Next ==
  \/ (Start \/ RequestStop \/ Stop \/ Take \/ Ends \/ Clears \/ Moves
      \/ \E level \in Level : Write(level) \/ SetLevel(level)) /\ UNCHANGED rotated
  \/ Output \/ Archives \/ Reopen \/ Put \/ Settle \/ Deletes

Spec == Init /\ [][Next]_vars

-----------------------------------------------------------------------------

TypeOK ==
  /\ log.writing \in 0..Records /\ log.retained \in 0..MaxRetained
  /\ at \in {"idle", "output", "clear", "move", "archive", "append", "fresh", "put", "settle"}
  /\ stream.bytes \in Nat /\ rotated \in BOOLEAN /\ past.closed \in Nat

\* Every record accepted is queued, being written, written or counted as an
\* error; its bytes are charged until it is settled; a logger that has stopped
\* has settled them all.
RecordsAreAccounted ==
  /\ log.accepted = Len(log.queue) + (IF log.writing = 0 THEN 0 ELSE 1) + log.written + log.errors
  /\ log.retained = Bytes(log.queue) + (IF log.writing = 0 THEN 0 ELSE Size[log.writing])
  /\ life.stopped => log.accepted = log.written + log.errors

Segments ==
  LET all == [i \in 1..Retained |-> files.archive[Retained + 1 - i]] \o <<files.pending, files.active>>
  IN SelectSeq(all, LAMBDA f : f # Missing)
Kept == FlattenSeq(Segments)
Closed == Cardinality({i \in 1..Retained : files.archive[i] # Missing}) + IF files.pending = Missing THEN 0 ELSE 1

\* Read from the oldest archive to the active file, the records are in the
\* order they were accepted, and no file is larger than maxFileBytes.
FilesAreInOrder ==
  /\ \A i, j \in DOMAIN Kept : i < j => Kept[i] < Kept[j]
  /\ \A i \in DOMAIN Segments : Bytes(Segments[i]) <= MaxFile

\* However often a rotation stops half way, no archive is given up while fewer
\* than retainedFiles are kept: a written record is gone only when retainedFiles
\* later pieces are there, or when someone deleted the file it was in.
ArchivesAreKept ==
  /\ Closed >= Min({past.closed, Retained})
  /\ \A r \in past.written \ (past.deleted \cup ToSet(Kept)) :
       Closed >= Retained /\ \A k \in ToSet(Kept) : k > r

\* The logger, all in all.
LoggerIsExact == TypeOK /\ RecordsAreAccounted /\ FilesAreInOrder /\ ArchivesAreKept

=============================================================================
