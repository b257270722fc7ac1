----------------------------- MODULE AtomicFile -----------------------------
(***************************************************************************)
(* Core::AtomicFile on a POSIX system: writers fill temporary files beside *)
(* a target and rename them over it.  The system may stop at any moment;   *)
(* what is then left is what had reached the disk.                         *)
(*                                                                         *)
(* Writers[w] is the FileSync of writer w.  A file has Chunks chunks when  *)
(* it is whole; the target holds a whole file "old" at first.              *)
(***************************************************************************)
EXTENDS Integers, Sequences

CONSTANTS
  Writers,   \* a function from writers to "none", "file" or "directory"
  Chunks,    \* chunks the application writes
  Faults     \* system calls that fail

Files == DOMAIN Writers \cup {"old"}

VARIABLES
  state,     \* AtomicFile::State of each writer: its phase and failure
  cache,     \* chunks of each file a reader sees
  disk,      \* chunks of each file that would survive
  dirty,     \* files whose cached chunks will still be written back
  names,     \* the temporary names there are
  target,    \* the file the target's name leads to, and on the disk
  up,        \* the system runs
  budget     \* faults so far

vars == <<state, cache, disk, dirty, names, target, up, budget>>

Init ==
  /\ state = [w \in DOMAIN Writers |-> [at |-> "none", calls |-> 0, failed |-> FALSE, answer |-> "none"]]
  /\ cache = [f \in Files |-> IF f = "old" THEN Chunks ELSE 0]
  /\ disk = cache /\ dirty = {} /\ names = {}
  /\ target = [live |-> "old", disk |-> "old", order |-> <<"old">>]
  /\ up = TRUE /\ budget = 0

Fault == budget < Faults /\ budget' = budget + 1
Open(w) == up /\ state[w].at = "open"

\* open(O_CREAT | O_EXCL) of a fresh name; the target is not touched.
Create(w) ==
  /\ up /\ state[w].at = "none"
  /\ state' = [state EXCEPT ![w].at = "open"] /\ names' = names \cup {w}
  /\ UNCHANGED <<cache, disk, dirty, target, up, budget>>

\* The application calls Write for each chunk, whatever it answers; a failed or
\* cancelled one ends the writer's use.
Write(w) ==
  /\ Open(w) /\ state[w].calls < Chunks
  /\ IF state[w].failed
     THEN state' = [state EXCEPT ![w].calls = @ + 1] /\ UNCHANGED <<cache, dirty, budget>>
     ELSE \/ /\ cache' = [cache EXCEPT ![w] = @ + 1] /\ dirty' = dirty \cup {w}
             /\ state' = [state EXCEPT ![w].calls = @ + 1] /\ UNCHANGED budget
          \/ /\ Fault /\ state' = [state EXCEPT ![w].calls = @ + 1, ![w].failed = TRUE]
             /\ UNCHANGED <<cache, dirty>>
  /\ UNCHANGED <<disk, names, target, up>>

\* fsync.  The kernel reports a failed writeback once and calls the pages clean.
SyncOk(w) == disk' = [disk EXCEPT ![w] = IF w \in dirty THEN cache[w] ELSE @] /\ dirty' = dirty \ {w}
SyncFails(w) == w \in dirty /\ Fault /\ dirty' = dirty \ {w} /\ UNCHANGED disk

\* Where a failed synchronisation leaves the writer.
MutantAfterSyncFailure(s) == s
AfterSyncFailure(s) == [s EXCEPT !.failed = TRUE]

CommitSyncs(w) ==
  /\ Open(w) /\ ~state[w].failed /\ state[w].calls = Chunks
  /\ \/ /\ IF Writers[w] = "none" THEN UNCHANGED <<disk, dirty>> ELSE SyncOk(w)
        /\ state' = [state EXCEPT ![w].at = "rename"] /\ UNCHANGED budget
     \/ /\ Writers[w] # "none" /\ SyncFails(w)
        /\ state' = [state EXCEPT ![w] = AfterSyncFailure(@)]
  /\ UNCHANGED <<cache, names, target, up>>

\* renameat; a failure leaves the writer where it can try again.
CommitRenames(w) ==
  /\ up /\ state[w].at = "rename"
  /\ \/ /\ target' = [target EXCEPT !.live = w, !.order = Append(@, w)] /\ names' = names \ {w}
        /\ state' = [state EXCEPT ![w].at = IF Writers[w] = "directory" THEN "directory" ELSE "done",
                                  ![w].answer = IF Writers[w] = "directory" THEN @ ELSE "ok"]
        /\ UNCHANGED budget
     \/ Fault /\ state' = [state EXCEPT ![w].at = "open"] /\ UNCHANGED <<names, target>>
  /\ UNCHANGED <<cache, disk, dirty, up>>

CommitSyncsDirectory(w) ==
  /\ up /\ state[w].at = "directory"
  /\ \/ /\ target' = [target EXCEPT !.disk = target.live]
        /\ state' = [state EXCEPT ![w].at = "done", ![w].answer = "ok"] /\ UNCHANGED budget
     \/ Fault /\ state' = [state EXCEPT ![w].at = "done", ![w].answer = "error"] /\ UNCHANGED target
  /\ UNCHANGED <<cache, disk, dirty, names, up>>

\* Cancel and the destructor: Cleanup removes what was not committed.
Cancel(w) ==
  /\ Open(w)
  /\ \/ names' = names \ {w} /\ state' = [state EXCEPT ![w].at = "done"] /\ UNCHANGED budget
     \/ Fault /\ state' = [state EXCEPT ![w].at = "left"] /\ UNCHANGED names
  /\ UNCHANGED <<cache, disk, dirty, target, up>>

\* The kernel writes back on its own, in any order.
WritesBack ==
  /\ up
  /\ \/ \E f \in dirty : disk[f] < cache[f] /\ disk' = [disk EXCEPT ![f] = @ + 1] /\ UNCHANGED target
     \/ target.disk # target.live /\ target' = [target EXCEPT !.disk = target.live] /\ UNCHANGED disk
  /\ UNCHANGED <<state, cache, dirty, names, up, budget>>

\* The system stops and starts again: the caches are gone.
Crash ==
  /\ up /\ up' = FALSE
  /\ target' = [target EXCEPT !.live = target.disk] /\ cache' = disk /\ dirty' = {}
  /\ UNCHANGED <<state, disk, names, budget>>

Next ==
  \/ WritesBack \/ Crash
  \/ \E w \in DOMAIN Writers :
       Create(w) \/ Write(w) \/ CommitSyncs(w) \/ CommitRenames(w) \/ CommitSyncsDirectory(w) \/ Cancel(w)

Spec == Init /\ [][Next]_vars

-----------------------------------------------------------------------------

TypeOK ==
  /\ \A f \in Files : cache[f] \in 0..Chunks /\ disk[f] \in 0..Chunks
  /\ dirty \subseteq Files /\ names \subseteq DOMAIN Writers /\ target.live \in Files

Position(f) == CHOOSE i \in DOMAIN target.order : target.order[i] = f

\* Whoever opens the target reads a whole file.  After a crash too, unless the
\* file there is of a writer that asked for no synchronisation.
TargetIsWhole ==
  IF up \/ target.live = "old" \/ Writers[target.live] # "none" THEN cache[target.live] = Chunks ELSE TRUE

\* After a crash the target is no older than any commit that synchronised the
\* directory and answered Ok.
CommitsAreDurable ==
  \A w \in DOMAIN Writers :
    Writers[w] = "directory" /\ state[w].answer = "ok" => Position(target.live) >= Position(w)

\* A temporary file is left only by a writer still at work, by a crash or by an
\* unlink that failed; and the target's name never stands for a temporary file.
NothingIsLeftBehind ==
  /\ \A w \in names : state[w].at \in {"open", "rename", "left"} \/ ~up
  /\ target.live \notin names \/ ~up

\* The file, all in all.
AtomicFileIsAtomic == TypeOK /\ TargetIsWhole /\ CommitsAreDurable /\ NothingIsLeftBehind

=============================================================================
