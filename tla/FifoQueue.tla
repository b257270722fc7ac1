------------------------------ MODULE FifoQueue ------------------------------
(***************************************************************************)
(* What BoundedChannel promises of its values, without threads, waits or   *)
(* subscriptions: a bounded queue that hands every value it accepted out   *)
(* once, in order, also after it was closed.                               *)
(***************************************************************************)
EXTENDS Integers, Sequences

CONSTANTS Messages, Bytes, MaxMessages, MaxRetainedBytes

VARIABLES
  items, held,   \* the values in the queue and their bytes
  open,
  handed         \* the values handed out, in order

fifoVars == <<items, held, open, handed>>

FifoInit == items = <<>> /\ held = 0 /\ open = TRUE /\ handed = <<>>

Elements(s) == {s[i] : i \in 1..Len(s)}

\* A value is accepted once, and only while it fits.
Put(m) ==
  /\ open /\ m \notin Elements(items) \cup Elements(handed)
  /\ Len(items) < MaxMessages /\ held + Bytes[m] <= MaxRetainedBytes
  /\ items' = Append(items, m) /\ held' = held + Bytes[m]
  /\ UNCHANGED <<open, handed>>

Take ==
  /\ items # <<>>
  /\ items' = Tail(items) /\ held' = held - Bytes[Head(items)]
  /\ handed' = Append(handed, Head(items))
  /\ UNCHANGED open

Shut == open /\ open' = FALSE /\ UNCHANGED <<items, held, handed>>

FifoNext == (\E m \in Messages : Put(m)) \/ Take \/ Shut

FifoSpec == FifoInit /\ [][FifoNext]_fifoVars
=============================================================================
