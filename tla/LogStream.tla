----------------------------- MODULE LogStream -----------------------------
(***************************************************************************)
(* What the runtime's log promises its readers: a log that retains its     *)
(* last Capacity bytes, numbered from 0, and hands every reader the bytes  *)
(* in order.  A reader that has fallen behind goes on with the oldest byte *)
(* that is still there; it never skips a byte that is retained.            *)
(***************************************************************************)
EXTENDS Naturals

CONSTANTS
  Readers,   \* connections to the log port
  Capacity   \* bytes the log retains

VARIABLES
  oldest,  \* the first byte still retained
  newest,  \* the number of bytes written so far
  next     \* for every reader, the byte after the last one it took

vars == <<oldest, newest, next>>

Init ==
  /\ oldest = 0 /\ newest = 0
  /\ next = [r \in Readers |-> 0]

\* n more bytes are written; no more of the old ones are dropped than needed.
Produce(n) ==
  /\ newest' = newest + n
  /\ oldest' = IF newest' > oldest + Capacity THEN newest' - Capacity ELSE oldest
  /\ UNCHANGED next

\* A reader takes bytes without a gap, starting where it stopped or at the
\* oldest byte.
Take(r) ==
  LET start == IF next[r] < oldest THEN oldest ELSE next[r] IN
  /\ \E last \in start .. (newest - 1) : next' = [next EXCEPT ![r] = last + 1]
  /\ UNCHANGED <<oldest, newest>>

Next ==
  \/ \E n \in 1 .. Capacity : Produce(n)
  \/ \E r \in Readers : Take(r)

Spec == Init /\ [][Next]_vars
=============================================================================
