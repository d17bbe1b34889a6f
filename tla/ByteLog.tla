------------------------------ MODULE ByteLog ------------------------------
(***************************************************************************)
(* The application log of the runtime (console.rs): stdout and stderr of   *)
(* the enclave go through a pipe into a ring buffer, from which one task   *)
(* per connection streams them to the host.  Appending and reading hold    *)
(* the lock; writing to a connection and waiting do not.                   *)
(*                                                                         *)
(* The bytes of the log are the numbers 0, 1, 2, ... in the order in which *)
(* they are written, so that the ring holds what it should exactly when    *)
(* every slot holds the number of its byte.                                *)
(***************************************************************************)
EXTENDS Naturals, Sequences

CONSTANTS
  Readers,    \* connections to the log port
  Capacity,   \* usable bytes of the ring (APP_LOG_CAPACITY)
  ChunkMax,   \* size of the buffer LogServicer::run reads into
  BufSize,    \* size of the buffer LogReader::write_all reads into
  MaxBytes    \* bound: bytes written in all

ASSUME ByteLogAssumption ==
  /\ Capacity \in Nat /\ ChunkMax \in Nat \ {0} /\ BufSize \in Nat \ {0}
  /\ ChunkMax <= Capacity
  /\ MaxBytes \in Nat

VARIABLES
  ring,     \* the storage of CircBuf
  rd,       \* its read position
  len,      \* the number of bytes in it
  head,     \* the number of the first byte in it
  total,    \* the number of bytes written so far
  pc,       \* where the stream task of a connection is
  pos,      \* its LogCursor
  buf,      \* the bytes it has read and not yet written
  unseen,   \* its watch has a change it has not seen yet
  out       \* the bytes its connection has received

ringVars   == <<ring, rd, len, head, total>>
readerVars == <<pc, pos, buf, unseen, out>>
logVars    == <<ringVars, readerVars>>

Size    == Capacity + 1
Slots   == 0 .. Capacity
Bytes   == 0 .. (MaxBytes - 1)
Watched == {"read", "write", "drained", "wait"}

LogTypeOK ==
  /\ ring \in [Slots -> Bytes \cup {0}]
  /\ rd \in Slots
  /\ len \in 0 .. Capacity
  /\ head \in Nat
  /\ total \in 0 .. MaxBytes
  /\ pc \in [Readers -> {"idle", "watch", "gone"} \cup Watched]
  /\ pos \in [Readers -> 0 .. MaxBytes]
  /\ buf \in [Readers -> Seq(Bytes)]
  /\ unseen \in [Readers -> BOOLEAN]
  /\ out \in [Readers -> Seq(Bytes)]

LogInit ==
  /\ ring = [s \in Slots |-> 0]
  /\ rd = 0 /\ len = 0 /\ head = 0 /\ total = 0
  /\ pc = [r \in Readers |-> "idle"]
  /\ pos = [r \in Readers |-> 0]
  /\ buf = [r \in Readers |-> <<>>]
  /\ unseen = [r \in Readers |-> FALSE]
  /\ out = [r \in Readers |-> <<>>]

-----------------------------------------------------------------------------
(* CircBuf, as append and read use it: Size slots, one of which stays free *)

Avail == Capacity - len

\* The bytes of n slots from slot s on, without wrapping around.
Slice(s, n) == [k \in 1 .. n |-> ring[s + k - 1]]

\* get_bytes_upto_size: the first n bytes as two slices, the second of which
\* holds what has wrapped around.
BytesUpto(n) ==
  LET all   == IF n < len THEN n ELSE len
      first == IF all < Size - rd THEN all ELSE Size - rd
  IN  <<Slice(rd, first), Slice(0, all - first)>>

-----------------------------------------------------------------------------
(* ByteLog *)

\* Fault: everything is dropped when the room does not suffice.
TrimAll(n) == IF Avail < n THEN len ELSE 0

\* The number of bytes append drops from the head to make room for n.
Trim(n) == IF Avail < n THEN n - Avail ELSE 0

\* Fault: the head is not moved along with the read position.
HeadStays(n) == head

\* The number of the first byte in the ring once n bytes are appended.
HeadAfter(n) == head + Trim(n)

\* Fault: only tasks that already wait are told.
WakeWaiting(r) == unseen[r] \/ pc[r] = "wait"

\* WatchSet::notify: every watch that has been added and not dropped.
Notified(r) == unseen[r] \/ pc[r] \in Watched

\* LogServicer::run: n bytes arrive through the pipe and are appended.
LogAppend(n) ==
  LET drop == Trim(n)
      free == (rd + len) % Size
  IN
  /\ total + n <= MaxBytes
  /\ rd' = (rd + drop) % Size
  /\ head' = HeadAfter(n)
  /\ len' = len - drop + n
  /\ ring' = [s \in Slots |->
                LET k == (s + Size - free) % Size IN IF k < n THEN total + k ELSE ring[s]]
  /\ total' = total + n
  /\ unseen' = [r \in Readers |-> Notified(r)]
  /\ UNCHANGED <<pc, pos, buf, out>>

\* Fault: the offset into the first slice is applied to the second as well.
SkipAgain(acc, data) ==
  IF acc.offset < Len(data)
  THEN [acc EXCEPT !.copied = @ \o SubSeq(data, acc.offset + 1, Len(data))]
  ELSE [acc EXCEPT !.offset = @ - Len(data)]

\* One turn of the loop in ByteLog::read over the slices of the ring.
CopySlice(acc, data) ==
  IF acc.offset < Len(data)
  THEN [offset |-> 0, copied |-> acc.copied \o SubSeq(data, acc.offset + 1, Len(data))]
  ELSE [acc EXCEPT !.offset = @ - Len(data)]

\* Where ByteLog::read starts for a cursor at p.
Start(p) == IF p < head THEN head ELSE p

\* The bytes ByteLog::read copies into a buffer of BufSize bytes.
ReadBytes(p) ==
  LET offset == Start(p) - head
      slices == BytesUpto(BufSize + offset)
      first  == CopySlice([offset |-> offset, copied |-> <<>>], slices[1])
  IN  CopySlice(first, slices[2]).copied

-----------------------------------------------------------------------------
(* LogReader::stream, one task per connection *)

Accept(r) ==
  /\ pc[r] = "idle"
  /\ pc' = [pc EXCEPT ![r] = "watch"]
  /\ UNCHANGED <<ringVars, pos, buf, unseen, out>>

Watch(r) ==
  /\ pc[r] = "watch"
  /\ pc' = [pc EXCEPT ![r] = "read"]
  /\ unseen' = [unseen EXCEPT ![r] = FALSE]
  /\ UNCHANGED <<ringVars, pos, buf, out>>

\* One turn of write_all: read under the lock, and leave the loop when there
\* is nothing more.
Read(r) ==
  LET data == ReadBytes(pos[r]) IN
  /\ pc[r] = "read"
  /\ buf' = [buf EXCEPT ![r] = data]
  /\ pos' = [pos EXCEPT ![r] = Start(@) + Len(data)]
  /\ pc' = [pc EXCEPT ![r] = IF data = <<>> THEN "drained" ELSE "write"]
  /\ UNCHANGED <<ringVars, unseen, out>>

\* write_all has returned, without the lock; the wait begins.
Sleep(r) ==
  /\ pc[r] = "drained"
  /\ pc' = [pc EXCEPT ![r] = "wait"]
  /\ UNCHANGED <<ringVars, pos, buf, unseen, out>>

\* The host takes the bytes, or has hung up: then the task ends and its watch
\* is dropped.
Write(r) ==
  /\ pc[r] = "write"
  /\ buf' = [buf EXCEPT ![r] = <<>>]
  /\ \/ /\ out' = [out EXCEPT ![r] = @ \o buf[r]]
        /\ pc' = [pc EXCEPT ![r] = "read"]
        /\ UNCHANGED unseen
     \/ /\ pc' = [pc EXCEPT ![r] = "gone"]
        /\ unseen' = [unseen EXCEPT ![r] = FALSE]
        /\ UNCHANGED out
  /\ UNCHANGED <<ringVars, pos>>

Wake(r) ==
  /\ pc[r] = "wait" /\ unseen[r]
  /\ pc' = [pc EXCEPT ![r] = "read"]
  /\ unseen' = [unseen EXCEPT ![r] = FALSE]
  /\ UNCHANGED <<ringVars, pos, buf, out>>

LogTask(r) == Watch(r) \/ Read(r) \/ Write(r) \/ Sleep(r) \/ Wake(r)

LogNext ==
  \/ \E n \in 1 .. ChunkMax : LogAppend(n)
  \/ \E r \in Readers : Accept(r) \/ LogTask(r)

LogSpec == LogInit /\ [][LogNext]_logVars

\* The executor runs ready tasks, and a host that is connected reads.
LogFairSpec == LogSpec /\ \A r \in Readers : WF_logVars(LogTask(r))

-----------------------------------------------------------------------------
(* Properties *)

\* The ring holds the last bytes of the log, across every wrap around: the
\* assertions of append never fail and a cursor can be turned into an offset.
RingHoldsTail ==
  /\ head + len = total
  /\ \A k \in 0 .. (len - 1) : ring[(rd + k) % Size] = head + k

\* The bytes a connection was or will be sent are in order and without
\* repetition, and no byte that the log still holds was passed over.
StreamIsFaithful ==
  \A r \in Readers : pc[r] # "gone" =>
    LET got == out[r] \o buf[r] IN
    /\ \A i, j \in DOMAIN got : i < j => got[i] < got[j]
    /\ \A b \in head .. (pos[r] - 1) : b \in {got[i] : i \in DOMAIN got}
    /\ got # <<>> => got[Len(got)] = pos[r] - 1

\* A task that waits has sent everything there is: bytes appended after its
\* last read have set its watch.
NoMissedBytes ==
  \A r \in Readers : pc[r] = "wait" /\ ~unseen[r] => pos[r] = total

\* A connected host catches up with the log: it is sent everything that was
\* written, up to bytes overwritten before their turn came, even though the
\* task sleeps without the lock.
CatchesUp ==
  \A r \in Readers : pc[r] \in {"watch"} \cup Watched ~> pos[r] = total \/ pc[r] = "gone"

\* The log keeps its promise to every reader.
Log == INSTANCE LogStream WITH oldest <- head, newest <- total, next <- pos

Promise == Log!Spec
=============================================================================
