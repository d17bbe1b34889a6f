------------------------ MODULE VsockServicesProofs ------------------------
(***************************************************************************)
(* Proofs about the three services that cross the vsock between the host   *)
(* and the enclave: the status stream, clock sync and the application log. *)
(* They are for any ends of launch(), any number of connection losses and  *)
(* any retry limit; for any length of a second in nanoseconds, any delays  *)
(* and any skew; and for any number of readers and any sizes of the ring,  *)
(* of what is appended and of what is read.                                *)
(***************************************************************************)
EXTENDS StatusStream, ClockSync, ByteLog, TLAPS

-----------------------------------------------------------------------------
(***************************************************************************)
(* The status stream                                                       *)
(*                                                                         *)
(* A line on its way to the shell tells the current status or that the     *)
(* application was running, and a stream task that has nothing left to be  *)
(* told has read the current status.                                       *)
(***************************************************************************)

\* A status the stream task has read is the current one, or launch() had not
\* ended yet.
Stale(s) == s = "running" \/ s = status

\* What is on its way to the shell.  Every line tells the current status or
\* that the application was running; a stream task with nothing left to be
\* told has read the current status.  The last conjunct keeps the count of
\* failed attempts within its type.
InFlight ==
  /\ status = "running" \/ status \in Ends
  /\ stream \in {"write", "wait"} => Stale(sent)
  /\ stream \in {"write", "wait"} /\ ~changed => sent = status
  /\ \A n \in DOMAIN wire : wire[n].tag = "running" \/ wire[n].tag = Tag(status)
  /\ result \in Tags => result # "running" /\ result = Tag(status)
  /\ host # "returned" => failed < StatusRetryLimit

StatusInv == StatusTypeOK /\ InFlight

\* Tags and lines of every status
LEMMA TagTypes ==
  /\ \A s \in Status : Tag(s) \in Tags /\ AsJson(s) \in Lines
  /\ \A s \in Status : AsJson(s).tag = Tag(s)
  /\ Tag("running") = "running"
  /\ \A s \in Ends : Tag(s) # "running"
BY Zenon DEF Status, Ends, Tag, Tags, AsJson, Lines

\* It holds before the runtime serves its status.
LEMMA StatusInitInv == StatusInit => StatusInv
<1>1. StatusInit => StatusTypeOK
  <2>1. StatusInit => wire \in Seq(Lines) /\ failed \in 0 .. StatusRetryLimit /\ drops \in 0 .. MaxDrops
    BY StatusAssumption DEF StatusInit
  <2> QED BY <2>1, Zenon DEF StatusInit, StatusTypeOK, Status
<1>2. StatusInit => InFlight
  BY StatusAssumption DEF StatusInit, InFlight, Tags
<1> QED BY <1>1, <1>2, Zenon DEF StatusInv

\* What is left of the wire after the shell has read a line or the connection
\* has broken consists of lines that were there.
LEMMA WireShrinks ==
  ASSUME NEW w \in Seq(Lines)
  PROVE  /\ \A n \in 0 .. Len(w) : /\ SubSeq(w, 1, n) \in Seq(Lines)
                                   /\ \A k \in DOMAIN SubSeq(w, 1, n) :
                                        k \in DOMAIN w /\ SubSeq(w, 1, n)[k] = w[k]
         /\ w # <<>> => /\ Head(w) = w[1] /\ 1 \in DOMAIN w
                        /\ Tail(w) \in Seq(Lines)
                        /\ \A k \in DOMAIN Tail(w) :
                             k + 1 \in DOMAIN w /\ Tail(w)[k] = w[k + 1]
  OBVIOUS

\* Every step keeps the invariant.
LEMMA StatusStepInv == StatusInv /\ [StatusNext]_statusVars => StatusInv'
<1> SUFFICES ASSUME StatusInv, [StatusNext]_statusVars PROVE StatusInv'
  BY Zenon
<1> USE DEF StatusInv, InFlight, Stale
<1> USE DEF enclaveVars, streamVars, connVars, hostVars
<1>1. CASE StartServing
  BY <1>1 DEF StartServing, StatusTypeOK
<1>2. CASE LaunchEnds
  <2>1. status = "running" /\ status' \in Ends /\ status' \in Status
    BY <1>2, StatusAssumption, Zenon DEF LaunchEnds, Status
  <2>2. StatusTypeOK'
    BY <1>2, <2>1, ZenonT(30) DEF LaunchEnds, Notify, StatusTypeOK
  <2>3. result \notin Tags
    BY <2>1, TagTypes, Zenon DEF StatusTypeOK
  <2>4. \A n \in DOMAIN wire : wire[n].tag = "running"
    BY <2>1, TagTypes, Zenon
  <2>5. stream \in {"write", "wait"} => changed' /\ sent = "running"
    BY <1>2, <2>1, Zenon DEF LaunchEnds, Notify
  <2> QED BY <1>2, <2>1, <2>2, <2>3, <2>4, <2>5, Zenon DEF LaunchEnds
<1>3. CASE StreamAdd
  BY <1>3, ZenonT(30) DEF StreamAdd, StatusTypeOK
<1>4. CASE StreamRead
  BY <1>4, ZenonT(30) DEF StreamRead, StatusTypeOK
<1>5. CASE StreamWrite
  <2>1. sent \in Status
    BY <1>5, Zenon DEF StreamWrite, StatusTypeOK, Status
  <2>2. CASE open
    <3>1. wire' = Append(wire, AsJson(sent)) /\ AsJson(sent) \in Lines
      BY <1>5, <2>1, <2>2, TagTypes, Zenon DEF StreamWrite
    <3>2. AsJson(sent).tag = "running" \/ AsJson(sent).tag = Tag(status)
      BY <1>5, <2>1, TagTypes, Zenon DEF StreamWrite
    <3>3. wire' \in Seq(Lines)
      BY <3>1 DEF StatusTypeOK
    <3>4. \A n \in DOMAIN wire' : wire'[n].tag = "running" \/ wire'[n].tag = Tag(status)
      <4>1. wire \in Seq(Lines)
        BY Zenon DEF StatusTypeOK
      <4> QED BY <3>1, <3>2, <4>1
    <3> QED BY <1>5, <3>3, <3>4 DEF StreamWrite, StatusTypeOK
  <2>3. CASE ~open
    BY <1>5, <2>3, ZenonT(30) DEF StreamWrite, StatusTypeOK
  <2> QED BY <2>2, <2>3, Zenon DEF StatusTypeOK
<1>6. CASE StreamWake
  BY <1>6, ZenonT(30) DEF StreamWake, StatusTypeOK
<1>7. CASE EnclaveDies
  BY <1>7, ZenonT(30) DEF EnclaveDies, StatusTypeOK
<1>8. CASE Drop
  <2>1. PICK n \in 0 .. Len(wire) : wire' = SubSeq(wire, 1, n)
    BY <1>8, Zenon DEF Drop
  <2>2. wire \in Seq(Lines) /\ drops' \in 0 .. MaxDrops
    BY <1>8, StatusAssumption DEF Drop, StatusTypeOK
  <2>3. /\ wire' \in Seq(Lines)
        /\ \A k \in DOMAIN wire' : k \in DOMAIN wire /\ wire'[k] = wire[k]
    BY <2>1, <2>2, WireShrinks, Zenon
  <2>4. open' = FALSE /\ UNCHANGED <<enclaveVars, streamVars, hostVars>>
    BY <1>8, Zenon DEF Drop
  <2>5. StatusTypeOK'
    BY <2>2, <2>3, <2>4, ZenonT(30) DEF StatusTypeOK
  <2>6. \A k \in DOMAIN wire' : wire'[k].tag = "running" \/ wire'[k].tag = Tag(status)
    BY <2>3, Zenon
  <2> QED BY <2>4, <2>5, <2>6, Zenon
<1>9. CASE Connect
  <2>1. wire' \in Seq(Lines) /\ DOMAIN wire' = {}
    BY <1>9 DEF Connect
  <2> QED BY <1>9, <2>1, Zenon DEF Connect, StatusTypeOK
<1>10. CASE ConnectFails
  <2>1. failed' \in 0 .. StatusRetryLimit /\ (host' # "returned" => failed' < StatusRetryLimit)
    BY <1>10, StatusAssumption DEF ConnectFails, Return, StatusTypeOK
  <2>2. result' = result \/ (result' = "error" /\ result' \notin Tags)
    BY <1>10, Zenon DEF ConnectFails, Return, Tags
  <2>3. host' \in {"connect", "returned"}
    BY <1>10, Zenon DEF ConnectFails, Return
  <2>4. UNCHANGED <<enclaveVars, streamVars, connVars, drops>>
    BY <1>10, Zenon DEF ConnectFails
  <2> QED BY <2>1, <2>2, <2>3, <2>4 DEF StatusTypeOK
<1>11. CASE ReadLine
  <2>1. /\ wire \in Seq(Lines) /\ wire # <<>>
        /\ Head(wire) = wire[1] /\ 1 \in DOMAIN wire
        /\ UNCHANGED <<enclaveVars, streamVars, failed, drops>>
    BY <1>11, WireShrinks, Zenon DEF ReadLine, StatusTypeOK
  <2>2. CASE Reconnect
    <3>1. wire' \in Seq(Lines) /\ DOMAIN wire' = {}
      BY <2>2 DEF Reconnect
    <3>2. host' = "connect" /\ open' = FALSE /\ result' = result
      BY <2>2, Zenon DEF Reconnect
    <3>3. host = "read"
      BY <1>11, Zenon DEF ReadLine
    <3> QED BY <2>1, <3>1, <3>2, <3>3, ZenonT(30) DEF StatusTypeOK
  <2>3. CASE Final(Head(wire).tag) /\ Return(Head(wire).tag) /\ wire' = <<>> /\ open' = FALSE
    <3>1. Head(wire).tag \in Tags /\ Head(wire).tag # "running"
      BY <2>3, Zenon DEF Final, Tags
    <3>2. Head(wire).tag = Tag(status)
      BY <2>1, <3>1, Zenon
    <3>3. wire' \in Seq(Lines) /\ DOMAIN wire' = {}
      BY <2>3
    <3> QED BY <2>1, <2>3, <3>1, <3>2, <3>3, ZenonT(30) DEF Return, StatusTypeOK
  <2>4. CASE wire' = Tail(wire) /\ UNCHANGED <<open, host, result>>
    <3>1. /\ wire' \in Seq(Lines)
          /\ \A k \in DOMAIN wire' : k + 1 \in DOMAIN wire /\ wire'[k] = wire[k + 1]
      BY <2>1, <2>4, WireShrinks, Zenon
    <3> QED BY <2>1, <2>4, <3>1 DEF StatusTypeOK
  <2> QED BY <1>11, <2>2, <2>3, <2>4, Zenon DEF ReadLine
<1>12. CASE StreamEnds
  BY <1>12, ZenonT(30) DEF StreamEnds, Reconnect, StatusTypeOK
<1>13. CASE UNCHANGED statusVars
  BY <1>13 DEF statusVars, StatusTypeOK
<1> QED
  BY <1>1, <1>2, <1>3, <1>4, <1>5, <1>6, <1>7, <1>8, <1>9, <1>10, <1>11, <1>12, <1>13, Zenon
  DEF StatusNext, StreamTask, AwaitExit

\* It holds throughout.
LEMMA StatusInvariant == StatusSpec => []StatusInv
BY StatusInitInv, StatusStepInv, PTL DEF StatusSpec

\* No status change is lost on a stream task, wherever it is when the change
\* comes (AppStatus::stream takes its watch before it reads the status).
THEOREM UpdatesAreSeen == StatusSpec => []NoMissedUpdate
<1>1. StatusInv => NoMissedUpdate
  BY Zenon DEF StatusInv, InFlight, NoMissedUpdate
<1> QED BY <1>1, StatusInvariant, PTL

\* Whatever await_exit returns is how the application really ended.
THEOREM ResultsAreTrue == StatusSpec => []ResultIsStatus
<1>1. StatusInv => ResultIsStatus
  BY TagTypes, Zenon DEF StatusInv, InFlight, ResultIsStatus
<1> QED BY <1>1, StatusInvariant, PTL

-----------------------------------------------------------------------------
(***************************************************************************)
(* Clock sync                                                              *)
(*                                                                         *)
(* The argument is in ClockInv: seen on the host's clock, the four         *)
(* timestamps and the last reading of the clock are in order and none lies *)
(* in the future.  With that the bound is arithmetic.                      *)
(***************************************************************************)

\* A timestamp stands for the number of nanoseconds it was made from
\* (as_nanos after from_nanos).
LEMMA NanosInverse ==
  ASSUME NEW n \in Int
  PROVE  FromNanos(n) \in Timestamp /\ AsNanos(FromNanos(n)) = n
BY ClockAssumption DEF FromNanos, AsNanos, Timestamp

\* A timestamp is a number of nanoseconds.
LEMMA NanosInt ==
  ASSUME NEW ts \in Timestamp
  PROVE  AsNanos(ts) \in Int
BY ClockAssumption DEF AsNanos, Timestamp

Attempting == {"ask", "wait", "stamp4", "read", "set"}

\* On the host's clock, t1, t2, t3, t4 and now_before come one after the other, and
\* the latest of them is not after now; the host has the request only while the
\* enclave waits for its answer.
ClockInv ==
  /\ ClockTypeOK
  /\ conn \in {"asked", "got"} => task = "wait"
  /\ conn = "answered" => task \in {"wait", "stamp4", "read", "set"}
  /\ task \in {"stamp4", "read", "set"} => conn = "answered"
  /\ task \in Attempting => T(1) - skew <= elapsed
  /\ conn \in {"got", "answered"} => T(1) - skew <= T(2) /\ T(2) <= elapsed
  /\ conn = "answered" => T(2) <= T(3) /\ T(3) <= elapsed
  /\ task \in {"read", "set"} => T(3) <= T(4) - skew /\ T(4) - skew <= elapsed
  /\ task = "set" => T(4) <= AsNanos(before) /\ AsNanos(before) <= elapsed + skew

\* The state before anything has been stamped
LEMMA ClockInitInv == ClockInit => ClockInv
<1>. SUFFICES ASSUME ClockInit PROVE ClockInv
  BY Zenon
<1>1. FromNanos(0) \in Timestamp
  BY NanosInverse
<1>2. skew \in Int
  BY ClockAssumption DEF ClockInit
<1>. QED
  BY <1>1, <1>2, Zenon DEF ClockInit, ClockInv, ClockTypeOK, ClockPCs, Conns, Attempting

\* What an attempt leaves behind when it is dropped
LEMMA DropInv ==
  ASSUME ClockTypeOK, DropAttempt, task' \in {"connect", "idle", "stopped"},
         initial' \in BOOLEAN, retries' \in Nat, skew' \in Int, last' \in {"none", "ok", "failed"}
  PROVE  ClockInv'
<1>1. FromNanos(0) \in Timestamp
  BY NanosInverse
<1>. QED
  BY <1>1, Zenon DEF DropAttempt, ClockInv, ClockTypeOK, ClockPCs, Conns, Attempting

\* Stamping leaves the other stamps as they are.
LEMMA Stamped ==
  ASSUME ClockTypeOK, NEW i \in 1 .. 4, NEW n \in Int,
         stamps' = [stamps EXCEPT ![i] = FromNanos(n)]
  PROVE  /\ stamps' \in [1 .. 4 -> Timestamp]
         /\ T(i)' = n
         /\ \A j \in (1 .. 4) \ {i} : T(j)' = T(j)
BY NanosInverse, Zenon DEF T, ClockTypeOK

\* Every step keeps the order.
LEMMA ClockStepInv == ClockInv /\ [ClockNext]_clockVars => ClockInv'
<1>. SUFFICES ASSUME ClockInv, [ClockNext]_clockVars PROVE ClockInv'
  BY Zenon
<1>0. /\ ClockTypeOK /\ elapsed \in Int /\ skew \in Int /\ elapsed + skew \in Int
      /\ \A i \in 1 .. 4 : T(i) \in Int
      /\ AsNanos(before) \in Int
  BY NanosInt DEF ClockInv, ClockTypeOK, T
<1>1. CASE ConnectHost
  BY <1>0, <1>1, Zenon DEF ConnectHost, ClockInv, ClockTypeOK, loop, T, ClockPCs, Conns, Attempting
<1>2. CASE StampTransmit
  <2>1. stamps' \in [1 .. 4 -> Timestamp] /\ T(1)' = elapsed + skew
    <3>1. 1 \in 1 .. 4 /\ stamps' = [stamps EXCEPT ![1] = FromNanos(elapsed + skew)]
      BY <1>2 DEF StampTransmit, EnclaveTime
    <3>. QED
      BY <1>0, <3>1, Stamped, Zenon
  <2>. QED
    BY <1>0, <1>2, <2>1 DEF StampTransmit, ClockInv, ClockTypeOK, loop, ClockPCs, Conns, Attempting
<1>3. CASE Ask
  BY <1>0, <1>3, Zenon DEF Ask, ClockInv, ClockTypeOK, loop, T, ClockPCs, Conns, Attempting
<1>4. CASE Answered
  BY <1>0, <1>4, Zenon DEF Answered, ClockInv, ClockTypeOK, loop, T, ClockPCs, Conns, Attempting
<1>5. CASE StampReceive
  <2>1. /\ stamps' \in [1 .. 4 -> Timestamp] /\ T(4)' = elapsed + skew
        /\ T(1)' = T(1) /\ T(2)' = T(2) /\ T(3)' = T(3)
    <3>1. /\ 4 \in 1 .. 4 /\ 1 \in (1 .. 4) \ {4} /\ 2 \in (1 .. 4) \ {4} /\ 3 \in (1 .. 4) \ {4}
          /\ stamps' = [stamps EXCEPT ![4] = FromNanos(elapsed + skew)]
      BY <1>5 DEF StampReceive, EnclaveTime
    <3>. QED
      BY <1>0, <3>1, Stamped, Zenon
  <2>. QED
    BY <1>0, <1>5, <2>1 DEF StampReceive, ClockInv, ClockTypeOK, loop, ClockPCs, Conns, Attempting
<1>6. CASE ReadNow
  <2>1. before' \in Timestamp /\ AsNanos(before') = elapsed + skew
    BY <1>0, <1>6, NanosInverse, Zenon DEF ReadNow, EnclaveTime
  <2>. QED
    BY <1>0, <1>6, <2>1 DEF ReadNow, ClockInv, ClockTypeOK, loop, T, ClockPCs, Conns, Attempting
<1>7. CASE SetSystemTime
  <2>1. skew' \in Int
    <3>1. Offset \in Int
      BY <1>0 DEF Offset, HalfTowardsZero
    <3>2. AsNanos(FromNanos(AsNanos(before) + Offset)) = AsNanos(before) + Offset
      BY <1>0, <3>1, NanosInverse
    <3>. QED
      BY <1>0, <1>7, <3>1, <3>2 DEF SetSystemTime
  <2>. QED
    BY <1>0, <1>7, <2>1, DropInv, Zenon DEF SetSystemTime, ClockTypeOK
<1>8. CASE SyncFails
  <2>1. /\ task' \in {"connect", "idle", "stopped"}
        /\ retries' \in Nat /\ skew' \in Int
        /\ last' \in {"none", "ok", "failed"}
    BY <1>0, <1>8 DEF SyncFails, Fail, ClockTypeOK
  <2>2. initial' \in BOOLEAN
    BY <1>0, <1>8, Zenon DEF SyncFails, Fail, ClockTypeOK
  <2>. QED
    BY <1>0, <1>8, <2>1, <2>2, DropInv, Zenon DEF SyncFails, Fail
<1>9. CASE IntervalTick
  BY <1>0, <1>9, Zenon DEF IntervalTick, ClockInv, ClockTypeOK, loop, T, ClockPCs, Conns, Attempting
<1>10. CASE HostReceive
  <2>1. /\ stamps' \in [1 .. 4 -> Timestamp] /\ T(2)' = elapsed
        /\ T(1)' = T(1) /\ T(3)' = T(3) /\ T(4)' = T(4)
    <3>1. /\ 2 \in 1 .. 4 /\ 1 \in (1 .. 4) \ {2} /\ 3 \in (1 .. 4) \ {2} /\ 4 \in (1 .. 4) \ {2}
          /\ stamps' = [stamps EXCEPT ![2] = FromNanos(elapsed)]
      BY <1>10 DEF HostReceive, HostTime
    <3>. QED
      BY <1>0, <3>1, Stamped, Zenon
  <2>. QED
    BY <1>0, <1>10, <2>1 DEF HostReceive, ClockInv, ClockTypeOK, loop, ClockPCs, Conns, Attempting
<1>11. CASE HostAnswer
  <2>1. /\ stamps' \in [1 .. 4 -> Timestamp] /\ T(3)' = elapsed
        /\ T(1)' = T(1) /\ T(2)' = T(2) /\ T(4)' = T(4)
    <3>1. /\ 3 \in 1 .. 4 /\ 1 \in (1 .. 4) \ {3} /\ 2 \in (1 .. 4) \ {3} /\ 4 \in (1 .. 4) \ {3}
          /\ stamps' = [stamps EXCEPT ![3] = FromNanos(elapsed)]
      BY <1>11 DEF HostAnswer, HostTime
    <3>. QED
      BY <1>0, <3>1, Stamped, Zenon
  <2>. QED
    BY <1>0, <1>11, <2>1 DEF HostAnswer, ClockInv, ClockTypeOK, loop, ClockPCs, Conns, Attempting
<1>12. CASE HostGivesUp
  BY <1>0, <1>12, Zenon DEF HostGivesUp, ClockInv, ClockTypeOK, loop, T, ClockPCs, Conns, Attempting
<1>13. CASE Stop
  BY <1>0, <1>13, DropInv, Zenon DEF Stop, loop, ClockTypeOK
<1>14. CASE TimePasses
  BY <1>0, <1>14 DEF TimePasses, ClockInv, ClockTypeOK, loop, T, ClockPCs, Conns, Attempting
<1>15. CASE Drift
  BY <1>0, <1>15, ClockAssumption DEF Drift, ClockInv, ClockTypeOK, loop, T, ClockPCs, Conns, Attempting
<1>16. CASE UNCHANGED clockVars
  BY <1>16, ZenonT(30) DEF clockVars, ClockInv, ClockTypeOK, T
<1>. QED
  BY <1>1, <1>2, <1>3, <1>4, <1>5, <1>6, <1>7, <1>8, <1>9, <1>10, <1>11, <1>12,
     <1>13, <1>14, <1>15, <1>16, Zenon DEF ClockNext, Enclave, Host

\* The division of sync_once is off by less than one.
LEMMA Rounding ==
  ASSUME NEW x \in Int
  PROVE  /\ HalfTowardsZero(x) \in Int
         /\ 2 * HalfTowardsZero(x) - x \in {-1, 0, 1}
BY DEF HalfTowardsZero

\* The bound, for the step that sets the clock
LEMMA SetWithinBound ==
  ASSUME ClockInv, SetSystemTime
  PROVE  2 * Abs(skew') <= Rtt + 2 * Gap + 1
<1>1. /\ elapsed \in Int /\ skew \in Int
      /\ T(1) \in Int /\ T(2) \in Int /\ T(3) \in Int /\ T(4) \in Int
      /\ AsNanos(before) \in Int
  BY NanosInt DEF ClockInv, ClockTypeOK, T
<1>2. /\ T(1) - skew <= T(2) /\ T(3) <= T(4) - skew
      /\ AsNanos(before) <= elapsed + skew
  BY Zenon DEF SetSystemTime, ClockInv
<1>3. /\ Offset \in Int
      /\ 2 * Offset - ((T(2) - T(1)) + (T(3) - T(4))) \in {-1, 0, 1}
  BY <1>1, Rounding DEF Offset
<1>4. skew' = AsNanos(before) + Offset - elapsed
  BY <1>1, <1>3, NanosInverse DEF SetSystemTime
<1>5. Gap = elapsed + skew - AsNanos(before)
  BY <1>1, NanosInverse DEF Gap, EnclaveTime
<1>. QED
  BY <1>1, <1>2, <1>3, <1>4, <1>5 DEF Rtt, Abs

\* The variables keep their types: no clock arithmetic leaves the integers, and no
\* timestamp has a nanosecond field of a second or more (from_nanos).
THEOREM ClockTypeCorrect == ClockSpec => []ClockTypeOK
<1>1. ClockInv => ClockTypeOK
  BY Zenon DEF ClockInv
<1>. QED
  BY <1>1, ClockInitInv, ClockStepInv, PTL DEF ClockSpec

\* Every sync leaves the clock of the enclave within half the measured round trip of
\* the host's, but for the delay of clock_settime and a rounding (sync_once), for any
\* delays, skews and number of attempts.
THEOREM ClockErrorBounded == ClockSpec => ErrorWithinHalfRtt
<1>1. ClockInv /\ [ClockNext]_clockVars => [SetSystemTime => 2 * Abs(skew') <= Rtt + 2 * Gap + 1]_clockVars
  BY SetWithinBound, Zenon
<1>. QED
  BY <1>1, ClockInitInv, ClockStepInv, PTL DEF ClockSpec, ErrorWithinHalfRtt

-----------------------------------------------------------------------------
(***************************************************************************)
(* The application log                                                     *)
(*                                                                         *)
(* The bytes of the log are consecutive numbers, so what read copies is a  *)
(* run of them.  LogInv says that the ring holds the last bytes, that every*)
(* reader has been sent what it should have, and that a reader which may   *)
(* sleep has everything.                                                   *)
(***************************************************************************)

\* A sequence of bytes is what a reader at byte p should have: in order, with
\* every byte that is still retained (from h on), up to the one before p.
Faithful(got, h, p) ==
  /\ \A i, j \in DOMAIN got : i < j => got[i] < got[j]
  /\ \A b \in h .. (p - 1) : b \in {got[i] : i \in DOMAIN got}
  /\ got # <<>> => got[Len(got)] = p - 1

\* What a reader has been sent, or is about to be, and whether it may sleep
Reader(r) ==
  /\ pos[r] <= total
  /\ pc[r] # "write" => buf[r] = <<>>
  /\ pc[r] # "gone" => Faithful(out[r] \o buf[r], head, pos[r])
  /\ pc[r] \in {"drained", "wait"} /\ ~unseen[r] => pos[r] = total

LogInv ==
  /\ LogTypeOK
  /\ RingHoldsTail
  /\ len = 0 => total = 0
  /\ \A r \in Readers : Reader(r)

-----------------------------------------------------------------------------
(* Positions in the ring *)

\* A position that is past the end by less than the size
Wrap(a, n) == IF a < n THEN a ELSE a - n

\* Positions up to twice the size wrap around at most once.
LEMMA Wrapped ==
  ASSUME NEW n \in Nat \ {0}, NEW a \in Nat, a < 2 * n
  PROVE  a % n = Wrap(a, n)
<1>1. CASE a < n
  <2>1. a % n = a
    BY <1>1
  <2>. QED
    BY <1>1, <2>1, Zenon DEF Wrap
<1>2. CASE n <= a
  <2>1. a % n = a - n /\ ~(a < n)
    BY <1>2
  <2>. QED
    BY <2>1, Zenon DEF Wrap
<1>. QED
  BY <1>1, <1>2

\* Where append leaves byte k of the new log: it is either old, and outside of
\* what is overwritten, or new, and where its number says.
Placed(size, p, l, n, drop, k) ==
  LET s == (((p + drop) % size) + k) % size
      j == (s + size - ((p + l) % size)) % size
  IN  /\ s \in 0 .. size - 1
      /\ drop + k < l => ~(j < n) /\ s = (p + (drop + k)) % size
      /\ ~(drop + k < l) => j < n /\ j = drop + k - l

\* Appending n bytes after dropping enough of the old ones puts every byte of
\* the new log in its place, wherever the ring wraps around.
LEMMA SlotOf ==
  ASSUME NEW size \in Nat \ {0}, NEW p \in Nat, p < size, NEW l \in Nat, l < size,
         NEW n \in Nat, n < size, NEW drop \in Nat, drop <= l, l - drop + n < size,
         NEW k \in Nat, k < l - drop + n
  PROVE  Placed(size, p, l, n, drop, k)
<1>. DEFINE q == (p + drop) % size
            s == (q + k) % size
            f == (p + l) % size
            j == (s + size - f) % size
<1>1. q = (IF p + drop < size THEN p + drop ELSE p + drop - size) /\ q \in Nat /\ q < size
  <2>1. p + drop \in Nat /\ p + drop < 2 * size
    OBVIOUS
  <2>2. q = Wrap(p + drop, size)
    BY <2>1, Wrapped, Zenon
  <2>. QED
    BY <2>1, <2>2 DEF Wrap
<1>2. f = (IF p + l < size THEN p + l ELSE p + l - size) /\ f \in Nat /\ f < size
  <2>1. p + l \in Nat /\ p + l < 2 * size
    OBVIOUS
  <2>2. f = Wrap(p + l, size)
    BY <2>1, Wrapped, Zenon
  <2>. QED
    BY <2>1, <2>2 DEF Wrap
<1>. HIDE DEF q, f
<1>3. s = (IF q + k < size THEN q + k ELSE q + k - size) /\ s \in Nat /\ s < size
  <2>1. q + k \in Nat /\ q + k < 2 * size
    BY <1>1
  <2>2. s = Wrap(q + k, size)
    BY <2>1, Wrapped, Zenon
  <2>. QED
    BY <1>1, <2>1, <2>2 DEF Wrap
<1>. HIDE DEF s
<1>4. j = IF s < f THEN s + size - f ELSE s - f
  <2>1. s + size - f \in Nat /\ s + size - f < 2 * size
    BY <1>2, <1>3
  <2>2. j = Wrap(s + size - f, size)
    BY <2>1, Wrapped, Zenon
  <2>. QED
    BY <1>2, <1>3, <2>2 DEF Wrap
<1>. HIDE DEF j
<1>5. s \in 0 .. size - 1
  BY <1>3
<1>6. ASSUME drop + k < l PROVE ~(j < n) /\ s = (p + (drop + k)) % size
  <2>1. p + (drop + k) \in Nat /\ p + (drop + k) < 2 * size
    BY <1>6
  <2>2. (p + (drop + k)) % size = Wrap(p + (drop + k), size)
    BY <2>1, Wrapped, Zenon
  <2>3. s = IF p + (drop + k) < size THEN p + (drop + k) ELSE p + (drop + k) - size
    BY <1>1, <1>3, <1>6
  <2>4. ~(j < n)
    BY <1>2, <1>4, <1>6, <2>3
  <2>. QED
    BY <2>2, <2>3, <2>4 DEF Wrap
<1>7. ASSUME ~(drop + k < l) PROVE j < n /\ j = drop + k - l
  BY <1>1, <1>2, <1>3, <1>4, <1>7
<1>. QED
  BY <1>5, <1>6, <1>7, Zenon DEF s, j, q, f, Placed
-----------------------------------------------------------------------------
(* What ByteLog::read copies *)

\* n consecutive bytes of the log, from byte b on
IsRun(s, b, n) ==
  /\ s \in Seq(Nat) /\ Len(s) = n
  /\ \A i \in 1 .. n : s[i] = b + i - 1

\* Nothing is a run of no bytes.
LEMMA EmptyRun ==
  ASSUME NEW b \in Nat
  PROVE  IsRun(<<>>, b, 0)
BY DEF IsRun

\* Skipping the first bytes of a run leaves a run that starts later.
LEMMA SubRun ==
  ASSUME NEW s, NEW b \in Nat, NEW n \in Nat, IsRun(s, b, n), NEW o \in Nat, o < n
  PROVE  IsRun(SubSeq(s, o + 1, n), b + o, n - o)
<1>1. s \in Seq(Nat) /\ Len(s) = n /\ \A i \in 1 .. n : s[i] = b + i - 1
  BY Zenon DEF IsRun
<1>2. SubSeq(s, o + 1, n) \in Seq(Nat) /\ Len(SubSeq(s, o + 1, n)) = n - o
  BY <1>1
<1>3. \A i \in 1 .. n - o : SubSeq(s, o + 1, n)[i] = s[o + i]
  BY <1>1
<1>4. \A i \in 1 .. n - o : s[o + i] = b + o + i - 1
  BY <1>1
<1>5. \A i \in 1 .. n - o : SubSeq(s, o + 1, n)[i] = (b + o) + i - 1
  BY <1>3, <1>4
<1>. QED
  BY <1>2, <1>5, Zenon DEF IsRun

\* Two sequences of numbers joined are one, as long as both.
LEMMA JoinTypes ==
  ASSUME NEW s \in Seq(Nat), NEW t \in Seq(Nat)
  PROVE  s \o t \in Seq(Nat) /\ Len(s \o t) = Len(s) + Len(t)
OBVIOUS

\* A run and one that starts where it ends are one run.
LEMMA JoinedRun ==
  ASSUME NEW s, NEW t, NEW b \in Nat, NEW n \in Nat, NEW m \in Nat,
         IsRun(s, b, n), IsRun(t, b + n, m)
  PROVE  IsRun(s \o t, b, n + m)
<1>1. /\ s \in Seq(Nat) /\ Len(s) = n /\ \A i \in 1 .. n : s[i] = b + i - 1
      /\ t \in Seq(Nat) /\ Len(t) = m /\ \A i \in 1 .. m : t[i] = (b + n) + i - 1
  BY Zenon DEF IsRun
<1>2. s \o t \in Seq(Nat) /\ Len(s \o t) = n + m
  <2>1. s \in Seq(Nat) /\ t \in Seq(Nat) /\ Len(s) = n /\ Len(t) = m
    BY <1>1, Zenon
  <2>2. s \o t \in Seq(Nat) /\ Len(s \o t) = Len(s) + Len(t)
    BY <2>1, JoinTypes, Zenon
  <2>. QED
    BY <2>1, <2>2, Zenon
<1>3. ASSUME NEW i \in 1 .. n + m PROVE (s \o t)[i] = b + i - 1
  <2>1. CASE i <= n
    <3>1. (s \o t)[i] = s[i] /\ i \in 1 .. n
      BY <1>1, <2>1
    <3>. QED
      BY <1>1, <3>1
  <2>2. CASE n < i
    <3>1. (s \o t)[i] = t[i - n] /\ i - n \in 1 .. m
      BY <1>1, <2>2, SMTT(30)
    <3>. QED
      BY <1>1, <3>1
  <2>3. i <= n \/ n < i
    OBVIOUS
  <2>. QED
    BY <2>1, <2>2, <2>3, Zenon
<1>. QED
  BY <1>2, <1>3, Zenon DEF IsRun

\* The ring between two appends
RingOK ==
  /\ ring \in [Slots -> Nat] /\ rd \in Slots /\ len \in 0 .. Capacity /\ head \in Nat
  /\ total \in Nat
  /\ RingHoldsTail

\* A slice that does not wrap around is a run.
LEMMA SliceRun ==
  ASSUME RingOK, NEW s \in Nat, NEW o \in Nat, NEW n \in Nat, o + n <= len, s + n <= Size,
         n > 0 => s = (rd + o) % Size
  PROVE  IsRun(Slice(s, n), head + o, n)
<1>1. /\ Capacity \in Nat /\ rd \in 0 .. Capacity /\ len \in 0 .. Capacity /\ head \in Nat
      /\ Size = Capacity + 1
  BY ByteLogAssumption DEF RingOK, Slots, Size
<1>2. ASSUME NEW k \in 1 .. n PROVE ring[s + k - 1] = (head + o) + k - 1
  <2>1. /\ o + k - 1 \in 0 .. len - 1 /\ s + k - 1 < Size /\ rd + o < 2 * Size
        /\ rd + o \in Nat /\ Size \in Nat \ {0}
        /\ rd + (o + k - 1) \in Nat /\ rd + (o + k - 1) < 2 * Size
    BY <1>1
  <2>2. s = Wrap(rd + o, Size)
    <3>1. s = (rd + o) % Size
      OBVIOUS
    <3>. QED
      BY <2>1, <3>1, Wrapped, Zenon
  <2>3. (rd + (o + k - 1)) % Size = s + k - 1
    <3>1. (rd + (o + k - 1)) % Size = Wrap(rd + (o + k - 1), Size)
      BY <2>1, Wrapped, Zenon
    <3>2. Wrap(rd + (o + k - 1), Size) = s + k - 1
      BY <1>1, <2>1, <2>2 DEF Wrap
    <3>. QED
      BY <3>1, <3>2, Zenon
  <2>4. ring[(rd + (o + k - 1)) % Size] = head + (o + k - 1)
    BY <2>1, Zenon DEF RingOK, RingHoldsTail
  <2>. QED
    BY <1>1, <2>3, <2>4
<1>3. Slice(s, n) = [k \in 1 .. n |-> ring[s + k - 1]]
  BY Zenon DEF Slice
<1>4. \A k \in 1 .. n : ring[s + k - 1] \in Nat
  BY <1>1, <1>2
<1>5. Slice(s, n) \in Seq(Nat) /\ Len(Slice(s, n)) = n
  BY <1>3, <1>4
<1>6. \A k \in 1 .. n : Slice(s, n)[k] = (head + o) + k - 1
  BY <1>2, <1>3, Zenon
<1>. QED
  BY <1>5, <1>6, Zenon DEF IsRun

\* A slice that reaches past the offset is copied from there on.
LEMMA CopySome ==
  ASSUME NEW o \in Nat, NEW c, NEW data, o < Len(data)
  PROVE  CopySlice([offset |-> o, copied |-> c], data) =
           [offset |-> 0, copied |-> c \o SubSeq(data, o + 1, Len(data))]
BY Zenon DEF CopySlice

\* A slice that lies before the offset is passed over.
LEMMA CopyNone ==
  ASSUME NEW o \in Nat, NEW c, NEW data, ~(o < Len(data))
  PROVE  CopySlice([offset |-> o, copied |-> c], data) =
           [offset |-> o - Len(data), copied |-> c]
<1>1. CopySlice([offset |-> o, copied |-> c], data) =
        [[offset |-> o, copied |-> c] EXCEPT !.offset = o - Len(data)]
  BY Zenon DEF CopySlice
<1>. QED
  BY <1>1

\* The loop over two slices that follow one another copies the bytes from the
\* offset on.
LEMMA CopyBoth ==
  ASSUME NEW b \in Nat, NEW n \in Nat, NEW m \in Nat, NEW o \in Nat, o <= n + m,
         NEW d1, NEW d2, IsRun(d1, b, n), IsRun(d2, b + n, m)
  PROVE  IsRun(CopySlice(CopySlice([offset |-> o, copied |-> <<>>], d1), d2).copied,
               b + o, (n + m) - o)
<1>1. Len(d1) = n /\ Len(d2) = m
  BY Zenon DEF IsRun
<1>2. 0 \in Nat /\ b + o \in Nat /\ b + n \in Nat
  OBVIOUS
<1>3. IsRun(<<>>, b + o, 0)
  BY <1>2, EmptyRun, Zenon
<1>4. CASE o < n
  <2>. DEFINE c == <<>> \o SubSeq(d1, o + 1, n)
  <2>1. CopySlice([offset |-> o, copied |-> <<>>], d1) = [offset |-> 0, copied |-> c]
    BY <1>1, <1>4, CopySome, Zenon
  <2>2. IsRun(c, b + o, n - o)
    <3>1. IsRun(SubSeq(d1, o + 1, n), b + o, n - o)
      BY <1>4, SubRun, Zenon
    <3>2. c = SubSeq(d1, o + 1, n)
      BY <3>1 DEF IsRun
    <3>. QED
      BY <3>1, <3>2, Zenon
  <2>. HIDE DEF c
  <2>3. CASE 0 < m
    <3>1. CopySlice([offset |-> 0, copied |-> c], d2) =
            [offset |-> 0, copied |-> c \o SubSeq(d2, 0 + 1, m)]
      BY <1>1, <1>2, <2>3, CopySome, ZenonT(30)
    <3>2. IsRun(SubSeq(d2, 0 + 1, m), (b + n) + 0, m - 0)
      BY <1>2, <2>3, SubRun, Zenon
    <3>3. (b + n) + 0 = (b + o) + (n - o) /\ m - 0 = m /\ n - o \in Nat /\ (n - o) + m = (n + m) - o
      BY <1>4
    <3>4. IsRun(SubSeq(d2, 0 + 1, m), (b + o) + (n - o), m)
      BY <3>2, <3>3, Zenon
    <3>5. IsRun(c \o SubSeq(d2, 0 + 1, m), b + o, (n - o) + m)
      BY <1>2, <2>2, <3>3, <3>4, JoinedRun, Zenon
    <3>6. CopySlice(CopySlice([offset |-> o, copied |-> <<>>], d1), d2).copied =
            c \o SubSeq(d2, 0 + 1, m)
      BY <2>1, <3>1
    <3>. QED
      BY <3>3, <3>5, <3>6, Zenon
  <2>4. CASE ~(0 < m)
    <3>1. CopySlice([offset |-> 0, copied |-> c], d2) = [offset |-> 0 - m, copied |-> c]
      BY <1>1, <1>2, <2>4, CopyNone, ZenonT(30)
    <3>2. (n + m) - o = n - o
      BY <2>4
    <3>3. CopySlice(CopySlice([offset |-> o, copied |-> <<>>], d1), d2).copied = c
      BY <2>1, <3>1
    <3>. QED
      BY <2>2, <3>2, <3>3, Zenon
  <2>. QED
    BY <2>3, <2>4, Zenon
<1>5. CASE ~(o < n)
  <2>1. CopySlice([offset |-> o, copied |-> <<>>], d1) = [offset |-> o - n, copied |-> <<>>]
    BY <1>1, <1>5, CopyNone, Zenon
  <2>2. o - n \in Nat
    BY <1>5
  <2>3. CASE o - n < m
    <3>. DEFINE c == SubSeq(d2, (o - n) + 1, m)
    <3>1. CopySlice([offset |-> o - n, copied |-> <<>>], d2) = [offset |-> 0, copied |-> <<>> \o c]
      BY <1>1, <2>2, <2>3, CopySome, Zenon
    <3>2. IsRun(c, (b + n) + (o - n), m - (o - n))
      BY <1>2, <2>2, <2>3, SubRun, Zenon
    <3>3. (b + n) + (o - n) = b + o /\ m - (o - n) = (n + m) - o
      OBVIOUS
    <3>4. <<>> \o c = c
      BY <3>2 DEF IsRun
    <3>. HIDE DEF c
    <3>5. CopySlice(CopySlice([offset |-> o, copied |-> <<>>], d1), d2).copied = c
      BY <2>1, <3>1, <3>4
    <3>. QED
      BY <3>2, <3>3, <3>5, Zenon
  <2>4. CASE ~(o - n < m)
    <3>1. CopySlice([offset |-> o - n, copied |-> <<>>], d2) =
            [offset |-> (o - n) - m, copied |-> <<>>]
      BY <1>1, <2>2, <2>4, CopyNone, Zenon
    <3>2. (n + m) - o = 0
      BY <2>2, <2>4
    <3>3. CopySlice(CopySlice([offset |-> o, copied |-> <<>>], d1), d2).copied = <<>>
      BY <2>1, <3>1
    <3>. QED
      BY <1>3, <3>2, <3>3, Zenon
  <2>. QED
    BY <2>3, <2>4, Zenon
<1>. QED
  BY <1>4, <1>5, Zenon

\* How many bytes there are to read from byte st on
Readable(st) == IF total - st < BufSize THEN total - st ELSE BufSize

\* ByteLog::read copies the bytes from the cursor on, or from the oldest one,
\* as many as there are and fit, whichever slices they lie in.
LEMMA ReadBytesRun ==
  ASSUME RingOK, NEW p \in Nat, p <= total
  PROVE  /\ Start(p) \in Nat /\ head <= Start(p) /\ p <= Start(p) /\ Start(p) <= total
         /\ Readable(Start(p)) \in Nat
         /\ IsRun(ReadBytes(p), Start(p), Readable(Start(p)))
<1>. DEFINE st == Start(p)
            o == st - head
            w == BufSize + o
            all == IF w < len THEN w ELSE len
            first == IF all < Size - rd THEN all ELSE Size - rd
<1>1. /\ Capacity \in Nat /\ rd \in 0 .. Capacity /\ len \in 0 .. Capacity /\ head \in Nat
      /\ Size = Capacity + 1 /\ BufSize \in Nat \ {0} /\ total \in Nat /\ head + len = total
  BY ByteLogAssumption DEF RingOK, Slots, Size, RingHoldsTail
<1>2. st \in Nat /\ head <= st /\ p <= st /\ st <= total
  BY <1>1 DEF Start
<1>. HIDE DEF st
<1>3. o \in Nat /\ o <= len /\ head + o = st
  BY <1>1, <1>2
<1>. HIDE DEF o
<1>4. /\ all \in Nat /\ all <= len /\ o <= all /\ all - o = Readable(st) /\ Readable(st) \in Nat
  BY <1>1, <1>2, <1>3 DEF Readable
<1>5. /\ first \in Nat /\ all - first \in Nat /\ rd + first <= Size /\ first <= all
      /\ all - first > 0 => first = Size - rd
  BY <1>1, <1>4
<1>6. BytesUpto(w) = <<Slice(rd, first), Slice(0, all - first)>>
  BY Zenon DEF BytesUpto
<1>. HIDE DEF w
<1>. HIDE DEF all
<1>. HIDE DEF first
<1>7. IsRun(Slice(rd, first), head, first)
  <2>1. /\ rd \in Nat /\ 0 \in Nat /\ 0 + first <= len /\ rd + 0 \in Nat /\ rd + 0 < 2 * Size
        /\ Size \in Nat \ {0} /\ head + 0 = head
    BY <1>1, <1>4, <1>5
  <2>2. (rd + 0) % Size = Wrap(rd + 0, Size)
    BY <2>1, Wrapped, Zenon
  <2>3. rd = (rd + 0) % Size
    BY <1>1, <2>2 DEF Wrap
  <2>4. IsRun(Slice(rd, first), head + 0, first)
    BY <1>5, <2>1, <2>3, SliceRun, Zenon
  <2>. QED
    BY <2>1, <2>4, Zenon
<1>8. IsRun(Slice(0, all - first), head + first, all - first)
  <2>1. /\ 0 \in Nat /\ first + (all - first) <= len /\ 0 + (all - first) <= Size
    BY <1>1, <1>4, <1>5
  <2>2. all - first > 0 => 0 = (rd + first) % Size
    <3>1. SUFFICES ASSUME rd + first = Size PROVE 0 = (rd + first) % Size
      BY <1>1, <1>5
    <3>2. rd + first \in Nat /\ rd + first < 2 * Size /\ Size \in Nat \ {0}
      BY <1>1, <3>1
    <3>3. (rd + first) % Size = Wrap(rd + first, Size)
      BY <3>2, Wrapped, Zenon
    <3>. QED
      BY <1>1, <3>1, <3>2, <3>3 DEF Wrap
  <2>. QED
    BY <1>5, <2>1, <2>2, SliceRun, Zenon
<1>9. ReadBytes(p) =
        CopySlice(CopySlice([offset |-> o, copied |-> <<>>], Slice(rd, first)), Slice(0, all - first)).copied
  <2>1. ReadBytes(p) = CopySlice(CopySlice([offset |-> o, copied |-> <<>>], BytesUpto(w)[1]), BytesUpto(w)[2]).copied
    BY Zenon DEF ReadBytes, w, o, st
  <2>. QED
    BY <1>6, <2>1
<1>10. first + (all - first) = all /\ o <= first + (all - first)
  BY <1>4, <1>5
<1>11. IsRun(ReadBytes(p), head + o, (first + (all - first)) - o)
  <2>1. IsRun(CopySlice(CopySlice([offset |-> o, copied |-> <<>>], Slice(rd, first)), Slice(0, all - first)).copied,
              head + o, (first + (all - first)) - o)
    BY <1>1, <1>3, <1>5, <1>7, <1>8, <1>10, CopyBoth, Zenon
  <2>. QED
    BY <1>9, <2>1, Zenon
<1>12. IsRun(ReadBytes(p), st, Readable(st))
  BY <1>3, <1>4, <1>10, <1>11, Zenon
<1>. QED
  BY <1>2, <1>4, <1>12, Zenon DEF st
-----------------------------------------------------------------------------
(* What a reader has been sent *)

\* Bytes that go on where the reader stopped, or at the oldest byte, keep what
\* it has been sent faithful.
LEMMA FaithfulLonger ==
  ASSUME NEW got \in Seq(Nat), NEW h \in Nat, NEW p \in Nat, Faithful(got, h, p),
         NEW st \in Nat, NEW n \in Nat \ {0}, NEW data, IsRun(data, st, n),
         st = IF p < h THEN h ELSE p
  PROVE  Faithful(got \o data, h, st + n)
<1>. DEFINE all == got \o data
            L == Len(got)
<1>1. /\ data \in Seq(Nat) /\ Len(data) = n /\ \A i \in 1 .. n : data[i] = st + i - 1
      /\ DOMAIN got = 1 .. L /\ L \in Nat
  BY DEF IsRun
<1>2. /\ all \in Seq(Nat) /\ DOMAIN all = 1 .. L + n /\ Len(all) = L + n
      /\ \A i \in 1 .. L : all[i] = got[i]
      /\ \A i \in L + 1 .. L + n : all[i] = data[i - L]
  <2>1. all \in Seq(Nat) /\ Len(all) = L + n
    BY <1>1, SMTT(30)
  <2>2. DOMAIN all = 1 .. L + n
    <3>. HIDE DEF all, L
    <3>. QED
      BY <2>1
  <2>3. \A i \in 1 .. L : all[i] = got[i]
    BY <1>1
  <2>4. ASSUME NEW i \in L + 1 .. L + n PROVE all[i] = data[i - L]
    BY <1>1
  <2>. QED
    BY <2>1, <2>2, <2>3, <2>4, Zenon
<1>. HIDE DEF all
<1>3. \A i \in L + 1 .. L + n : all[i] = st + (i - L) - 1
  <2>1. \A i \in L + 1 .. L + n : i - L \in 1 .. n
    BY <1>1
  <2>. QED
    BY <1>1, <1>2, <2>1, Zenon
<1>4. ASSUME NEW i \in 1 .. L PROVE got[i] < st
  <2>1. L \in 1 .. L /\ got # <<>>
    BY <1>1
  <2>2. got[L] = p - 1
    BY <2>1, Zenon DEF Faithful
  <2>3. i < L => got[i] < got[L]
    BY <1>1, <2>1, Zenon DEF Faithful
  <2>4. got[i] \in Nat
    OBVIOUS
  <2>5. i < L \/ i = L
    <3>. HIDE DEF L
    <3>. QED
      BY <1>1
  <2>. QED
    BY <2>2, <2>3, <2>4, <2>5
<1>5. ASSUME NEW i \in 1 .. L + n, NEW j \in 1 .. L + n, i < j PROVE all[i] < all[j]
  <2>1. CASE j <= L
    <3>1. i \in 1 .. L /\ j \in 1 .. L
      BY <1>1, <2>1, <1>5
    <3>2. got[i] < got[j]
      BY <1>1, <1>5, <3>1, Zenon DEF Faithful
    <3>. QED
      BY <1>2, <3>1, <3>2, Zenon
  <2>2. CASE i <= L /\ L < j
    <3>1. i \in 1 .. L /\ j \in L + 1 .. L + n
      BY <1>1, <2>2
    <3>2. all[i] = got[i] /\ got[i] < st /\ all[j] = st + (j - L) - 1
      BY <1>2, <1>3, <1>4, <3>1, Zenon
    <3>3. got[i] \in Nat
      BY <1>1, <3>1
    <3>. QED
      BY <1>1, <3>1, <3>2, <3>3, SMTT(30)
  <2>3. CASE L < i
    <3>1. i \in L + 1 .. L + n /\ j \in L + 1 .. L + n
      BY <1>1, <1>5, <2>3
    <3>2. all[i] = st + (i - L) - 1 /\ all[j] = st + (j - L) - 1
      BY <1>3, <3>1, Zenon
    <3>. QED
      BY <1>1, <1>5, <3>1, <3>2
  <2>. QED
    BY <1>1, <1>5, <2>1, <2>2, <2>3, SMTT(30)
<1>6. ASSUME NEW b \in h .. ((st + n) - 1) PROVE \E i \in DOMAIN all : all[i] = b
  <2>1. CASE b < st
    <3>1. b \in h .. (p - 1)
      BY <2>1
    <3>2. b \in {got[i] : i \in DOMAIN got}
      BY <3>1, Zenon DEF Faithful
    <3>3. PICK i \in 1 .. L : b = got[i]
      BY <1>1, <3>2, Zenon
    <3>4. i \in 1 .. L + n
      BY <1>1
    <3>. QED
      BY <1>2, <3>3, <3>4, Zenon
  <2>2. CASE st <= b
    <3>1. L + (b - st) + 1 \in L + 1 .. L + n /\ L + (b - st) + 1 \in 1 .. L + n
      BY <1>1, <2>2
    <3>2. all[L + (b - st) + 1] = st + ((L + (b - st) + 1) - L) - 1
      BY <1>3, <3>1, Zenon
    <3>3. st + ((L + (b - st) + 1) - L) - 1 = b
      BY <1>1, <2>2
    <3>. QED
      BY <1>2, <3>1, <3>2, <3>3, Zenon
  <2>. QED
    BY <2>1, <2>2
<1>7. all[Len(all)] = (st + n) - 1
  <2>1. L + n \in L + 1 .. L + n
    BY <1>1
  <2>2. all[L + n] = st + ((L + n) - L) - 1
    BY <1>3, <2>1, Zenon
  <2>. QED
    BY <1>1, <1>2, <2>2
<1>8. \A b \in h .. ((st + n) - 1) : b \in {all[i] : i \in DOMAIN all}
  BY <1>6, Zenon
<1>9. \A i, j \in DOMAIN all : i < j => all[i] < all[j]
  BY <1>2, <1>5, Zenon
<1>. QED
  BY <1>7, <1>8, <1>9, Zenon DEF Faithful, all

\* Dropping old bytes asks less of a reader.
LEMMA FaithfulLater ==
  ASSUME NEW got, NEW h \in Nat, NEW d \in Nat, NEW p \in Nat, Faithful(got, h, p)
  PROVE  Faithful(got, h + d, p)
<1>1. \A b \in (h + d) .. (p - 1) : b \in h .. (p - 1)
  OBVIOUS
<1>. QED
  BY <1>1, Zenon DEF Faithful

\* A run of bytes that have been written is a sequence of bytes.
LEMMA RunIsBytes ==
  ASSUME NEW s, NEW b \in Nat, NEW n \in Nat, IsRun(s, b, n), b + n <= MaxBytes
  PROVE  s \in Seq(Bytes)
<1>1. s \in Seq(Nat) /\ Len(s) = n /\ \A i \in 1 .. n : s[i] = b + i - 1
  BY Zenon DEF IsRun
<1>2. \A i \in 1 .. n : b + i - 1 \in Bytes
  BY ByteLogAssumption DEF Bytes
<1>3. \A i \in 1 .. Len(s) : s[i] \in Bytes
  BY <1>1, <1>2, Zenon
<1>. QED
  BY <1>1, <1>3

\* What is sent after what has been sent are bytes.
LEMMA BytesJoin ==
  ASSUME NEW s \in Seq(Bytes), NEW t \in Seq(Bytes)
  PROVE  s \o t \in Seq(Bytes) /\ s \o <<>> = s
OBVIOUS

\* Bytes are numbers.
LEMMA BytesAreNat ==
  /\ Bytes \subseteq Nat
  /\ \A s \in Seq(Bytes) : s \in Seq(Nat)
<1>1. \A b \in Bytes : b \in Nat
  BY ByteLogAssumption DEF Bytes
<1>. QED
  BY <1>1
-----------------------------------------------------------------------------
(* Appending *)

\* The sizes append works with: what it drops is there, and the rest fits.
LEMMA AppendSizes ==
  ASSUME LogInv, NEW n \in 1 .. ChunkMax
  PROVE  /\ Trim(n) \in Nat /\ Trim(n) <= len
         /\ (len - Trim(n)) + n \in 1 .. Capacity
         /\ n < Size
         /\ head + Trim(n) = IF total + n > head + Capacity THEN (total + n) - Capacity ELSE head
         /\ (head + Trim(n)) + ((len - Trim(n)) + n) = total + n
<1>1. /\ Capacity \in Nat /\ ChunkMax \in Nat \ {0} /\ ChunkMax <= Capacity /\ Size = Capacity + 1
      /\ len \in 0 .. Capacity /\ head \in Nat /\ head + len = total
  BY ByteLogAssumption DEF LogInv, LogTypeOK, RingHoldsTail, Size
<1>. QED
  BY <1>1 DEF Trim, Avail

\* After an append every byte of the new log is in its place in the ring.
LEMMA AppendRing ==
  ASSUME LogInv, NEW n \in 1 .. ChunkMax, LogAppend(n)
  PROVE  /\ ring' \in [Slots -> Bytes \cup {0}] /\ rd' \in Slots /\ RingHoldsTail'
<1>. DEFINE drop == Trim(n)
            free == (rd + len) % Size
            place(s) == (s + Size - free) % Size
<1>1. /\ Capacity \in Nat /\ Size = Capacity + 1 /\ Size \in Nat \ {0} /\ Slots = 0 .. Size - 1
      /\ rd \in Nat /\ rd < Size /\ len \in Nat /\ len < Size /\ n \in Nat /\ n < Size
      /\ head \in Nat /\ head + len = total /\ total \in Nat /\ MaxBytes \in Nat
  BY ByteLogAssumption, AppendSizes DEF LogInv, LogTypeOK, RingHoldsTail, Size, Slots
<1>2. /\ drop \in Nat /\ drop <= len /\ len - drop + n < Size /\ len - drop + n = (len - drop) + n
      /\ (head + drop) + ((len - drop) + n) = total + n
  BY <1>1, AppendSizes
<1>3. /\ total + n <= MaxBytes
      /\ rd' = (rd + drop) % Size
      /\ head' = head + drop
      /\ len' = len - drop + n
      /\ ring' = [s \in Slots |-> IF place(s) < n THEN total + place(s) ELSE ring[s]]
      /\ total' = total + n
  BY Zenon DEF LogAppend, HeadAfter
<1>4. free \in Nat /\ free < Size
  <2>1. rd + len \in Nat /\ rd + len < 2 * Size
    BY <1>1
  <2>2. free = Wrap(rd + len, Size)
    BY <1>1, <2>1, Wrapped, Zenon
  <2>. QED
    BY <1>1, <2>1, <2>2 DEF Wrap
<1>. HIDE DEF drop, free
<1>5. ASSUME NEW s \in Slots PROVE place(s) \in Nat
  <2>1. s + Size - free \in Nat /\ s + Size - free < 2 * Size
    BY <1>1, <1>4
  <2>2. place(s) = Wrap(s + Size - free, Size)
    BY <1>1, <2>1, Wrapped, Zenon
  <2>. QED
    BY <1>1, <2>1, <2>2 DEF Wrap
<1>. HIDE DEF place
<1>6. ring' \in [Slots -> Bytes \cup {0}]
  <2>1. ASSUME NEW s \in Slots, place(s) < n PROVE total + place(s) \in Bytes
    <3>1. place(s) \in Nat
      BY <1>5, Zenon
    <3>. QED
      BY <1>1, <1>3, <2>1, <3>1, SMTT(30) DEF Bytes
  <2>2. \A s \in Slots : ring[s] \in Bytes \cup {0}
    BY Zenon DEF LogInv, LogTypeOK
  <2>. QED
    BY <1>3, <2>1, <2>2, Zenon
<1>7. rd' \in Slots
  <2>1. rd + drop \in Nat /\ rd + drop < 2 * Size
    BY <1>1, <1>2
  <2>2. rd' = Wrap(rd + drop, Size)
    BY <1>1, <1>3, <2>1, Wrapped, Zenon
  <2>. QED
    BY <1>1, <2>1, <2>2 DEF Wrap
<1>8. ASSUME NEW k \in 0 .. (len - drop + n) - 1
      PROVE  ring'[(((rd + drop) % Size) + k) % Size] = (head + drop) + k
  <2>. DEFINE s == (((rd + drop) % Size) + k) % Size
  <2>1. k \in Nat /\ k < len - drop + n
    BY <1>1, <1>2
  <2>2. /\ s \in 0 .. Size - 1
        /\ drop + k < len => ~(place(s) < n) /\ s = (rd + (drop + k)) % Size
        /\ ~(drop + k < len) => place(s) < n /\ place(s) = drop + k - len
    <3>1. Placed(Size, rd, len, n, drop, k)
      BY <1>1, <1>2, <2>1, SlotOf, Zenon
    <3>. QED
      BY <3>1, Zenon DEF Placed, place, free
  <2>. HIDE DEF s
  <2>3. ring'[s] = IF place(s) < n THEN total + place(s) ELSE ring[s]
    BY <1>1, <1>3, <2>2, Zenon
  <2>4. CASE drop + k < len
    <3>1. drop + k \in 0 .. (len - 1)
      BY <1>1, <1>2, <2>1, <2>4
    <3>2. ring[(rd + (drop + k)) % Size] = head + (drop + k)
      BY <3>1, Zenon DEF LogInv, RingHoldsTail
    <3>3. head + (drop + k) = (head + drop) + k
      BY <1>1, <1>2, <2>1
    <3>. QED
      BY <2>2, <2>3, <2>4, <3>2, <3>3, Zenon DEF s
  <2>5. CASE ~(drop + k < len)
    <3>1. total + (drop + k - len) = (head + drop) + k
      BY <1>1, <1>2, <2>1
    <3>. QED
      BY <2>2, <2>3, <2>5, <3>1, Zenon DEF s
  <2>. QED
    BY <2>4, <2>5, Zenon
<1>9. RingHoldsTail'
  <2>1. head' + len' = total'
    BY <1>2, <1>3, Zenon
  <2>2. Size' = Size
    BY Zenon DEF Size
  <2>. QED
    BY <1>3, <1>8, <2>1, <2>2, Zenon DEF RingHoldsTail
<1>. QED
  BY <1>6, <1>7, <1>9, Zenon

\* Appending keeps the invariant: readers may lose old bytes, and every watch
\* that has been added is set.
LEMMA AppendInv ==
  ASSUME LogInv, NEW n \in 1 .. ChunkMax, LogAppend(n)
  PROVE  LogInv'
<1>1. /\ ring' \in [Slots -> Bytes \cup {0}] /\ rd' \in Slots /\ RingHoldsTail'
  BY AppendRing, Zenon
<1>2. /\ head \in Nat /\ total \in Nat /\ n \in Nat \ {0} /\ MaxBytes \in Nat
      /\ Trim(n) \in Nat /\ (len - Trim(n)) + n \in 1 .. Capacity
  BY AppendSizes, ByteLogAssumption DEF LogInv, LogTypeOK
<1>3. /\ total + n <= MaxBytes /\ head' = head + Trim(n) /\ len' = len - Trim(n) + n
      /\ total' = total + n /\ unseen' = [r \in Readers |-> Notified(r)]
      /\ pc' = pc /\ pos' = pos /\ buf' = buf /\ out' = out
  BY Zenon DEF LogAppend, HeadAfter
<1>4. len' \in 1 .. Capacity
  BY <1>2, <1>3, Zenon
<1>5. /\ len' \in 0 .. Capacity /\ head' \in Nat /\ total' \in 0 .. MaxBytes /\ len' # 0
      /\ total <= total'
  BY <1>2, <1>3, <1>4, ByteLogAssumption
<1>6. unseen' \in [Readers -> BOOLEAN]
  <2>1. \A r \in Readers : Notified(r) \in BOOLEAN
    BY Zenon DEF Notified, LogInv, LogTypeOK
  <2>. QED
    BY <1>3, <2>1, Zenon
<1>7. LogTypeOK'
  BY <1>1, <1>3, <1>5, <1>6, Zenon DEF LogInv, LogTypeOK, Slots, Bytes, Watched
<1>8. ASSUME NEW r \in Readers PROVE Reader(r)'
  <2>1. Reader(r) /\ pos[r] \in Nat
    BY DEF LogInv, LogTypeOK
  <2>2. pos[r] <= total'
    BY <1>2, <1>3, <2>1 DEF Reader
  <2>3. pc[r] # "gone" => Faithful(out[r] \o buf[r], head', pos[r])
    <3>1. SUFFICES ASSUME pc[r] # "gone" PROVE Faithful(out[r] \o buf[r], head', pos[r])
      BY Zenon
    <3>2. Faithful(out[r] \o buf[r], head, pos[r])
      BY <2>1, <3>1, Zenon DEF Reader
    <3>. QED
      BY <1>2, <1>3, <2>1, <3>2, FaithfulLater, Zenon
  <2>4. ~(pc[r] \in {"drained", "wait"} /\ ~unseen'[r])
    BY <1>3, Zenon DEF Notified, Watched
  <2>. QED
    BY <1>3, <2>1, <2>2, <2>3, <2>4, Zenon DEF Reader
<1>. QED
  BY <1>1, <1>5, <1>7, <1>8, Zenon DEF LogInv

-----------------------------------------------------------------------------
(* The stream tasks *)

\* A task disturbs neither the ring nor another task.
LEMMA TaskInv ==
  ASSUME LogInv, NEW r \in Readers, UNCHANGED ringVars, LogTypeOK', Reader(r)',
         \A q \in Readers \ {r} : /\ pc'[q] = pc[q] /\ pos'[q] = pos[q] /\ buf'[q] = buf[q]
                                  /\ unseen'[q] = unseen[q] /\ out'[q] = out[q]
  PROVE  LogInv'
<1>1. ring' = ring /\ rd' = rd /\ len' = len /\ head' = head /\ total' = total
  BY Zenon DEF ringVars
<1>2. RingHoldsTail'
  BY <1>1, Zenon DEF LogInv, RingHoldsTail, Size
<1>3. ASSUME NEW q \in Readers PROVE Reader(q)'
  BY <1>1, Zenon DEF LogInv, Reader
<1>. QED
  BY <1>1, <1>2, <1>3, Zenon DEF LogInv

\* A new connection keeps the invariant.
LEMMA AcceptInv ==
  ASSUME LogInv, NEW r \in Readers, Accept(r)
  PROVE  LogInv'
<1>1. LogTypeOK'
  BY Zenon DEF LogInv, LogTypeOK, Accept, ringVars, Watched, Slots, Bytes
<1>2. Reader(r)'
  BY Zenon DEF LogInv, LogTypeOK, Reader, Accept, ringVars
<1>. QED
  BY <1>1, <1>2, TaskInv, Zenon DEF Accept, LogInv, LogTypeOK

\* Adding a watch keeps the invariant.
LEMMA WatchInv ==
  ASSUME LogInv, NEW r \in Readers, Watch(r)
  PROVE  LogInv'
<1>1. LogTypeOK'
  BY Zenon DEF LogInv, LogTypeOK, Watch, ringVars, Watched, Slots, Bytes
<1>2. Reader(r)'
  BY Zenon DEF LogInv, LogTypeOK, Reader, Watch, ringVars
<1>. QED
  BY <1>1, <1>2, TaskInv, Zenon DEF Watch, LogInv, LogTypeOK

\* Leaving write_all, without the lock, keeps the invariant.
LEMMA SleepInv ==
  ASSUME LogInv, NEW r \in Readers, Sleep(r)
  PROVE  LogInv'
<1>1. LogTypeOK'
  BY Zenon DEF LogInv, LogTypeOK, Sleep, ringVars, Watched, Slots, Bytes
<1>2. Reader(r)'
  BY Zenon DEF LogInv, LogTypeOK, Reader, Sleep, ringVars
<1>. QED
  BY <1>1, <1>2, TaskInv, Zenon DEF Sleep, LogInv, LogTypeOK

\* Waking up keeps the invariant.
LEMMA WakeInv ==
  ASSUME LogInv, NEW r \in Readers, Wake(r)
  PROVE  LogInv'
<1>1. LogTypeOK'
  BY Zenon DEF LogInv, LogTypeOK, Wake, ringVars, Watched, Slots, Bytes
<1>2. Reader(r)'
  BY Zenon DEF LogInv, LogTypeOK, Reader, Wake, ringVars
<1>. QED
  BY <1>1, <1>2, TaskInv, Zenon DEF Wake, LogInv, LogTypeOK

\* Sending what has been read, or finding that the host is gone, keeps the
\* invariant.
LEMMA WriteInv ==
  ASSUME LogInv, NEW r \in Readers, Write(r)
  PROVE  LogInv'
<1>1. /\ out[r] \in Seq(Bytes) /\ buf[r] \in Seq(Bytes) /\ <<>> \in Seq(Bytes)
  BY DEF LogInv, LogTypeOK
<1>2. out[r] \o buf[r] \in Seq(Bytes)
  BY <1>1, BytesJoin, Zenon
<1>3. (out[r] \o buf[r]) \o <<>> = out[r] \o buf[r]
  BY <1>1, <1>2, BytesJoin, Zenon
<1>4. LogTypeOK'
  BY <1>1, <1>2, ZenonT(30) DEF LogInv, LogTypeOK, Write, ringVars, Watched, Slots, Bytes
<1>5. Reader(r)'
  <2>1. CASE pc'[r] = "gone"
    BY <2>1, Zenon DEF LogInv, LogTypeOK, Reader, Write, ringVars
  <2>2. CASE pc'[r] # "gone"
    <3>1. /\ pc[r] = "write" /\ pc'[r] = "read" /\ out'[r] = out[r] \o buf[r] /\ buf'[r] = <<>>
          /\ pos' = pos /\ total' = total /\ head' = head
      BY <2>2, Zenon DEF LogInv, LogTypeOK, Write, ringVars
    <3>2. Reader(r)
      BY Zenon DEF LogInv
    <3>. QED
      BY <1>3, <3>1, <3>2, Zenon DEF Reader
  <2>. QED
    BY <2>1, <2>2, Zenon
<1>. QED
  BY <1>4, <1>5, TaskInv, Zenon DEF Write, LogInv, LogTypeOK

\* What a turn of write_all does to the cursor: it takes a run of bytes from
\* where the reader stopped, or it finds nothing and the reader is at the end.
LEMMA ReadMoves ==
  ASSUME LogInv, NEW r \in Readers
  PROVE  LET data == ReadBytes(pos[r])
             st   == Start(pos[r])
         IN  /\ st \in Nat /\ Len(data) \in Nat /\ IsRun(data, st, Len(data))
             /\ st + Len(data) <= total
             /\ data = <<>> => st = pos[r] /\ pos[r] = total /\ st + Len(data) = total
             /\ data # <<>> => Len(data) # 0
<1>. DEFINE data == ReadBytes(pos[r])
            st   == Start(pos[r])
<1>1. /\ head \in Nat /\ total \in Nat /\ len \in Nat /\ head + len = total /\ BufSize \in Nat \ {0}
      /\ len = 0 => total = 0
      /\ pos[r] \in Nat /\ pos[r] <= total
  BY ByteLogAssumption DEF LogInv, LogTypeOK, RingHoldsTail, Reader
<1>2. RingOK
  <2>1. ring \in [Slots -> Nat]
    <3>1. Bytes \cup {0} \subseteq Nat
      BY BytesAreNat
    <3>. QED
      BY <3>1, Zenon DEF LogInv, LogTypeOK
  <2>. QED
    BY <1>1, <2>1, Zenon DEF LogInv, LogTypeOK, RingOK
<1>3. /\ st \in Nat /\ head <= st /\ pos[r] <= st /\ st <= total
      /\ Readable(st) \in Nat /\ IsRun(data, st, Readable(st))
  BY <1>1, <1>2, ReadBytesRun, Zenon
<1>4. st = IF pos[r] < head THEN head ELSE pos[r]
  BY Zenon DEF Start
<1>. HIDE DEF st, data
<1>5. Len(data) = Readable(st) /\ data \in Seq(Nat)
  BY <1>3, Zenon DEF IsRun
<1>6. st + Readable(st) <= total /\ (Readable(st) = 0 => st = total)
  BY <1>1, <1>3 DEF Readable
<1>7. st = total => st = pos[r]
  BY <1>1, <1>4
<1>8. /\ data = <<>> => Readable(st) = 0
      /\ data # <<>> => Readable(st) # 0
  BY <1>5
<1>9. Readable(st) = 0 => st + Readable(st) = st
  BY <1>3
<1>. QED
  BY <1>3, <1>5, <1>6, <1>7, <1>8, <1>9, Zenon DEF st, data

\* A turn of write_all keeps the invariant.
LEMMA ReadInv ==
  ASSUME LogInv, NEW r \in Readers, Read(r)
  PROVE  LogInv'
<1>. DEFINE data == ReadBytes(pos[r])
            st   == Start(pos[r])
<1>1. /\ pc[r] = "read" /\ buf' = [buf EXCEPT ![r] = data]
      /\ pos' = [pos EXCEPT ![r] = st + Len(data)]
      /\ pc' = [pc EXCEPT ![r] = IF data = <<>> THEN "drained" ELSE "write"]
      /\ UNCHANGED <<ringVars, unseen, out>>
  BY Zenon DEF Read
<1>2. /\ st \in Nat /\ Len(data) \in Nat /\ IsRun(data, st, Len(data))
      /\ st + Len(data) <= total
      /\ data = <<>> => st = pos[r] /\ pos[r] = total /\ st + Len(data) = total
      /\ data # <<>> => Len(data) # 0
  BY ReadMoves, Zenon
<1>3. st = IF pos[r] < head THEN head ELSE pos[r]
  BY Zenon DEF Start
<1>. HIDE DEF st, data
<1>4. /\ out[r] \in Seq(Bytes) /\ pos[r] \in Nat /\ head \in Nat /\ total \in Nat /\ MaxBytes \in Nat
      /\ total <= MaxBytes
  BY ByteLogAssumption DEF LogInv, LogTypeOK
<1>5. st + Len(data) \in 0 .. MaxBytes /\ st + Len(data) <= MaxBytes
  BY <1>2, <1>4
<1>6. data \in Seq(Bytes)
  BY <1>2, <1>5, RunIsBytes, Zenon
<1>7. LogTypeOK'
  BY <1>1, <1>5, <1>6, Zenon DEF LogInv, LogTypeOK, ringVars, Watched, Slots, Bytes
<1>8. Faithful(out[r], head, pos[r]) /\ out[r] \o <<>> = out[r]
  <2>1. out[r] \o <<>> = out[r]
    BY <1>4, <1>6, BytesJoin, Zenon
  <2>2. buf[r] = <<>> /\ Faithful(out[r] \o buf[r], head, pos[r])
    BY <1>1, Zenon DEF LogInv, Reader
  <2>. QED
    BY <2>1, <2>2, Zenon
<1>9. Faithful(out[r] \o data, head, st + Len(data))
  <2>1. CASE data = <<>>
    BY <1>2, <1>8, <2>1, Zenon
  <2>2. CASE data # <<>>
    BY <1>2, <1>3, <1>4, <1>8, <2>2, BytesAreNat, FaithfulLonger, Zenon
  <2>. QED
    BY <2>1, <2>2, Zenon
<1>10. /\ pos'[r] = st + Len(data) /\ buf'[r] = data /\ out'[r] = out[r] /\ unseen'[r] = unseen[r]
       /\ total' = total /\ head' = head
       /\ pc'[r] = IF data = <<>> THEN "drained" ELSE "write"
  BY <1>1, Zenon DEF LogInv, LogTypeOK, ringVars
<1>11. Reader(r)'
  BY <1>2, <1>9, <1>10, Zenon DEF Reader
<1>. QED
  BY <1>1, <1>7, <1>11, TaskInv, Zenon DEF LogInv, LogTypeOK

-----------------------------------------------------------------------------
(* The invariant *)

\* An empty log without readers satisfies the invariant.
LEMMA LogInitInv == LogInit => LogInv
<1>. SUFFICES ASSUME LogInit PROVE LogInv
  OBVIOUS
<1>1. /\ Capacity \in Nat /\ MaxBytes \in Nat
  BY ByteLogAssumption
<1>2. LogTypeOK
  <2>1. /\ 0 \in Slots /\ 0 \in 0 .. Capacity /\ 0 \in Nat /\ 0 \in 0 .. MaxBytes /\ <<>> \in Seq(Bytes)
    BY <1>1 DEF Slots
  <2>. QED
    BY <2>1, Zenon DEF LogInit, LogTypeOK
<1>3. RingHoldsTail
  BY DEF LogInit, RingHoldsTail
<1>4. ASSUME NEW r \in Readers PROVE Reader(r)
  <2>1. Faithful(<<>> \o <<>>, 0, 0)
    BY DEF Faithful
  <2>2. 0 <= 0
    OBVIOUS
  <2>. QED
    BY <2>1, <2>2, Zenon DEF LogInit, Reader
<1>5. len = 0 => total = 0
  BY Zenon DEF LogInit
<1>. QED
  BY <1>2, <1>3, <1>4, <1>5, Zenon DEF LogInv

\* Every step keeps the invariant.
LEMMA LogStepInv == LogInv /\ [LogNext]_logVars => LogInv'
<1>. SUFFICES ASSUME LogInv, [LogNext]_logVars PROVE LogInv'
  OBVIOUS
<1>1. CASE \E n \in 1 .. ChunkMax : LogAppend(n)
  BY <1>1, AppendInv, Zenon
<1>2. CASE \E r \in Readers : Accept(r) \/ LogTask(r)
  BY <1>2, AcceptInv, WatchInv, ReadInv, WriteInv, SleepInv, WakeInv, Zenon DEF LogTask
<1>3. CASE UNCHANGED logVars
  BY <1>3, Zenon DEF logVars, ringVars, readerVars, LogInv, LogTypeOK, RingHoldsTail, Reader,
     Slots, Size, Bytes, Watched
<1>. QED
  BY <1>1, <1>2, <1>3, Zenon DEF LogNext

\* The log and its readers are always as the invariant says.
THEOREM LogInvariant == LogSpec => []LogInv
BY LogInitInv, LogStepInv, PTL DEF LogSpec

\* The log's variables always have their types: the ring has as many bytes as
\* its capacity, and a cursor never passes what has been written.
THEOREM LogTypeCorrect == LogSpec => []LogTypeOK
<1>1. LogInv => LogTypeOK
  BY Zenon DEF LogInv
<1>. QED
  BY <1>1, LogInvariant, PTL

\* Whatever the sizes of the ring and of the chunks, ByteLog::append leaves the
\* last bytes of the log in the ring, each in its place.
THEOREM RingAlwaysHoldsTail == LogSpec => []RingHoldsTail
<1>1. LogInv => RingHoldsTail
  BY Zenon DEF LogInv
<1>. QED
  BY <1>1, LogInvariant, PTL

\* Whatever the number of connections and however their reads interleave with
\* appends, LogReader::stream sends bytes in order, without repetition, and
\* skips only bytes that have been overwritten.
THEOREM StreamAlwaysFaithful == LogSpec => []StreamIsFaithful
<1>1. LogInv => StreamIsFaithful
  BY Zenon DEF LogInv, Reader, Faithful, StreamIsFaithful
<1>. QED
  BY <1>1, LogInvariant, PTL

\* A stream task never sleeps on bytes it has not sent: an append after its
\* last read has set its watch, although it does not hold the lock.
THEOREM NeverMissesBytes == LogSpec => []NoMissedBytes
<1>1. LogInv => NoMissedBytes
  BY Zenon DEF LogInv, Reader, NoMissedBytes
<1>. QED
  BY <1>1, LogInvariant, PTL

-----------------------------------------------------------------------------
(* The promise *)

\* The abstract log drops no more than it must, and so does append.
LEMMA AppendProduces ==
  ASSUME LogInv, NEW n \in 1 .. ChunkMax, LogAppend(n)
  PROVE  Log!Next
<1>1. n \in 1 .. Capacity
  BY ByteLogAssumption
<1>2. Log!Produce(n)
  <2>1. head + Trim(n) = IF total + n > head + Capacity THEN (total + n) - Capacity ELSE head
    BY AppendSizes, Zenon
  <2>. QED
    BY <2>1, Zenon DEF Log!Produce, LogAppend, HeadAfter
<1>. QED
  BY <1>1, <1>2, Zenon DEF Log!Next

\* A read takes bytes as the abstract log lets it, or takes none.
LEMMA ReadTakes ==
  ASSUME LogInv, NEW r \in Readers, Read(r)
  PROVE  Log!Next \/ UNCHANGED Log!vars
<1>. DEFINE data == ReadBytes(pos[r])
            st   == Start(pos[r])
<1>1. /\ pos' = [pos EXCEPT ![r] = st + Len(data)] /\ head' = head /\ total' = total
  BY Zenon DEF Read, ringVars
<1>2. /\ st \in Nat /\ Len(data) \in Nat /\ st + Len(data) <= total
      /\ data = <<>> => st = pos[r] /\ pos[r] = total /\ st + Len(data) = total
      /\ data # <<>> => Len(data) # 0
  BY ReadMoves, Zenon
<1>3. st = IF pos[r] < head THEN head ELSE pos[r]
  BY Zenon DEF Start
<1>. HIDE DEF st, data
<1>4. pos \in [Readers -> 0 .. MaxBytes] /\ total \in Nat
  BY ByteLogAssumption DEF LogInv, LogTypeOK
<1>5. CASE data = <<>>
  <2>1. pos' = pos
    BY <1>1, <1>2, <1>4, <1>5, Zenon
  <2>. QED
    BY <1>1, <2>1, Zenon DEF Log!vars
<1>6. CASE data # <<>>
  <2>1. st + Len(data) - 1 \in st .. (total - 1) /\ (st + Len(data) - 1) + 1 = st + Len(data)
    BY <1>2, <1>4, <1>6
  <2>2. Log!Take(r)
    BY <1>1, <1>3, <2>1, Zenon DEF Log!Take
  <2>. QED
    BY <2>2, Zenon DEF Log!Next
<1>. QED
  BY <1>5, <1>6, Zenon

\* Every step of the log is one of the promised log or leaves it alone.
LEMMA LogStepRefines == LogInv /\ [LogNext]_logVars => [Log!Next]_Log!vars
<1>. SUFFICES ASSUME LogInv, [LogNext]_logVars PROVE [Log!Next]_Log!vars
  OBVIOUS
<1>1. CASE \E n \in 1 .. ChunkMax : LogAppend(n)
  BY <1>1, AppendProduces, Zenon
<1>2. ASSUME NEW r \in Readers, Read(r) PROVE [Log!Next]_Log!vars
  BY <1>2, ReadTakes, Zenon
<1>3. ASSUME NEW r \in Readers, Accept(r) \/ Watch(r) \/ Write(r) \/ Sleep(r) \/ Wake(r)
      PROVE  UNCHANGED Log!vars
  BY <1>3, Zenon DEF Accept, Watch, Write, Sleep, Wake, ringVars, Log!vars
<1>4. CASE UNCHANGED logVars
  BY <1>4, Zenon DEF logVars, ringVars, readerVars, Log!vars
<1>. QED
  BY <1>1, <1>2, <1>3, <1>4, Zenon DEF LogNext, LogTask

\* The ring buffer, its cursors and the stream tasks implement the log they
\* promise: bytes are dropped only to make room, and every reader takes bytes
\* without a gap from where it stopped or from the oldest byte.
THEOREM LogKeepsPromise == LogSpec => Promise
<1>1. LogInit => Log!Init
  BY Zenon DEF LogInit, Log!Init
<1>. QED
  BY <1>1, LogStepRefines, LogInvariant, PTL DEF LogSpec, Promise, Log!Spec
=============================================================================
