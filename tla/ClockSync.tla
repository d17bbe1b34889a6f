----------------------------- MODULE ClockSync -----------------------------
(***************************************************************************)
(* Clock sync between the enclave and its parent instance: the task of     *)
(* ClockSyncService in the enclave (clock_sync.rs) and handle_time_request *)
(* on the host (run.rs).  The enclave stamps its request (t1), the host    *)
(* stamps its receipt (t2) and its answer (t3), the enclave the receipt of *)
(* the answer (t4).  The offset computed from the four is added to a clock *)
(* that is read once more and set a moment later.                          *)
(*                                                                         *)
(* Time passes between any two steps.  Only differences of clocks matter,  *)
(* so every attempt counts the host's clock from its connection; the clock *)
(* of the enclave is the host's plus skew.                                 *)
(***************************************************************************)
EXTENDS Integers

CONSTANTS
  NanosPerSec,  \* 1_000_000_000
  MaxAttempts,  \* INITIAL_SYNC_MAX_ATTEMPTS
  Timeout,      \* CLOCK_SYNC_{CONNECT,RESPONSE,REQUEST}_TIMEOUT, all equal
  MaxElapsed,   \* bound: how long one attempt is followed
  MaxSkew       \* bound: drift of the enclave's clock between two attempts

ASSUME ClockAssumption ==
  /\ NanosPerSec \in Nat \ {0}
  /\ MaxAttempts \in Nat \ {0}
  /\ Timeout \in Nat
  /\ MaxElapsed \in Nat
  /\ MaxSkew \in Nat

VARIABLES
  task,     \* where the task of the enclave is
  initial,  \* it is still in the loop of the initial sync
  retries,  \* failures in that loop
  elapsed,  \* the clock of the host since the connection
  skew,     \* the clock of the enclave minus the clock of the host
  conn,     \* the connection and the handler of the host behind it
  stamps,   \* t1 .. t4
  before,   \* now_before
  last      \* how the last attempt ended

clockVars == <<task, initial, retries, elapsed, skew, conn, stamps, before, last>>
loop      == <<initial, retries, last>>

ClockPCs == {"connect", "stamp", "ask", "wait", "stamp4", "read", "set", "idle",
             "stopped"}
Conns    == {"none", "open", "asked", "got", "answered", "closed"}

\* Timestamp::as_nanos and Timestamp::from_nanos.  The two clocks are read and
\* set as pairs of seconds and nanoseconds.
AsNanos(ts)  == ts.secs * NanosPerSec + ts.nanos
FromNanos(n) == [secs |-> n \div NanosPerSec, nanos |-> n % NanosPerSec]

Timestamp == [secs : Int, nanos : 0 .. NanosPerSec - 1]

ClockTypeOK ==
  /\ task \in ClockPCs
  /\ initial \in BOOLEAN
  /\ retries \in Nat
  /\ elapsed \in Nat
  /\ skew \in Int
  /\ conn \in Conns
  /\ stamps \in [1 .. 4 -> Timestamp]
  /\ before \in Timestamp
  /\ last \in {"none", "ok", "failed"}

\* get_current_time in the enclave and current_unix_timestamp on the host
EnclaveTime == FromNanos(elapsed + skew)
HostTime    == FromNanos(elapsed)

T(i) == AsNanos(stamps[i])

\* The division of Rust rounds towards zero.
HalfTowardsZero(x) == IF x >= 0 THEN x \div 2 ELSE -((-x) \div 2)

\* Fault: the offset is taken from the request alone.
OneWayOffset == T(2) - T(1)
Offset == HalfTowardsZero((T(2) - T(1)) + (T(3) - T(4)))
Rtt    == (T(4) - T(1)) - (T(3) - T(2))

\* What the task lets pass between its last reading of the clock and setting it.
Gap == AsNanos(EnclaveTime) - AsNanos(before)

\* How long the request has been under way.
Waited == AsNanos(EnclaveTime) - T(1)

ClockInit ==
  /\ task = "connect"
  /\ initial = TRUE
  /\ retries = 0
  /\ elapsed = 0
  /\ skew \in -MaxSkew .. MaxSkew
  /\ conn = "none"
  /\ stamps = [i \in 1 .. 4 |-> FromNanos(0)]
  /\ before = FromNanos(0)
  /\ last = "none"

-----------------------------------------------------------------------------
(* The enclave: sync_once and the loops around it *)

\* The stream and the locals are dropped with the attempt.
DropAttempt ==
  /\ conn' = "none"
  /\ elapsed' = 0
  /\ stamps' = [i \in 1 .. 4 |-> FromNanos(0)]
  /\ before' = FromNanos(0)

\* Fault: a failed periodic sync ends the task.
FailForGood ==
  /\ DropAttempt
  /\ last' = "failed"
  /\ task' = IF initial THEN "connect" ELSE "ended"
  /\ UNCHANGED <<initial, retries, skew>>

\* An error of sync_once.  The initial loop retries at once, up to a limit;
\* the periodic loop logs it and waits for the next tick.
Fail ==
  /\ DropAttempt
  /\ last' = "failed"
  /\ \/ initial /\ retries + 1 < MaxAttempts
        /\ retries' = retries + 1 /\ task' = "connect"
        /\ UNCHANGED initial
     \/ initial /\ retries + 1 >= MaxAttempts
        /\ retries' = retries + 1 /\ task' = "idle" /\ initial' = FALSE
     \/ ~initial /\ task' = "idle" /\ UNCHANGED <<initial, retries>>
  /\ UNCHANGED skew

\* VsockStream::connect.  The accept loop of the host spawns the handler.
ConnectHost ==
  /\ task = "connect"
  /\ conn' = "open"
  /\ task' = "stamp"
  /\ UNCHANGED <<loop, elapsed, skew, stamps, before>>

StampTransmit ==
  /\ task = "stamp"
  /\ stamps' = [stamps EXCEPT ![1] = EnclaveTime]
  /\ task' = "ask"
  /\ UNCHANGED <<loop, elapsed, skew, conn, before>>

Ask ==
  /\ task = "ask"
  /\ conn = "open"
  /\ conn' = "asked"
  /\ task' = "wait"
  /\ UNCHANGED <<loop, elapsed, skew, stamps, before>>

\* timeout() polls the answer first: one that is there is taken, however late.
Answered ==
  /\ task = "wait"
  /\ conn = "answered"
  /\ task' = "stamp4"
  /\ UNCHANGED <<loop, elapsed, skew, conn, stamps, before>>

StampReceive ==
  /\ task = "stamp4"
  /\ stamps' = [stamps EXCEPT ![4] = EnclaveTime]
  /\ task' = "read"
  /\ UNCHANGED <<loop, elapsed, skew, conn, before>>

ReadNow ==
  /\ task = "read"
  /\ before' = EnclaveTime
  /\ task' = "set"
  /\ UNCHANGED <<loop, elapsed, skew, conn, stamps>>

SetSystemTime ==
  /\ task = "set"
  /\ skew' = AsNanos(FromNanos(AsNanos(before) + Offset)) - elapsed
  /\ initial' = FALSE
  /\ last' = "ok"
  /\ task' = "idle"
  /\ DropAttempt
  /\ UNCHANGED retries

\* The connection is refused or times out, the handler hangs up, the answer is
\* late, or a clock cannot be read or set.
SyncFails ==
  /\ \/ task = "connect"
     \/ task \in {"ask", "wait"} /\ (conn = "closed" \/ Waited >= Timeout)
     \/ task \in {"stamp", "stamp4", "read", "set"}
  /\ Fail

\* interval.tick(), then the next sync_once
IntervalTick ==
  /\ task = "idle"
  /\ task' = "connect"
  /\ UNCHANGED <<loop, elapsed, skew, conn, stamps, before>>

\* ClockSyncService::stop aborts the task at whatever it awaits.
Stop ==
  /\ task \in {"connect", "ask", "wait", "idle"}
  /\ task' = "stopped"
  /\ DropAttempt
  /\ UNCHANGED <<loop, skew>>

-----------------------------------------------------------------------------
(* The host: handle_time_request *)

HostReceive ==
  /\ conn = "asked"
  /\ stamps' = [stamps EXCEPT ![2] = HostTime]
  /\ conn' = "got"
  /\ UNCHANGED <<task, loop, elapsed, skew, before>>

HostAnswer ==
  /\ conn = "got"
  /\ stamps' = [stamps EXCEPT ![3] = HostTime]
  /\ conn' = "answered"
  /\ UNCHANGED <<task, loop, elapsed, skew, before>>

\* The request does not come in time, or the write of the answer fails.
HostGivesUp ==
  /\ \/ conn = "open" /\ elapsed >= Timeout
     \/ conn = "got"
  /\ conn' = "closed"
  /\ UNCHANGED <<task, loop, elapsed, skew, stamps, before>>

-----------------------------------------------------------------------------
(* The clocks (external) *)

\* Within an attempt the two clocks run at the same rate.  The bound leaves time
\* for the timeout of the response.
TimePasses ==
  /\ task \notin {"connect", "idle", "stopped"}
  /\ elapsed < MaxElapsed - (IF task = "stamp" THEN Timeout ELSE 0)
  /\ elapsed' = elapsed + 1
  /\ UNCHANGED <<task, loop, skew, conn, stamps, before>>

Drift ==
  /\ task = "idle"
  /\ skew' \in {skew - 1, skew + 1} \cap (-MaxSkew .. MaxSkew)
  /\ UNCHANGED <<task, loop, elapsed, conn, stamps, before>>

Enclave == ConnectHost \/ StampTransmit \/ Ask \/ Answered \/ StampReceive \/ ReadNow
           \/ SetSystemTime \/ SyncFails \/ IntervalTick
Host    == HostReceive \/ HostAnswer \/ HostGivesUp

ClockNext == Enclave \/ Host \/ Stop \/ TimePasses \/ Drift

ClockSpec == ClockInit /\ [][ClockNext]_clockVars

\* Time goes on and the runtime of the enclave keeps polling its task.  Nothing
\* is assumed of the host: it may never accept, read or answer.
ClockFairSpec == ClockSpec /\ WF_clockVars(Enclave) /\ WF_clockVars(TimePasses)

-----------------------------------------------------------------------------
(* Properties *)

Abs(x) == IF x < 0 THEN -x ELSE x

\* After clock_settime the clock of the enclave is off by at most half the round
\* trip that sync_once measured, the delay between its last reading of the clock
\* and setting it, and the rounding of the division, however long the request,
\* the answer and the host took.
ErrorWithinHalfRtt ==
  [][SetSystemTime => 2 * Abs(skew') <= Rtt + 2 * Gap + 1]_clockVars

\* Until the service is stopped, an attempt always ends and is followed by another,
\* whatever failed before and even if the host hangs in the middle of one.
KeepsSyncing ==
  <>(task = "stopped") \/ []<><<SetSystemTime \/ SyncFails>>_clockVars
=============================================================================
