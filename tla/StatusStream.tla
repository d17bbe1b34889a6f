---------------------------- MODULE StatusStream ----------------------------
(***************************************************************************)
(* How the shell learns that the application has ended.  The runtime       *)
(* serves its status on a fixed VSOCK port, one stream task per connection *)
(* (console.rs, AppStatus); the shell reads status lines from there and    *)
(* reconnects when the connection breaks (run.rs, Enclave::await_exit).    *)
(*                                                                         *)
(* Only the stream task of the current connection is modelled: the tasks   *)
(* of earlier connections never end, but nobody reads what they write.     *)
(***************************************************************************)
EXTENDS Naturals, Sequences

CONSTANTS
  LaunchResults,     \* how launch() may end, a subset of Ends
  StatusRetryLimit,  \* STATUS_VSOCK_RETRY_LIMIT
  MaxDrops           \* bound: how often the connection breaks

\* How launch() ends: the application exits, is killed by a signal, or launch()
\* fails with an error text that is plain, holds a character that JSON wants
\* escaped, or is longer than the shell's line buffer.
Ends == {"exited", "signaled", "fatal", "fatalQuoted", "fatalLong"}

ASSUME StatusAssumption ==
  /\ LaunchResults \subseteq Ends
  /\ StatusRetryLimit \in Nat \ {0}
  /\ MaxDrops \in Nat

VARIABLES
  server,   \* the runtime's side of the status port
  status,   \* AppStatusInner.status
  stream,   \* where the stream task of the current connection is
  changed,  \* its watch has a change it has not seen yet
  sent,     \* the status it has read last, to write it
  open,     \* the connection is up
  wire,     \* lines written and not yet read
  host,     \* where await_exit is
  failed,   \* failed_attempts
  result,   \* what await_exit returned
  drops     \* how often the connection broke so far

enclaveVars == <<server, status>>
streamVars  == <<stream, changed, sent>>
connVars    == <<open, wire>>
hostVars    == <<host, failed, result>>
statusVars  == <<enclaveVars, streamVars, connVars, hostVars, drops>>

Tags   == {"running", "exited", "signaled", "fatal"}
Status == {"running"} \cup Ends

\* The payloads a status line carries, as JSON types.
Lines == [tag : Tags, payload : {"none", "number", "string"},
          wellFormed : BOOLEAN, fits : BOOLEAN]

StatusTypeOK ==
  /\ server \in {"booting", "up", "unbound", "gone"}
  /\ status \in Status
  /\ stream \in {"none", "add", "read", "write", "wait"}
  /\ changed \in BOOLEAN
  /\ sent \in Status \cup {"nothing"}
  /\ open \in BOOLEAN
  /\ wire \in Seq(Lines)
  /\ host \in {"connect", "read", "returned"}
  /\ failed \in 0 .. StatusRetryLimit
  /\ result \in Tags \cup {"none", "error"}
  /\ drops \in 0 .. MaxDrops

StatusInit ==
  /\ server = "booting"
  /\ status = "running"
  /\ stream = "none" /\ changed = FALSE /\ sent = "nothing"
  /\ open = FALSE /\ wire = <<>>
  /\ host = "connect" /\ failed = 0 /\ result = "none"
  /\ drops = 0

-----------------------------------------------------------------------------
(* The status line: written by EntrypointStatus::as_json with format!,     *)
(* read by serde_json into EnclaveProcessStatus                            *)

Tag(s) == IF s \in {"fatalQuoted", "fatalLong"} THEN "fatal" ELSE s

\* A signal is printed by its name, in quotes.  An error text is put between
\* quotes as it is.
AsJson(s) ==
  [tag        |-> Tag(s),
   payload    |-> CASE s = "running" -> "none"
                    [] s = "exited"  -> "number"
                    [] OTHER         -> "string",
   wellFormed |-> s # "fatalQuoted",
   fits       |-> s # "fatalLong"]

\* What EnclaveProcessStatus expects: a signal is an i32.
Expected(tag) ==
  CASE tag = "running" -> "none"
    [] tag = "exited" -> "number"
    [] tag = "signaled" -> "number"
    [] tag = "fatal" -> "string"

Parses(line) == line.wellFormed /\ line.payload = Expected(line.tag)

-----------------------------------------------------------------------------
(* The runtime *)

\* run() binds the status port first; launch() goes on when that fails.
StartServing ==
  /\ server = "booting"
  /\ server' \in {"up", "unbound"}
  /\ UNCHANGED <<status, streamVars, connVars, hostVars, drops>>

\* Fault: the watch is taken when the task begins to wait.
NotifyWaiting == changed' = (changed \/ stream = "wait")

\* WatchSet::notify reaches the watches that have been added.
Notify == changed' = (changed \/ stream \in {"read", "write", "wait"})

\* launch() returns.  Without a status task run() returns its bind error and
\* PID 1 exits, which ends the enclave.
LaunchEnds ==
  /\ server \in {"up", "unbound"}
  /\ status = "running"
  /\ status' \in LaunchResults
  /\ server' = IF server = "up" THEN "up" ELSE "gone"
  /\ Notify
  /\ UNCHANGED <<stream, sent, connVars, hostVars, drops>>

\* The stream task takes its watch before it looks at the status ...
StreamAdd ==
  /\ stream = "add"
  /\ stream' = "read"
  /\ changed' = FALSE
  /\ UNCHANGED <<enclaveVars, sent, connVars, hostVars, drops>>

\* ... reads it under the lock ...
StreamRead ==
  /\ stream = "read"
  /\ stream' = "write"
  /\ sent' = status
  /\ UNCHANGED <<enclaveVars, changed, connVars, hostVars, drops>>

\* ... writes a line without the lock, ignoring a failure ...
StreamWrite ==
  /\ stream = "write"
  /\ stream' = "wait"
  /\ wire' = IF open THEN Append(wire, AsJson(sent)) ELSE wire
  /\ UNCHANGED <<enclaveVars, changed, sent, open, hostVars, drops>>

\* ... and waits for a change.
StreamWake ==
  /\ stream = "wait" /\ changed
  /\ stream' = "read"
  /\ changed' = FALSE
  /\ UNCHANGED <<enclaveVars, sent, connVars, hostVars, drops>>

\* The enclave ends by itself or is terminated from outside.
EnclaveDies ==
  /\ server # "gone"
  /\ server' = "gone"
  /\ stream' = "none"
  /\ open' = FALSE
  /\ UNCHANGED <<status, changed, sent, wire, hostVars, drops>>

\* The connection breaks; lines under way may be lost.
Drop ==
  /\ open /\ drops < MaxDrops
  /\ drops' = drops + 1
  /\ open' = FALSE
  /\ \E n \in 0 .. Len(wire) : wire' = SubSeq(wire, 1, n)
  /\ UNCHANGED <<enclaveVars, streamVars, hostVars>>

-----------------------------------------------------------------------------
(* await_exit *)

Return(what) == host' = "returned" /\ result' = what

\* A connection: the runtime spawns a stream task for it.
Connect ==
  /\ host = "connect" /\ server = "up"
  /\ host' = "read"
  /\ open' = TRUE /\ wire' = <<>>
  /\ stream' = "add" /\ changed' = FALSE /\ sent' = "nothing"
  /\ UNCHANGED <<enclaveVars, failed, result, drops>>

\* Fault: failed attempts are not counted.
RetryForever == host = "connect" /\ UNCHANGED statusVars

\* A failed attempt, which may also happen while the port is up.  The count is
\* never reset: it is a budget for the whole wait.
ConnectFails ==
  /\ host = "connect"
  /\ failed' = failed + 1
  /\ IF failed' >= StatusRetryLimit THEN Return("error") ELSE UNCHANGED <<host, result>>
  /\ UNCHANGED <<enclaveVars, streamVars, connVars, drops>>

\* The shell drops the connection and goes round its loop.
Reconnect ==
  /\ host' = "connect"
  /\ open' = FALSE /\ wire' = <<>>
  /\ UNCHANGED result

\* Fault: any line that parses ends the wait.
FinalOnAnyLine(tag) == TRUE

\* The statuses on which await_exit returns.
Final(tag) == tag \in {"exited", "signaled", "fatal"}

\* One line.  A line beyond the limit of the codec is a read error, after
\* which the framed stream ends; a line that does not parse is skipped.
ReadLine ==
  /\ host = "read" /\ wire # <<>>
  /\ \/ ~Head(wire).fits /\ Reconnect
     \/ /\ Head(wire).fits /\ Parses(Head(wire)) /\ Final(Head(wire).tag)
        /\ Return(Head(wire).tag)
        /\ wire' = <<>> /\ open' = FALSE
     \/ /\ Head(wire).fits /\ ~(Parses(Head(wire)) /\ Final(Head(wire).tag))
        /\ wire' = Tail(wire)
        /\ UNCHANGED <<open, host, result>>
  /\ UNCHANGED <<enclaveVars, streamVars, failed, drops>>

\* The peer is gone and everything it sent has been read.
StreamEnds ==
  /\ host = "read" /\ wire = <<>> /\ ~open
  /\ Reconnect
  /\ UNCHANGED <<enclaveVars, streamVars, failed, drops>>

StreamTask == StreamAdd \/ StreamRead \/ StreamWrite \/ StreamWake
AwaitExit == Connect \/ ConnectFails \/ ReadLine \/ StreamEnds
StatusNext == StartServing \/ LaunchEnds \/ EnclaveDies \/ Drop \/ StreamTask \/ AwaitExit

StatusSpec == StatusInit /\ [][StatusNext]_statusVars

\* The executors run ready tasks; when applications end is their own business.
StatusFairSpec == StatusSpec /\ WF_statusVars(StartServing) /\ WF_statusVars(StreamTask) /\ WF_statusVars(AwaitExit)

-----------------------------------------------------------------------------
(* Properties *)

\* A stream task that sleeps has told its peer the current status: the change
\* that comes between taking the watch and reading the status, or while a line
\* is being written, is not lost.
NoMissedUpdate == stream = "wait" /\ ~changed => sent = status

\* await_exit returns a status only when the application has really ended that
\* way, over any number of reconnections.
ResultIsStatus == result \in Tags => result = Tag(status) /\ status \in Ends

\* When launch() has ended in a way the shell can read, or the enclave is gone
\* without a status, the shell's wait ends, however often the connection
\* breaks.
WaitEnds == (status \in {"exited", "fatal"} \/ server = "gone") ~> host = "returned"

\* README.md: the runtime "reports exit status", and
\* docs/capsule-runtime-details.md: the listeners start early "so startup
\* failures can still be reported to the host".  However launch() has ended,
\* the shell's wait ends.
EndIsReported == status \in Ends ~> host = "returned"
=============================================================================
