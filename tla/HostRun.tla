------------------------------ MODULE HostRun ------------------------------
(***************************************************************************)
(* The host side of an enclave run (run.rs, Enclave::run): several         *)
(* capsule-shell processes on one EC2 instance each pick a managed CID,    *)
(* bind the host-side VSOCK listeners derived from it, start an enclave    *)
(* under that CID, wait for it to exit or for a cancellation, and clean    *)
(* up.  Nothing coordinates the processes but the kernel (one listener     *)
(* per VSOCK port) and nitro-cli (one enclave per CID), so everything the  *)
(* shell knows about the other processes may be stale when it acts on it.  *)
(***************************************************************************)
EXTENDS RuntimeVsock, Sequences, FiniteSets

CONSTANTS
  Instances,           \* the capsule-shell processes
  Manifest,            \* what each instance's manifest asks for
  ForeignPorts,        \* VSOCK ports held by unrelated host processes
  BindRetryLimit,      \* HOST_RUNTIME_BIND_RETRY_LIMIT
  ConflictRetryLimit,  \* MANAGED_CID_CONFLICT_RETRY_LIMIT
  NoOwner,             \* a CID with no enclave
  ForeignCids,         \* CIDs other tools may start enclaves under
  Foreign              \* the owner of enclaves started by other tools

\* A declared hostfs mount is bound into the container, or it is absent and
\* was optional, or it is absent and was required.
MountStates == {"bound", "absent", "missing"}

ASSUME HostRunAssumption ==
  /\ Manifest \in [Instances -> [egress : BOOLEAN, mounts : Seq(MountStates),
                                 clock : BOOLEAN, ingress : Nat,
                                 debug : BOOLEAN]]
  /\ BindRetryLimit \in Nat \ {0}
  /\ ConflictRetryLimit \in Nat \ {0}
  /\ NoOwner \notin Instances /\ Foreign \notin Instances
  /\ NoOwner # Foreign
  /\ ForeignCids \subseteq ManagedCids

VARIABLES
  pc,           \* where Enclave::run of an instance is
  rejected,     \* conflict_rejected_cids
  unavailable,  \* bind_unavailable_cids of the current prepare_host_runtime
  attempt,      \* the attempt counter of prepare_host_runtime
  cid,          \* runtime_vsock.enclave_cid of the current iteration
  mount,        \* index (from 0) of the next hostfs mount to serve
  listeners,    \* VSOCK ports whose listener task is in self.tasks
  ingress,      \* number of ingress proxies in self.tasks
  console,      \* self.debug_console is Some
  enclaveInfo,  \* self.enclave_info is Some
  termErr,      \* terminate_result of the running cleanup is an error
  outcome,      \* what run() is about to do or return
  cancelled,    \* the cancellation token
  vm            \* nitro: which instance's enclave runs under a CID

vars == <<pc, rejected, unavailable, attempt, cid, mount, listeners, ingress,
          console, enclaveInfo, termErr, outcome, cancelled, vm>>

budgetVars == <<rejected, unavailable, attempt>>
locals     == <<rejected, unavailable, attempt, cid, mount, termErr>>
resources  == <<listeners, ingress, console>>

Binding   == {"egress", "hostfs", "clock"}
Reserved  == {"start", "console", "ingress", "await", "cleanup"}
Finished  == {"done", "crashed"}
PCs       == {"budget", "select", "abort"} \cup Binding \cup Reserved \cup Finished
Outcomes  == {"none", "retry", "conflict", "exited", "cancelled", "error"}
NoCid     == 0

TypeOK ==
  /\ pc \in [Instances -> PCs]
  /\ rejected \in [Instances -> SUBSET ManagedCids]
  /\ unavailable \in [Instances -> SUBSET ManagedCids]
  /\ attempt \in [Instances -> 0 .. BindRetryLimit]
  /\ cid \in [Instances -> ManagedCids \cup {NoCid}]
  /\ mount \in [Instances -> Nat]
  /\ listeners \in [Instances -> SUBSET Nat]
  /\ ingress \in [Instances -> Nat]
  /\ console \in [Instances -> BOOLEAN]
  /\ enclaveInfo \in [Instances -> BOOLEAN]
  /\ termErr \in [Instances -> BOOLEAN]
  /\ outcome \in [Instances -> Outcomes]
  /\ cancelled \in [Instances -> BOOLEAN]
  /\ vm \in [ManagedCids -> Instances \cup {NoOwner, Foreign}]

Init ==
  /\ pc = [i \in Instances |-> "budget"]
  /\ rejected = [i \in Instances |-> {}]
  /\ unavailable = [i \in Instances |-> {}]
  /\ attempt = [i \in Instances |-> 0]
  /\ cid = [i \in Instances |-> NoCid]
  /\ mount = [i \in Instances |-> 0]
  /\ listeners = [i \in Instances |-> {}]
  /\ ingress = [i \in Instances |-> 0]
  /\ console = [i \in Instances |-> FALSE]
  /\ enclaveInfo = [i \in Instances |-> FALSE]
  /\ termErr = [i \in Instances |-> FALSE]
  /\ outcome = [i \in Instances |-> "none"]
  /\ cancelled = [i \in Instances |-> FALSE]
  /\ vm = [c \in ManagedCids |-> NoOwner]

-----------------------------------------------------------------------------
(* Helpers *)

Goto(i, label) == pc' = [pc EXCEPT ![i] = label]

\* Leave the straight path: run the teardown at label for this reason.
Unwind(i, label, reason) ==
  /\ Goto(i, label)
  /\ outcome' = [outcome EXCEPT ![i] = reason]

\* run() returns, or its process is gone: the local variables are, too.
ForgetLocals(i) ==
  /\ rejected' = [rejected EXCEPT ![i] = {}]
  /\ unavailable' = [unavailable EXCEPT ![i] = {}]
  /\ attempt' = [attempt EXCEPT ![i] = 0]
  /\ cid' = [cid EXCEPT ![i] = NoCid]
  /\ mount' = [mount EXCEPT ![i] = 0]
  /\ termErr' = [termErr EXCEPT ![i] = FALSE]

Return(i, result) == Unwind(i, "done", result) /\ ForgetLocals(i)

\* The kernel refuses a second listener on a VSOCK port with AddrInUse.
PortFree(p) == p \notin ForeignPorts /\ \A j \in Instances : p \notin listeners[j]

LiveCids == {c \in ManagedCids : vm[c] # NoOwner}

\* Removing enclaves from the table of nitro.
Without(dead) == [c \in ManagedCids |-> IF c \in dead THEN NoOwner ELSE vm[c]]

-----------------------------------------------------------------------------
(* Enclave::run, loop head, and prepare_host_runtime *)

\* ensure_managed_cid_retry_budget counts distinct rejected CIDs.
BudgetLeft(i) == Cardinality(rejected[i]) < ConflictRetryLimit

\* bind_unavailable_cids starts as a clone of conflict_rejected_cids.
InitialUnavailable(i) == rejected[i]

EnsureBudget(i) ==
  /\ pc[i] = "budget"
  /\ \/ /\ BudgetLeft(i)
        /\ unavailable' = [unavailable EXCEPT ![i] = InitialUnavailable(i)]
        /\ attempt' = [attempt EXCEPT ![i] = 1]
        /\ Goto(i, "select")
        /\ UNCHANGED <<rejected, cid, mount, termErr, outcome>>
     \/ ~BudgetLeft(i) /\ Return(i, "error")
  /\ UNCHANGED <<resources, enclaveInfo, cancelled, vm>>

\* The CIDs select_runtime_vsock_ports passes over: the ones that
\* describe-enclaves reports and the excluded ones.
UsedCids(i) == LiveCids \cup unavailable[i]

\* select_runtime_vsock_ports.  It fails when describe-enclaves does or when
\* no managed CID is left; self.tasks is empty at this point.
SelectPorts(i) ==
  /\ pc[i] = "select"
  /\ \/ \E c \in FreeCids(UsedCids(i)) :
          /\ LowestFree(UsedCids(i), c)
          /\ cid' = [cid EXCEPT ![i] = c]
          /\ Goto(i, "egress")
          /\ UNCHANGED <<budgetVars, mount, termErr, outcome>>
     \/ Return(i, "error")
  /\ UNCHANGED <<resources, enclaveInfo, cancelled, vm>>

\* A bind that succeeds puts the listener task into self.tasks.
Bind(i, p) ==
  /\ PortFree(p)
  /\ listeners' = [listeners EXCEPT ![i] = @ \cup {p}]
  /\ UNCHANGED <<unavailable, outcome>>

\* Fault: the next CID is tried with the tasks of this one still running.
BindInUseKeepsTasks(i, p) ==
  /\ ~PortFree(p)
  /\ unavailable' = [unavailable EXCEPT ![i] = @ \cup {cid[i]}]
  /\ Unwind(i, "select", "none")
  /\ mount' = [mount EXCEPT ![i] = 0]
  /\ UNCHANGED listeners

\* AddrInUse makes prepare_host_runtime abort its tasks and try another CID.
BindInUse(i, p) ==
  /\ ~PortFree(p)
  /\ unavailable' = [unavailable EXCEPT ![i] = @ \cup {cid[i]}]
  /\ Unwind(i, "abort", "retry")
  /\ mount' = [mount EXCEPT ![i] = 0]
  /\ UNCHANGED listeners

\* Any other failure makes it abort its tasks and return the error.
StartError(i) ==
  /\ Unwind(i, "abort", "error")
  /\ mount' = [mount EXCEPT ![i] = 0]
  /\ UNCHANGED <<listeners, unavailable>>

\* start_egress_proxy
StartEgressProxy(i) ==
  /\ pc[i] = "egress"
  /\ \/ /\ Manifest[i].egress
        /\ \/ Bind(i, EgressPort(cid[i])) /\ Goto(i, "hostfs") /\ UNCHANGED mount
           \/ BindInUse(i, EgressPort(cid[i]))
           \/ StartError(i)
     \/ /\ ~Manifest[i].egress
        /\ Goto(i, "hostfs")
        /\ UNCHANGED <<mount, listeners, unavailable, outcome>>
  /\ UNCHANGED <<rejected, attempt, cid, ingress, console, enclaveInfo,
                 termErr, cancelled, vm>>

NextMount(i) == mount' = [mount EXCEPT ![i] = @ + 1] /\ UNCHANGED pc

\* start_hostfs_proxies, one turn of its loop over the declared mounts.
StartHostfsProxy(i) ==
  LET port  == HostfsMountPort(cid[i], mount[i])
      state == Manifest[i].mounts[mount[i] + 1]
  IN
  /\ pc[i] = "hostfs"
  /\ mount[i] < Len(Manifest[i].mounts)
  /\ \/ /\ HostfsMountPortOk(cid[i], mount[i]) => state # "absent"
        /\ StartError(i)
     \/ /\ HostfsMountPortOk(cid[i], mount[i])
        /\ state = "absent"
        /\ NextMount(i)
        /\ UNCHANGED <<listeners, unavailable, outcome>>
     \/ /\ HostfsMountPortOk(cid[i], mount[i])
        /\ state = "bound"
        /\ \/ Bind(i, port) /\ NextMount(i)
           \/ BindInUse(i, port)
  /\ UNCHANGED <<rejected, attempt, cid, ingress, console, enclaveInfo,
                 termErr, cancelled, vm>>

HostfsProxiesStarted(i) ==
  /\ pc[i] = "hostfs"
  /\ mount[i] = Len(Manifest[i].mounts)
  /\ mount' = [mount EXCEPT ![i] = 0]
  /\ Goto(i, "clock")
  /\ UNCHANGED <<budgetVars, cid, resources, enclaveInfo, termErr,
                 outcome, cancelled, vm>>

\* Fault: a taken clock sync port is tolerated on every attempt.
DegradeAtOnce(i) == attempt[i] <= BindRetryLimit

\* allow_degraded_clock_sync
AllowDegradedClockSync(i) == attempt[i] = BindRetryLimit

\* start_clock_sync_server with handle_clock_sync_bind_error: on the last
\* attempt a taken port is tolerated and the run goes on without a listener.
StartClockSyncServer(i) ==
  LET port == ClockSyncPort(cid[i]) IN
  /\ pc[i] = "clock"
  /\ \/ /\ ~Manifest[i].clock
        /\ Goto(i, "start")
        /\ UNCHANGED <<mount, listeners, unavailable, outcome>>
     \/ /\ Manifest[i].clock
        /\ Bind(i, port)
        /\ Goto(i, "start")
        /\ UNCHANGED mount
     \/ /\ Manifest[i].clock
        /\ ~PortFree(port)
        /\ AllowDegradedClockSync(i)
        /\ Goto(i, "start")
        /\ UNCHANGED <<mount, listeners, unavailable, outcome>>
     \/ /\ Manifest[i].clock
        /\ ~AllowDegradedClockSync(i)
        /\ BindInUse(i, port)
     \/ /\ Manifest[i].clock
        /\ StartError(i)
  /\ UNCHANGED <<rejected, attempt, cid, ingress, console, enclaveInfo,
                 termErr, cancelled, vm>>

-----------------------------------------------------------------------------
(* nitro-cli run-enclave, and the host setup that follows it *)

\* nitro-cli started the enclave and its answer was parsed.
EnclaveStarts(i) ==
  /\ vm[cid[i]] = NoOwner
  /\ vm' = [vm EXCEPT ![cid[i]] = i]
  /\ enclaveInfo' = [enclaveInfo EXCEPT ![i] = TRUE]
  /\ Goto(i, IF Manifest[i].debug THEN "console" ELSE "ingress")
  /\ UNCHANGED <<outcome, rejected>>

\* nitro-cli reported that the CID is already in use.
CidConflict(i) ==
  /\ vm[cid[i]] # NoOwner
  /\ rejected' = [rejected EXCEPT ![i] = @ \cup {cid[i]}]
  /\ Unwind(i, "cleanup", "conflict")
  /\ UNCHANGED <<vm, enclaveInfo>>

\* Any other error, in which nitro-cli may still have started the enclave:
\* an answer on stdout that does not parse is an error too.
StartFails(i) ==
  /\ \/ UNCHANGED vm
     \/ vm[cid[i]] = NoOwner /\ vm' = [vm EXCEPT ![cid[i]] = i]
  /\ Unwind(i, "cleanup", "error")
  /\ UNCHANGED <<rejected, enclaveInfo>>

RunEnclave(i) ==
  /\ pc[i] = "start"
  /\ EnclaveStarts(i) \/ CidConflict(i) \/ StartFails(i)
  /\ UNCHANGED <<unavailable, attempt, cid, mount, resources, termErr, cancelled>>

\* complete_post_start_setup: the debug console ...
AttachDebugConsole(i) ==
  /\ pc[i] = "console"
  /\ \/ /\ console' = [console EXCEPT ![i] = TRUE]
        /\ Goto(i, "ingress")
        /\ UNCHANGED outcome
     \/ /\ Unwind(i, "cleanup", "error")
        /\ UNCHANGED console
  /\ UNCHANGED <<budgetVars, cid, mount, listeners, ingress, enclaveInfo,
                 termErr, cancelled, vm>>

\* ... the task of the log stream, whose spawn may fail, and
\* start_ingress_proxies, one turn of its loop or its end.
StartIngressProxy(i) ==
  /\ pc[i] = "ingress"
  /\ \/ /\ ingress[i] < Manifest[i].ingress
        /\ ingress' = [ingress EXCEPT ![i] = @ + 1]
        /\ UNCHANGED <<pc, outcome>>
     \/ /\ ingress[i] = 0 \/ ingress[i] < Manifest[i].ingress
        /\ Unwind(i, "cleanup", "error")
        /\ UNCHANGED ingress
     \/ /\ ingress[i] = Manifest[i].ingress
        /\ Goto(i, "await")
        /\ UNCHANGED <<ingress, outcome>>
  /\ UNCHANGED <<budgetVars, cid, mount, listeners, console, enclaveInfo,
                 termErr, cancelled, vm>>

\* await_exit returns a status, or gives up on the status port.
AwaitExit(i) ==
  /\ pc[i] = "await"
  /\ \E result \in {"exited", "error"} : Unwind(i, "cleanup", result)
  /\ UNCHANGED <<budgetVars, cid, mount, resources, enclaveInfo, termErr,
                 cancelled, vm>>

\* Fault: run() does not select on the cancellation token.
IgnoreCancellation(i) == FALSE

\* The select! of run() observes the cancellation only here.
ObserveCancellation(i) ==
  /\ pc[i] = "await"
  /\ cancelled[i]
  /\ Unwind(i, "cleanup", "cancelled")
  /\ UNCHANGED <<budgetVars, cid, mount, resources, enclaveInfo, termErr,
                 cancelled, vm>>

-----------------------------------------------------------------------------
(* cleanup_running_state and abort_tasks *)

\* Fault: the enclave to terminate is looked up by its CID.
TerminateByCid(i) == {c \in ManagedCids : c = cid[i]}

\* terminate-enclave names the enclave by its ID, so that it cannot hit an
\* enclave somebody else has started under the same CID since.
TerminateTarget(i) == {c \in ManagedCids : vm[c] = i}

\* The first half of cleanup_running_state.  A failing nitro-cli may or may
\* not have terminated the enclave.
TerminateEnclave(i) ==
  /\ pc[i] = "cleanup"
  /\ \/ /\ enclaveInfo[i]
        /\ vm' = Without(TerminateTarget(i))
        /\ termErr' \in {[termErr EXCEPT ![i] = e] : e \in BOOLEAN}
     \/ /\ enclaveInfo[i]
        /\ termErr' = [termErr EXCEPT ![i] = TRUE]
        /\ UNCHANGED vm
     \/ /\ ~enclaveInfo[i]
        /\ termErr' = [termErr EXCEPT ![i] = FALSE]
        /\ UNCHANGED vm
  /\ console' = [console EXCEPT ![i] = FALSE]
  /\ Goto(i, "abort")
  /\ UNCHANGED <<budgetVars, cid, mount, listeners, ingress, enclaveInfo,
                 outcome, cancelled>>

\* abort_tasks waits for one task after the other.
AbortTask(i) ==
  /\ pc[i] = "abort"
  /\ \/ /\ \E p \in listeners[i] :
             listeners' = [listeners EXCEPT ![i] = @ \ {p}]
        /\ UNCHANGED ingress
     \/ /\ ingress[i] > 0
        /\ ingress' = [ingress EXCEPT ![i] = @ - 1]
        /\ UNCHANGED listeners
  /\ UNCHANGED <<pc, budgetVars, cid, mount, console, enclaveInfo, termErr,
                 outcome, cancelled, vm>>

\* Fault: the result of the cleanup is dropped.
OutcomeOfWait(i) == outcome[i]

\* finalize_exit_and_cleanup: a failed termination turns every result into an
\* error.
FinalOutcome(i) == IF termErr[i] THEN "error" ELSE outcome[i]

\* All tasks are gone: the next attempt of prepare_host_runtime, the next turn
\* of run()'s loop, or the return of run().  A failed termination keeps the
\* enclave's identity.
TasksAborted(i) ==
  /\ pc[i] = "abort"
  /\ listeners[i] = {} /\ ingress[i] = 0
  /\ \/ /\ outcome[i] = "retry"
        /\ attempt[i] < BindRetryLimit
        /\ attempt' = [attempt EXCEPT ![i] = @ + 1]
        /\ Unwind(i, "select", "none")
        /\ UNCHANGED <<rejected, unavailable, cid, mount, termErr, enclaveInfo>>
     \/ /\ outcome[i] = "retry"
        /\ attempt[i] = BindRetryLimit
        /\ Return(i, "error")
        /\ UNCHANGED enclaveInfo
     \/ /\ outcome[i] = "conflict"
        /\ Unwind(i, "budget", "none")
        /\ UNCHANGED <<locals, enclaveInfo>>
     \/ /\ outcome[i] \in {"exited", "cancelled", "error"}
        /\ Return(i, FinalOutcome(i))
        /\ enclaveInfo' = [enclaveInfo EXCEPT ![i] = @ /\ termErr[i]]
  /\ UNCHANGED <<resources, cancelled, vm>>

-----------------------------------------------------------------------------
(* The environment *)

\* SIGINT or SIGTERM: the signal handler cancels the token.
Cancel(i) ==
  /\ pc[i] \notin Finished /\ ~cancelled[i]
  /\ cancelled' = [cancelled EXCEPT ![i] = TRUE]
  /\ UNCHANGED <<pc, budgetVars, cid, mount, resources, enclaveInfo, termErr,
                 outcome, vm>>

\* The shell is killed: the kernel closes its sockets, its enclave runs on.
Crash(i) ==
  /\ pc[i] \notin Finished
  /\ Goto(i, "crashed")
  /\ listeners' = [listeners EXCEPT ![i] = {}]
  /\ ingress' = [ingress EXCEPT ![i] = 0]
  /\ console' = [console EXCEPT ![i] = FALSE]
  /\ ForgetLocals(i)
  /\ UNCHANGED <<enclaveInfo, outcome, cancelled, vm>>

\* An enclave dies by itself; nitro forgets it and its CID is free again.
EnclaveDies(c) ==
  /\ vm[c] # NoOwner
  /\ vm' = Without({c})
  /\ UNCHANGED <<pc, budgetVars, cid, mount, resources, enclaveInfo, termErr,
                 outcome, cancelled>>

\* Another tool starts an enclave under a CID of the managed range.
ForeignStart(c) ==
  /\ c \in ForeignCids
  /\ vm[c] = NoOwner
  /\ vm' = [vm EXCEPT ![c] = Foreign]
  /\ UNCHANGED <<pc, budgetVars, cid, mount, resources, enclaveInfo, termErr,
                 outcome, cancelled>>

\* What run() does by itself once nothing outside holds it up.
Progress(i) ==
  \/ EnsureBudget(i) \/ SelectPorts(i)
  \/ StartEgressProxy(i) \/ StartHostfsProxy(i) \/ HostfsProxiesStarted(i)
  \/ StartClockSyncServer(i)
  \/ RunEnclave(i) \/ AttachDebugConsole(i) \/ StartIngressProxy(i)
  \/ ObserveCancellation(i)
  \/ TerminateEnclave(i) \/ AbortTask(i) \/ TasksAborted(i)

Next ==
  \/ \E i \in Instances : Progress(i) \/ AwaitExit(i) \/ Cancel(i) \/ Crash(i)
  \/ \E c \in ManagedCids : EnclaveDies(c) \/ ForeignStart(c)

Spec == Init /\ [][Next]_vars

\* nitro-cli calls return and the executor runs ready tasks; nothing makes an
\* application exit or a user cancel.
Fairness == \A i \in Instances : WF_vars(Progress(i))

FairSpec == Spec /\ Fairness

-----------------------------------------------------------------------------
(* Properties *)

Offsets(i) ==
  (IF Manifest[i].egress THEN {EgressOffset} ELSE {})
  \cup {HostfsOffsetBase + k - 1 :
          k \in {m \in DOMAIN Manifest[i].mounts : Manifest[i].mounts[m] = "bound"}}
  \cup (IF Manifest[i].clock THEN {ClockSyncOffset} ELSE {})

\* Whatever an instance listens on lies in the block of the CID it is working
\* with: no listener of an earlier attempt or of a lost CID survives a retry.
ListenersInBlock ==
  \A i \in Instances : listeners[i] # {} => listeners[i] \subseteq Block(cid[i])

\* From the moment run-enclave may boot the enclave until cleanup, every
\* configured host service listens on its port; only clock sync may be left
\* out, and only when the bind retry budget was used up.
ServicesReadyBeforeBoot ==
  \A i \in Instances : pc[i] \in Reserved =>
    \A o \in Offsets(i) :
      \/ Port(cid[i], o) \in listeners[i]
      \/ o = ClockSyncOffset /\ attempt[i] = BindRetryLimit

\* Two instances that hold a reservation on the same CID (because the enclave
\* of one has died or has not been started yet) have no service in common,
\* save a clock sync one of them gave up on after its last attempt.
ReservationExclusive ==
  \A i, j \in Instances :
    i # j /\ pc[i] \in Reserved /\ pc[j] \in Reserved /\ cid[i] = cid[j] =>
      \A o \in Offsets(i) \cap Offsets(j) :
        o = ClockSyncOffset /\ BindRetryLimit \in {attempt[i], attempt[j]}

\* run() never reports success while the enclave it started still runs.
LeakIsReported ==
  \A i \in Instances :
    pc[i] = "done" /\ (\E c \in ManagedCids : vm[c] = i) => outcome[i] = "error"

\* run() returns with no listener, no ingress proxy and no debug console left.
ReturnsClean ==
  \A i \in Instances :
    pc[i] = "done" => listeners[i] = {} /\ ingress[i] = 0 /\ ~console[i]

\* The cleanup of one instance terminates no enclave but its own, even when
\* its CID has meanwhile been taken over by another one.
TerminatesOnlyOwn ==
  [][\A i \in Instances : pc[i] = "cleanup" /\ pc'[i] = "abort" =>
       \A c \in ManagedCids : vm[c] # i => vm'[c] = vm[c]]_vars

\* The nested retry loops end, whatever the other instances do, and a
\* cancellation is honoured, even though it is only looked at in the wait.
CancelReturns ==
  \A i \in Instances : cancelled[i] ~> pc[i] \in Finished
=============================================================================
