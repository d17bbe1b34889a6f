--------------------------- MODULE RuntimeLaunch ---------------------------
(***************************************************************************)
(* The enclave side of a run (capsule-runtime, main.rs): launch() starts   *)
(* the platform services one after the other, runs the application, shuts  *)
(* the services down in reverse order and only then lets run() publish the *)
(* result.  Every start may fail, and then the services started so far are *)
(* shut down.  The ingress proxies and the Helios clients are tasks of     *)
(* their own that run beside it.                                           *)
(***************************************************************************)
EXTENDS Naturals, Sequences

CONSTANTS
  Config,    \* what the manifest in the enclave asks for
  AuthPort,  \* KMS_REGISTRY_HELIOS_PORT
  MaxConns   \* bound: open ingress connections per port

\* The services that are one abortable task each.
TaskServices == {"egress", "clock", "capsule_api", "aux_api"}
Services     == TaskServices \cup {"hostfs", "helios", "ingress"}

\* validate_manifest_cross_constraints: the Aux API comes with the Capsule
\* API, and registry KMS with a Helios chain on the port it relies on.
CrossConstraints ==
  /\ "aux_api" \in Config.tasks <=> "capsule_api" \in Config.tasks
  /\ Config.registry => AuthPort \in Config.helios

ASSUME LaunchAssumption ==
  /\ Config.tasks \subseteq TaskServices
  /\ Config.mounts \in Seq(BOOLEAN)      \* TRUE: the mount is required
  /\ Config.ports \in Nat                \* number of ingress listener_ports
  /\ Config.registry \in BOOLEAN         \* registry_discovery_configured
  /\ CrossConstraints
  /\ MaxConns \in Nat

VARIABLES
  pc,       \* where launch() and run() are
  k,        \* index in the loop at pc: mount, ingress port or service to stop
  owned,    \* the fields of StartedServices that are Some
  running,  \* the service tasks that are alive
  mounted,  \* the hostfs mounts that are in place
  helios,   \* the task of every Helios chain
  refresh,  \* the KMS background refresh task is alive
  proxy,    \* the serve task of every ingress port
  conns,    \* its open connections
  signal,   \* the watch channel that stops the ingress proxies
  child,    \* the application
  result,   \* what launch() returns
  status    \* what AppStatus publishes

vars == <<pc, k, owned, running, mounted, helios, refresh, proxy, conns, signal,
          child, result, status>>
tasks == <<running, mounted, helios, refresh>>
ingressVars == <<proxy, conns, signal>>

Ports   == 1 .. Config.ports
Results == {"exited", "signaled", "fatal"}
PCs     == {"bootstrap", "hostfs", "egress", "clock", "helios", "await_helios",
            "capsule_api", "aux_api", "rollback", "ingress", "spawn", "reap",
            "shutdown", "report", "serving"}

TypeOK ==
  /\ pc \in PCs
  /\ k \in Nat
  /\ owned \subseteq Services
  /\ running \subseteq Config.tasks
  /\ mounted \subseteq DOMAIN Config.mounts
  /\ helios \in [Config.helios -> {"off", "syncing", "ready", "failed"}]
  /\ refresh \in BOOLEAN
  /\ proxy \in [Ports -> {"none", "serving", "joining"}]
  /\ conns \in [Ports -> 0 .. MaxConns]
  /\ signal \in {"none", "sent", "dropped"}
  /\ child \in {"none", "running", "ended"}
  /\ result \in Results \cup {"none"}
  /\ status \in Results \cup {"running"}

Init ==
  /\ pc = "bootstrap"
  /\ k = 1
  /\ owned = {}
  /\ running = {}
  /\ mounted = {}
  /\ helios = [p \in Config.helios |-> "off"]
  /\ refresh = FALSE
  /\ proxy = [p \in Ports |-> "none"]
  /\ conns = [p \in Ports |-> 0]
  /\ signal = "none"
  /\ child = "none"
  /\ result = "none"
  /\ status = "running"

-----------------------------------------------------------------------------
(* launch(): starting the services *)

Goto(label) == pc' = label /\ k' = 1

\* The first ? that fails ends the async block; shutdown() follows.
Unwind == Goto("shutdown") /\ result' = "fatal"

\* enclave::bootstrap, the port layout of the local CID and the launch plan.
\* They fail before there is anything to shut down.
Bootstrap ==
  /\ pc = "bootstrap"
  /\ \/ Goto("hostfs") /\ UNCHANGED result
     \/ Goto("report") /\ result' = "fatal"
  /\ UNCHANGED <<owned, tasks, ingressVars, child, status>>

\* HostFsMountService::start, one turn of its loop.  An optional mount may be
\* skipped; a required one that fails, or a missing FUSE device, drops the
\* mounts made so far.
StartMount ==
  /\ pc = "hostfs"
  /\ k <= Len(Config.mounts)
  /\ \/ mounted' = mounted \cup {k} /\ k' = k + 1 /\ UNCHANGED <<pc, result>>
     \/ ~Config.mounts[k] /\ k' = k + 1 /\ UNCHANGED <<pc, mounted, result>>
     \/ (k = 1 \/ Config.mounts[k]) /\ mounted' = {} /\ Unwind
  /\ UNCHANGED <<owned, running, helios, refresh, ingressVars, child, status>>

MountsStarted ==
  /\ pc = "hostfs"
  /\ k > Len(Config.mounts)
  /\ owned' = owned \cup {"hostfs"}
  /\ Goto("egress")
  /\ UNCHANGED <<tasks, ingressVars, child, result, status>>

\* EgressService::start
StartEgress ==
  /\ pc = "egress"
  /\ \/ /\ running' = running \cup ({"egress"} \cap Config.tasks)
        /\ owned' = owned \cup {"egress"}
        /\ Goto("clock")
        /\ UNCHANGED result
     \/ "egress" \in Config.tasks /\ Unwind /\ UNCHANGED <<owned, running>>
  /\ UNCHANGED <<mounted, helios, refresh, ingressVars, child, status>>

\* ClockSyncService::start cannot fail.
StartClockSync ==
  /\ pc = "clock"
  /\ running' = running \cup ({"clock"} \cap Config.tasks)
  /\ owned' = owned \cup {"clock"}
  /\ Goto("helios")
  /\ UNCHANGED <<mounted, helios, refresh, ingressVars, child, result, status>>

\* HeliosRpcService::start spawns a task per chain and does not wait for it.
StartHelios ==
  /\ pc = "helios"
  /\ helios' = [p \in Config.helios |-> "syncing"]
  /\ owned' = owned \cup {"helios"}
  /\ Goto(IF Config.registry THEN "await_helios" ELSE "capsule_api")
  /\ UNCHANGED <<running, mounted, refresh, ingressVars, child, result, status>>

\* Fault: the readiness of any chain will do.
AnyHeliosReady == \E p \in Config.helios : helios[p] = "ready"

\* wait_ready_for_port waits for the one chain the registry needs.
HeliosReady == helios[AuthPort] = "ready"

AwaitHelios ==
  /\ pc = "await_helios"
  /\ \/ HeliosReady /\ Goto("capsule_api") /\ UNCHANGED result
     \/ helios[AuthPort] = "failed" /\ Unwind
  /\ UNCHANGED <<owned, tasks, ingressVars, child, status>>

\* CapsuleApiService::start.  The KMS refresh task is spawned and detached on
\* the way; what comes after it (the S3 checks, the bind) may still fail.
StartCapsuleApi ==
  /\ pc = "capsule_api"
  /\ \/ /\ running' = running \cup ({"capsule_api"} \cap Config.tasks)
        /\ refresh' = ("capsule_api" \in Config.tasks /\ Config.registry)
        /\ Goto("aux_api")
        /\ UNCHANGED result
     \/ /\ "capsule_api" \in Config.tasks
        /\ refresh' \in {FALSE, Config.registry}
        /\ Unwind
        /\ UNCHANGED running
  /\ UNCHANGED <<owned, mounted, helios, ingressVars, child, status>>

\* AuxApiService::start; start_capsule_api_stack hands both services over
\* together or stops the Capsule API again.
StartAuxApi ==
  /\ pc = "aux_api"
  /\ \/ /\ running' = running \cup ({"aux_api"} \cap Config.tasks)
        /\ owned' = owned \cup {"capsule_api", "aux_api"}
        /\ Goto("ingress")
     \/ /\ "aux_api" \in Config.tasks
        /\ Goto("rollback")
        /\ UNCHANGED <<owned, running>>
  /\ UNCHANGED <<mounted, helios, refresh, ingressVars, child, result, status>>

\* Fault: the Capsule API is left running when the Aux API fails.
RollbackForgotten ==
  /\ pc = "rollback"
  /\ Unwind
  /\ UNCHANGED <<owned, tasks, ingressVars, child, status>>

Rollback ==
  /\ pc = "rollback"
  /\ running' = running \ {"capsule_api"}
  /\ Unwind
  /\ UNCHANGED <<owned, mounted, helios, refresh, ingressVars, child, status>>

\* IngressService::start, one turn of its loop.  When a bind fails, the handles
\* of the proxies that already serve and the sender are dropped.
BindIngress ==
  /\ pc = "ingress"
  /\ k \in Ports
  /\ \/ /\ proxy' = [proxy EXCEPT ![k] = "serving"]
        /\ k' = k + 1
        /\ UNCHANGED <<pc, signal, result>>
     \/ signal' = "dropped" /\ Unwind /\ UNCHANGED proxy
  /\ UNCHANGED <<owned, tasks, conns, child, status>>

IngressStarted ==
  /\ pc = "ingress"
  /\ k \notin Ports
  /\ owned' = owned \cup {"ingress"}
  /\ Goto("spawn")
  /\ UNCHANGED <<tasks, ingressVars, child, result, status>>

\* launcher::start_child and reap, up to the end of the application.
SpawnChild ==
  /\ pc = "spawn"
  /\ \/ child' = "running" /\ Goto("reap") /\ UNCHANGED result
     \/ Unwind /\ UNCHANGED child
  /\ UNCHANGED <<owned, tasks, ingressVars, status>>

Reap ==
  /\ pc = "reap"
  /\ \/ child' = "ended" /\ result' \in {"exited", "signaled"} /\ Goto("shutdown")
     \/ Unwind /\ UNCHANGED child      \* waitpid failed
  /\ UNCHANGED <<owned, tasks, ingressVars, status>>

-----------------------------------------------------------------------------
(* StartedServices::shutdown, and the report *)

\* Fault: services are stopped in the order they were started in.
StartOrder == <<"hostfs", "egress", "clock", "helios", "capsule_api", "aux_api", "ingress">>

StopOrder == <<"ingress", "aux_api", "capsule_api", "helios", "clock", "egress", "hostfs">>

\* A service that was never handed over is passed by.
PassBy ==
  /\ pc = "shutdown"
  /\ k <= Len(StopOrder)
  /\ StopOrder[k] \notin owned
  /\ k' = k + 1
  /\ UNCHANGED <<pc, owned, tasks, ingressVars, child, result, status>>

\* stop() of a service with abortable tasks, and the drop of the mounts.
StopService ==
  /\ pc = "shutdown"
  /\ k <= Len(StopOrder)
  /\ LET s == StopOrder[k] IN
       /\ s \in owned \ {"ingress"}
       /\ owned' = owned \ {s}
       /\ running' = running \ {s}
       /\ helios' = IF s = "helios" THEN [p \in Config.helios |-> "off"] ELSE helios
       /\ mounted' = IF s = "hostfs" THEN {} ELSE mounted
  /\ k' = k + 1
  /\ UNCHANGED <<pc, refresh, ingressVars, child, result, status>>

\* IngressService::stop signals the proxies ...
SignalIngress ==
  /\ pc = "shutdown"
  /\ k <= Len(StopOrder)
  /\ StopOrder[k] = "ingress"
  /\ "ingress" \in owned
  /\ signal = "none"
  /\ signal' = "sent"
  /\ UNCHANGED <<pc, k, owned, tasks, proxy, conns, child, result, status>>

\* ... and waits for every one of them.
IngressJoined ==
  /\ pc = "shutdown"
  /\ k <= Len(StopOrder)
  /\ StopOrder[k] = "ingress"
  /\ "ingress" \in owned
  /\ signal = "sent"
  /\ \A p \in Ports : proxy[p] = "none"
  /\ owned' = owned \ {"ingress"}
  /\ k' = k + 1
  /\ UNCHANGED <<pc, tasks, ingressVars, child, result, status>>

ShutdownDone ==
  /\ pc = "shutdown"
  /\ k > Len(StopOrder)
  /\ Goto("report")
  /\ UNCHANGED <<owned, tasks, ingressVars, child, result, status>>

\* run() publishes what launch() returned, and serves it from then on.
Report ==
  /\ pc = "report"
  /\ status' = result
  /\ Goto("serving")
  /\ UNCHANGED <<owned, tasks, ingressVars, child, result>>

-----------------------------------------------------------------------------
(* The tasks beside it *)

\* The task of a Helios chain reports that it has synced, or that it failed.
HeliosSettles(p) ==
  /\ helios[p] = "syncing"
  /\ \E s \in {"ready", "failed"} : helios' = [helios EXCEPT ![p] = s]
  /\ UNCHANGED <<pc, k, owned, running, mounted, refresh, ingressVars, child,
                 result, status>>

\* EnclaveProxy::serve takes a connection ...
Accept(p) ==
  /\ proxy[p] = "serving"
  /\ conns[p] < MaxConns
  /\ conns' = [conns EXCEPT ![p] = @ + 1]
  /\ UNCHANGED <<pc, k, owned, tasks, proxy, signal, child, result, status>>

\* Fault: the proxy does not listen to the shutdown channel.
NeverLeaves(p) == FALSE

\* ... until it is told to stop.  A dropped sender does not match Ok(()).
LeaveLoop(p) ==
  /\ proxy[p] = "serving"
  /\ signal = "sent"
  /\ proxy' = [proxy EXCEPT ![p] = "joining"]
  /\ UNCHANGED <<pc, k, owned, tasks, conns, signal, child, result, status>>

\* join_all waits for the connections to end by themselves.
ProxyEnds(p) ==
  /\ proxy[p] = "joining"
  /\ conns[p] = 0
  /\ proxy' = [proxy EXCEPT ![p] = "none"]
  /\ UNCHANGED <<pc, k, owned, tasks, conns, signal, child, result, status>>

\* Both directions of copy_bidirectional have ended: the client has closed its
\* side, too, which it may never do.
ConnEnds(p) ==
  /\ conns[p] > 0
  /\ conns' = [conns EXCEPT ![p] = @ - 1]
  /\ UNCHANGED <<pc, k, owned, tasks, proxy, signal, child, result, status>>

Start ==
  \/ Bootstrap \/ StartMount \/ MountsStarted \/ StartEgress \/ StartClockSync
  \/ StartHelios \/ AwaitHelios \/ StartCapsuleApi \/ StartAuxApi \/ Rollback
  \/ BindIngress \/ IngressStarted \/ SpawnChild

Shutdown ==
  \/ PassBy \/ StopService \/ SignalIngress \/ IngressJoined \/ ShutdownDone
  \/ Report

Next ==
  \/ Start \/ Reap \/ Shutdown
  \/ \E p \in Config.helios : HeliosSettles(p)
  \/ \E p \in Ports : Accept(p) \/ LeaveLoop(p) \/ ProxyEnds(p) \/ ConnEnds(p)

Spec == Init /\ [][Next]_vars

\* The executor runs the tasks of the runtime.  Nobody makes a client hang up.
FairSpec ==
  /\ Spec
  /\ WF_vars(Start \/ Shutdown)
  /\ \A p \in Ports : WF_vars(LeaveLoop(p)) /\ WF_vars(ProxyEnds(p))

-----------------------------------------------------------------------------
(* Properties *)

\* No service outlives what it relies on.  Ingress is the last to come up and
\* the first to go: as long as an ingress proxy accepts or still carries
\* connections, everything the application may need is there.  (Not when a later
\* port could not be bound: nobody stops the proxies that were bound before it,
\* which go on accepting while the services behind them are shut down.)  The Aux
\* API, which only forwards, never runs without the Capsule API: not between the
\* two starts, in a rollback, or in a shutdown.
ServicesBehindIngress ==
  /\ (\E p \in Ports : proxy[p] # "none") /\ signal # "dropped" =>
       Config.tasks \subseteq running /\ {"hostfs", "helios"} \subseteq owned
  /\ "aux_api" \in running => "capsule_api" \in running

\* The application runs with everything the manifest asks for in place: the
\* required mounts, every service, every ingress port and, when KMS relies on
\* the registry, a synced Helios client on the port it uses.
AppStartsComplete ==
  pc = "reap" =>
    /\ \A m \in DOMAIN Config.mounts : Config.mounts[m] => m \in mounted
    /\ running = Config.tasks
    /\ \A p \in Ports : proxy[p] = "serving"
    /\ Config.registry => helios[AuthPort] = "ready"

\* No result is published before every service is down and every mount is
\* gone, whichever start failed: what the host reads may be acted on.
ReportedAfterShutdown ==
  status # "running" =>
    /\ running = {} /\ mounted = {} /\ owned = {}
    /\ \A p \in Config.helios : helios[p] = "off"
    /\ signal # "dropped" => \A p \in Ports : proxy[p] = "none"

\* Once launch() has a result, it is published, or else an ingress proxy that was
\* told to stop waits for ever for a client that does not hang up: join_all
\* (proxy/ingress.rs) has no timeout, and stop() waits for it.  Nothing else, no
\* failed start and no proxy left behind by one, keeps the result from the host.
ExitIsReported ==
  result # "none" ~>
    (status # "running" \/ \E p \in Ports : [](proxy[p] = "joining" /\ conns[p] > 0))
=============================================================================
