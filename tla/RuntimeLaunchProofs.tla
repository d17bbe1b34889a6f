------------------------ MODULE RuntimeLaunchProofs ------------------------
(***************************************************************************)
(* The safety of the launch, for every manifest that satisfies the         *)
(* constraints and any number of mounts, chains, ports and connections.    *)
(*                                                                         *)
(* While launch() goes forward, the program counter tells which services   *)
(* are handed over and which run; in the shutdown what runs is owned by a  *)
(* service yet to be stopped; after it nothing is left (Staged).  Mounts,  *)
(* Helios chains and ingress proxies have a part of the invariant each,    *)
(* since they come and go by themselves.                                   *)
(***************************************************************************)
EXTENDS RuntimeLaunch, TLAPS

\* The places in launch() from which on a service has been handed over
FromSpawn   == {"spawn", "reap"}
FromIngress == {"ingress"} \cup FromSpawn
FromAux     == {"aux_api", "rollback"} \cup FromIngress
FromApi     == {"capsule_api"} \cup FromAux
FromAwait   == {"await_helios"} \cup FromApi
FromHelios  == {"helios"} \cup FromAwait
FromClock   == {"clock"} \cup FromHelios
FromEgress  == {"egress"} \cup FromClock
Launching   == {"bootstrap", "hostfs"} \cup FromEgress
Reporting   == {"report", "serving"}

HandedOver ==
  /\ "hostfs" \in owned <=> pc \in FromEgress
  /\ "egress" \in owned <=> pc \in FromClock
  /\ "clock" \in owned <=> pc \in FromHelios
  /\ "helios" \in owned <=> pc \in FromAwait
  /\ "capsule_api" \in owned <=> pc \in FromIngress
  /\ "aux_api" \in owned <=> pc \in FromIngress
  /\ "ingress" \in owned <=> pc \in FromSpawn

Running ==
  /\ "egress" \in running <=> "egress" \in Config.tasks /\ pc \in FromClock
  /\ "clock" \in running <=> "clock" \in Config.tasks /\ pc \in FromHelios
  /\ "capsule_api" \in running <=> "capsule_api" \in Config.tasks /\ pc \in FromAux
  /\ "aux_api" \in running <=> "aux_api" \in Config.tasks /\ pc \in FromIngress

\* Services are passed in StopOrder.
Passed ==
  /\ k > 1 => "ingress" \notin owned
  /\ k > 2 => "aux_api" \notin owned
  /\ k > 3 => "capsule_api" \notin owned
  /\ k > 4 => "helios" \notin owned
  /\ k > 5 => "clock" \notin owned
  /\ k > 6 => "egress" \notin owned
  /\ k > 7 => "hostfs" \notin owned

Staged ==
  /\ pc \in Launching => HandedOver /\ Running
  /\ pc = "shutdown" =>
       /\ k \in 1 .. 8
       /\ Passed
       /\ running \subseteq owned
       /\ "aux_api" \in running => "capsule_api" \in running
       /\ "ingress" \in owned => Config.tasks \subseteq running /\ {"hostfs", "helios"} \subseteq owned
  /\ pc \in Reporting => owned = {} /\ running = {}

Mounts ==
  /\ pc = "bootstrap" => mounted = {}
  /\ pc = "hostfs" => k > 0
  /\ pc = "hostfs" => \A m \in DOMAIN Config.mounts : m < k /\ Config.mounts[m] => m \in mounted
  /\ pc \in FromEgress => \A m \in DOMAIN Config.mounts : Config.mounts[m] => m \in mounted
  /\ pc \in {"shutdown"} \cup Reporting => mounted = {} \/ "hostfs" \in owned

Chains ==
  /\ pc \in Launching \ FromAwait => \A p \in Config.helios : helios[p] = "off"
  /\ pc \in FromApi /\ Config.registry => helios[AuthPort] = "ready"
  /\ pc \in {"shutdown"} \cup Reporting =>
       (\A p \in Config.helios : helios[p] = "off") \/ "helios" \in owned

Proxies ==
  /\ pc \in Launching => signal = "none"
  /\ pc \in Launching \ FromIngress => \A p \in Ports : proxy[p] = "none"
  /\ pc = "ingress" => k > 0
  /\ pc = "ingress" => \A p \in Ports : proxy[p] = IF p < k THEN "serving" ELSE "none"
  /\ pc \in FromSpawn => \A p \in Ports : proxy[p] = "serving"
  /\ pc \in {"shutdown"} \cup Reporting /\ "ingress" \in owned => signal # "dropped"
  /\ pc \in {"shutdown"} \cup Reporting /\ "ingress" \notin owned /\ signal # "dropped" =>
       \A p \in Ports : proxy[p] = "none"

Outcome ==
  /\ pc \in {"shutdown"} \cup Reporting => result # "none"
  /\ status # "running" => pc = "serving"

Inv == TypeOK /\ Staged /\ Mounts /\ Chains /\ Proxies /\ Outcome

USE DEF FromSpawn, FromIngress, FromAux, FromApi, FromAwait, FromHelios, FromClock, FromEgress,
        Launching, Reporting

\* It holds when launch() begins.
LEMMA InitInv == Init => Inv
<1>. SUFFICES ASSUME Init PROVE Inv
  BY Zenon
<1>1. TypeOK
  <2>1. refresh \in BOOLEAN
    BY Zenon DEF Init
  <2>2. /\ pc \in PCs /\ k \in Nat /\ owned \subseteq Services /\ running \subseteq Config.tasks
        /\ mounted \subseteq DOMAIN Config.mounts
    BY Zenon DEF Init, PCs
  <2>3. /\ helios \in [Config.helios -> {"off", "syncing", "ready", "failed"}]
        /\ proxy \in [Ports -> {"none", "serving", "joining"}]
        /\ conns \in [Ports -> 0 .. MaxConns]
    BY LaunchAssumption DEF Init
  <2>4. /\ signal \in {"none", "sent", "dropped"} /\ child \in {"none", "running", "ended"}
        /\ result \in Results \cup {"none"} /\ status \in Results \cup {"running"}
    BY Zenon DEF Init
  <2>. QED
    BY <2>1, <2>2, <2>3, <2>4, Zenon DEF TypeOK
<1>2. Staged
  BY Zenon DEF Init, Staged, HandedOver, Running
<1>3. Mounts /\ Chains /\ Proxies /\ Outcome
  BY Zenon DEF Init, Mounts, Chains, Proxies, Outcome
<1>. QED
  BY <1>1, <1>2, <1>3, Zenon DEF Inv

\* The services by their turn in the shutdown
LEMMA StopNames ==
  /\ Len(StopOrder) = 7
  /\ \A i \in 1 .. 7 : StopOrder[i] = IF i = 1 THEN "ingress"
                                      ELSE IF i = 2 THEN "aux_api"
                                      ELSE IF i = 3 THEN "capsule_api"
                                      ELSE IF i = 4 THEN "helios"
                                      ELSE IF i = 5 THEN "clock"
                                      ELSE IF i = 6 THEN "egress" ELSE "hostfs"
BY DEF StopOrder

-----------------------------------------------------------------------------
(* One lemma per part *)

\* Every step keeps the types.
LEMMA StepTypes == Inv /\ [Next]_vars => TypeOK'
<1>. SUFFICES ASSUME Inv, [Next]_vars PROVE TypeOK'
  BY Zenon
<1>1. CASE Bootstrap
  BY <1>1 DEF Bootstrap, Inv, TypeOK, Goto, tasks, ingressVars, PCs, Results
<1>2. CASE StartMount
  <2>1. pc' \in PCs /\ k' \in Nat /\ result' \in Results \cup {"none"}
    BY <1>2 DEF StartMount, Inv, TypeOK, Goto, Unwind, ingressVars, PCs, Results
  <2>2. owned' \subseteq Services /\ running' \subseteq Config.tasks
    BY <1>2, Zenon DEF StartMount, Inv, TypeOK, ingressVars
  <2>3. mounted' \subseteq DOMAIN Config.mounts
    <3>1. k <= Len(Config.mounts) => k \in DOMAIN Config.mounts
      BY <1>2 DEF StartMount, Inv, TypeOK, Mounts
    <3>. QED
      BY <1>2, <3>1, Zenon DEF StartMount, Inv, TypeOK
  <2>4. helios' \in [Config.helios -> {"off", "syncing", "ready", "failed"}]
    BY <1>2, Zenon DEF StartMount, Inv, TypeOK, ingressVars
  <2>5. refresh' \in BOOLEAN
    BY <1>2, Zenon DEF StartMount, Inv, TypeOK, ingressVars
  <2>6. /\ proxy' \in [Ports -> {"none", "serving", "joining"}]
        /\ conns' \in [Ports -> 0 .. MaxConns]
    BY <1>2, Zenon DEF StartMount, Inv, TypeOK, ingressVars
  <2>7. /\ signal' \in {"none", "sent", "dropped"} /\ child' \in {"none", "running", "ended"}
        /\ status' \in Results \cup {"running"}
    BY <1>2, Zenon DEF StartMount, Inv, TypeOK, ingressVars
  <2>. QED
    BY <2>1, <2>2, <2>3, <2>4, <2>5, <2>6, <2>7, Zenon DEF TypeOK
<1>3. CASE MountsStarted
  BY <1>3, Zenon DEF MountsStarted, Inv, TypeOK, Goto, tasks, ingressVars, PCs, Services
<1>4. CASE StartEgress
  <2>1. pc' \in PCs /\ k' \in Nat /\ result' \in Results \cup {"none"}
    BY <1>4 DEF StartEgress, Inv, TypeOK, Goto, Unwind, tasks, ingressVars, PCs, Results
  <2>2. owned' \subseteq Services /\ running' \subseteq Config.tasks
    BY <1>4, Zenon DEF StartEgress, Inv, TypeOK, tasks, ingressVars, Services, TaskServices
  <2>3. mounted' \subseteq DOMAIN Config.mounts
    BY <1>4, Zenon DEF StartEgress, Inv, TypeOK, tasks, ingressVars
  <2>4. helios' \in [Config.helios -> {"off", "syncing", "ready", "failed"}]
    BY <1>4, Zenon DEF StartEgress, Inv, TypeOK, tasks, ingressVars
  <2>5. refresh' \in BOOLEAN
    BY <1>4, Zenon DEF StartEgress, Inv, TypeOK, tasks, ingressVars
  <2>6. /\ proxy' \in [Ports -> {"none", "serving", "joining"}]
        /\ conns' \in [Ports -> 0 .. MaxConns]
    BY <1>4, Zenon DEF StartEgress, Inv, TypeOK, tasks, ingressVars
  <2>7. /\ signal' \in {"none", "sent", "dropped"} /\ child' \in {"none", "running", "ended"}
        /\ status' \in Results \cup {"running"}
    BY <1>4, Zenon DEF StartEgress, Inv, TypeOK, tasks, ingressVars
  <2>. QED
    BY <2>1, <2>2, <2>3, <2>4, <2>5, <2>6, <2>7, Zenon DEF TypeOK
<1>5. CASE StartClockSync
  BY <1>5, Zenon
     DEF StartClockSync, Inv, TypeOK, Goto, tasks, ingressVars, PCs, Services, TaskServices
<1>6. CASE StartHelios
  BY <1>6, Zenon DEF StartHelios, Inv, TypeOK, Goto, ingressVars, PCs, Services
<1>7. CASE AwaitHelios
  BY <1>7 DEF AwaitHelios, Inv, TypeOK, Goto, Unwind, tasks, ingressVars, PCs, Results
<1>8. CASE StartCapsuleApi
  <2>1. pc' \in PCs /\ k' \in Nat /\ result' \in Results \cup {"none"}
    <3>1. /\ pc' = "aux_api" \/ pc' = "shutdown"
          /\ k' = 1
          /\ result' = result \/ result' = "fatal"
      BY <1>8, Zenon DEF StartCapsuleApi, Goto, Unwind
    <3>. QED
      BY <3>1, Zenon DEF Inv, TypeOK, PCs, Results
  <2>2. owned' \subseteq Services /\ running' \subseteq Config.tasks
    BY <1>8, Zenon DEF StartCapsuleApi, Inv, TypeOK, tasks, ingressVars
  <2>3. mounted' \subseteq DOMAIN Config.mounts
    BY <1>8, Zenon DEF StartCapsuleApi, Inv, TypeOK, tasks, ingressVars
  <2>4. helios' \in [Config.helios -> {"off", "syncing", "ready", "failed"}]
    BY <1>8, Zenon DEF StartCapsuleApi, Inv, TypeOK, tasks, ingressVars
  <2>5. refresh' \in BOOLEAN
    BY <1>8, LaunchAssumption, Zenon DEF StartCapsuleApi, Inv, tasks, ingressVars
  <2>6. /\ proxy' \in [Ports -> {"none", "serving", "joining"}]
        /\ conns' \in [Ports -> 0 .. MaxConns]
    BY <1>8, Zenon DEF StartCapsuleApi, Inv, TypeOK, tasks, ingressVars
  <2>7. /\ signal' \in {"none", "sent", "dropped"} /\ child' \in {"none", "running", "ended"}
        /\ status' \in Results \cup {"running"}
    BY <1>8, Zenon DEF StartCapsuleApi, Inv, TypeOK, tasks, ingressVars
  <2>. QED
    BY <2>1, <2>2, <2>3, <2>4, <2>5, <2>6, <2>7, Zenon DEF TypeOK
<1>9. CASE StartAuxApi
  <2>1. pc' \in PCs /\ k' \in Nat /\ result' \in Results \cup {"none"}
    BY <1>9 DEF StartAuxApi, Inv, TypeOK, Goto, tasks, ingressVars, PCs
  <2>2. owned' \subseteq Services /\ running' \subseteq Config.tasks
    BY <1>9, Zenon DEF StartAuxApi, Inv, TypeOK, tasks, ingressVars, Services, TaskServices
  <2>3. mounted' \subseteq DOMAIN Config.mounts
    BY <1>9, Zenon DEF StartAuxApi, Inv, TypeOK, tasks, ingressVars
  <2>4. helios' \in [Config.helios -> {"off", "syncing", "ready", "failed"}]
    BY <1>9, Zenon DEF StartAuxApi, Inv, TypeOK, tasks, ingressVars
  <2>5. refresh' \in BOOLEAN
    BY <1>9, Zenon DEF StartAuxApi, Inv, TypeOK, tasks, ingressVars
  <2>6. /\ proxy' \in [Ports -> {"none", "serving", "joining"}]
        /\ conns' \in [Ports -> 0 .. MaxConns]
    BY <1>9, Zenon DEF StartAuxApi, Inv, TypeOK, tasks, ingressVars
  <2>7. /\ signal' \in {"none", "sent", "dropped"} /\ child' \in {"none", "running", "ended"}
        /\ status' \in Results \cup {"running"}
    BY <1>9, Zenon DEF StartAuxApi, Inv, TypeOK, tasks, ingressVars
  <2>. QED
    BY <2>1, <2>2, <2>3, <2>4, <2>5, <2>6, <2>7, Zenon DEF TypeOK
<1>10. CASE Rollback
  BY <1>10, Zenon DEF Rollback, Inv, TypeOK, Goto, Unwind, ingressVars, PCs, Results
<1>11. CASE BindIngress
  BY <1>11 DEF BindIngress, Inv, TypeOK, Goto, Unwind, tasks, PCs, Results
<1>12. CASE IngressStarted
  BY <1>12, Zenon DEF IngressStarted, Inv, TypeOK, Goto, tasks, ingressVars, PCs, Services
<1>13. CASE SpawnChild
  BY <1>13 DEF SpawnChild, Inv, TypeOK, Goto, Unwind, tasks, ingressVars, PCs, Results
<1>14. CASE Reap
  BY <1>14 DEF Reap, Inv, TypeOK, Goto, Unwind, tasks, ingressVars, PCs, Results
<1>15. CASE PassBy
  BY <1>15 DEF PassBy, Inv, TypeOK, tasks, ingressVars
<1>16. CASE StopService
  <2>1. pc' \in PCs /\ k' \in Nat /\ result' \in Results \cup {"none"}
    BY <1>16 DEF StopService, Inv, TypeOK, ingressVars
  <2>2. owned' \subseteq Services /\ running' \subseteq Config.tasks
    BY <1>16, Zenon DEF StopService, Inv, TypeOK, ingressVars
  <2>3. mounted' \subseteq DOMAIN Config.mounts
    BY <1>16, Zenon DEF StopService, Inv, TypeOK, ingressVars
  <2>4. helios' \in [Config.helios -> {"off", "syncing", "ready", "failed"}]
    BY <1>16, Zenon DEF StopService, Inv, TypeOK, ingressVars
  <2>5. refresh' \in BOOLEAN
    BY <1>16, Zenon DEF StopService, Inv, TypeOK, ingressVars
  <2>6. /\ proxy' \in [Ports -> {"none", "serving", "joining"}]
        /\ conns' \in [Ports -> 0 .. MaxConns]
    BY <1>16, Zenon DEF StopService, Inv, TypeOK, ingressVars
  <2>7. /\ signal' \in {"none", "sent", "dropped"} /\ child' \in {"none", "running", "ended"}
        /\ status' \in Results \cup {"running"}
    BY <1>16, Zenon DEF StopService, Inv, TypeOK, ingressVars
  <2>. QED
    BY <2>1, <2>2, <2>3, <2>4, <2>5, <2>6, <2>7, Zenon DEF TypeOK
<1>17. CASE SignalIngress
  BY <1>17, Zenon DEF SignalIngress, Inv, TypeOK, tasks
<1>18. CASE IngressJoined
  BY <1>18 DEF IngressJoined, Inv, TypeOK, tasks, ingressVars
<1>19. CASE ShutdownDone
  BY <1>19, Zenon DEF ShutdownDone, Inv, TypeOK, Goto, tasks, ingressVars, PCs
<1>20. CASE Report
  BY <1>20, Zenon DEF Report, Inv, TypeOK, Outcome, Goto, tasks, ingressVars, PCs
<1>21. ASSUME NEW p \in Config.helios, HeliosSettles(p) PROVE TypeOK'
  BY <1>21, ZenonT(30) DEF HeliosSettles, Inv, TypeOK, ingressVars
<1>22. ASSUME NEW p \in Ports, Accept(p) PROVE TypeOK'
  <2>1. pc' \in PCs /\ k' \in Nat /\ result' \in Results \cup {"none"}
    BY <1>22, Zenon DEF Accept, Inv, TypeOK, tasks
  <2>2. owned' \subseteq Services /\ running' \subseteq Config.tasks
    BY <1>22, Zenon DEF Accept, Inv, TypeOK, tasks
  <2>3. mounted' \subseteq DOMAIN Config.mounts
    BY <1>22, Zenon DEF Accept, Inv, TypeOK, tasks
  <2>4. helios' \in [Config.helios -> {"off", "syncing", "ready", "failed"}]
    BY <1>22, Zenon DEF Accept, Inv, TypeOK, tasks
  <2>5. refresh' \in BOOLEAN
    BY <1>22, Zenon DEF Accept, Inv, TypeOK, tasks
  <2>6. /\ proxy' \in [Ports -> {"none", "serving", "joining"}]
        /\ conns' \in [Ports -> 0 .. MaxConns]
    BY <1>22, LaunchAssumption DEF Accept, Inv, TypeOK, tasks
  <2>7. /\ signal' \in {"none", "sent", "dropped"} /\ child' \in {"none", "running", "ended"}
        /\ status' \in Results \cup {"running"}
    BY <1>22, Zenon DEF Accept, Inv, TypeOK, tasks
  <2>. QED
    BY <2>1, <2>2, <2>3, <2>4, <2>5, <2>6, <2>7, Zenon DEF TypeOK
<1>23. ASSUME NEW p \in Ports, LeaveLoop(p) PROVE TypeOK'
  BY <1>23, Zenon DEF LeaveLoop, Inv, TypeOK, tasks
<1>24. ASSUME NEW p \in Ports, ProxyEnds(p) PROVE TypeOK'
  BY <1>24, Zenon DEF ProxyEnds, Inv, TypeOK, tasks
<1>25. ASSUME NEW p \in Ports, ConnEnds(p) PROVE TypeOK'
  BY <1>25, LaunchAssumption DEF ConnEnds, Inv, TypeOK, tasks, Results
<1>26. CASE UNCHANGED vars
  BY <1>26, Zenon DEF vars, Inv, TypeOK, tasks, ingressVars
<1>. QED
  BY <1>1, <1>2, <1>3, <1>4, <1>5, <1>6, <1>7, <1>8, <1>9, <1>10, <1>11, <1>12, <1>13,
     <1>14, <1>15, <1>16, <1>17, <1>18, <1>19, <1>20, <1>21, <1>22, <1>23, <1>24, <1>25,
     <1>26, Zenon
     DEF Next, Start, Shutdown

\* A result is there before the shutdown begins, and is published after it.
LEMMA StepOutcome == Inv /\ [Next]_vars => Outcome'
<1>. SUFFICES ASSUME Inv, [Next]_vars PROVE Outcome'
  BY Zenon
<1>1. CASE Bootstrap
  BY <1>1, Zenon DEF Bootstrap, Inv, Outcome, Goto, tasks, ingressVars
<1>2. CASE StartMount
  BY <1>2, Zenon DEF StartMount, Inv, Outcome, Unwind, ingressVars
<1>3. CASE MountsStarted
  BY <1>3, Zenon DEF MountsStarted, Inv, Outcome, Goto, tasks, ingressVars
<1>4. CASE StartEgress
  BY <1>4, Zenon DEF StartEgress, Inv, Outcome, Goto, Unwind, tasks, ingressVars
<1>5. CASE StartClockSync
  BY <1>5, Zenon DEF StartClockSync, Inv, Outcome, Goto, tasks, ingressVars
<1>6. CASE StartHelios
  BY <1>6, Zenon DEF StartHelios, Inv, Outcome, Goto, ingressVars
<1>7. CASE AwaitHelios
  BY <1>7, Zenon DEF AwaitHelios, Inv, Outcome, Goto, Unwind, tasks, ingressVars
<1>8. CASE StartCapsuleApi
  BY <1>8, Zenon DEF StartCapsuleApi, Inv, Outcome, Goto, Unwind, tasks, ingressVars
<1>9. CASE StartAuxApi
  BY <1>9, Zenon DEF StartAuxApi, Inv, Outcome, Goto, tasks, ingressVars
<1>10. CASE Rollback
  BY <1>10, Zenon DEF Rollback, Inv, Outcome, Unwind, ingressVars
<1>11. CASE BindIngress
  BY <1>11, Zenon DEF BindIngress, Inv, Outcome, Unwind, tasks
<1>12. CASE IngressStarted
  BY <1>12, Zenon DEF IngressStarted, Inv, Outcome, Goto, tasks, ingressVars
<1>13. CASE SpawnChild
  BY <1>13, Zenon DEF SpawnChild, Inv, Outcome, Goto, Unwind, tasks, ingressVars
<1>14. CASE Reap
  BY <1>14, Zenon DEF Reap, Inv, Outcome, Unwind, tasks, ingressVars
<1>15. CASE PassBy
  BY <1>15, Zenon DEF PassBy, Inv, Outcome, tasks, ingressVars
<1>16. CASE StopService
  BY <1>16, Zenon DEF StopService, Inv, Outcome, ingressVars
<1>17. CASE SignalIngress
  BY <1>17, Zenon DEF SignalIngress, Inv, Outcome, tasks
<1>18. CASE IngressJoined
  BY <1>18, Zenon DEF IngressJoined, Inv, Outcome, tasks, ingressVars
<1>19. CASE ShutdownDone
  BY <1>19, Zenon DEF ShutdownDone, Inv, Outcome, tasks, ingressVars
<1>20. CASE Report
  BY <1>20, Zenon DEF Report, Inv, Outcome, Goto, tasks, ingressVars
<1>21. ASSUME NEW p \in Config.helios, HeliosSettles(p) PROVE Outcome'
  BY <1>21, Zenon DEF HeliosSettles, Inv, Outcome, ingressVars
<1>22. ASSUME NEW p \in Ports, Accept(p) PROVE Outcome'
  BY <1>22, Zenon DEF Accept, Inv, Outcome, tasks
<1>23. ASSUME NEW p \in Ports, LeaveLoop(p) PROVE Outcome'
  BY <1>23, Zenon DEF LeaveLoop, Inv, Outcome, tasks
<1>24. ASSUME NEW p \in Ports, ProxyEnds(p) PROVE Outcome'
  BY <1>24, Zenon DEF ProxyEnds, Inv, Outcome, tasks
<1>25. ASSUME NEW p \in Ports, ConnEnds(p) PROVE Outcome'
  BY <1>25, Zenon DEF ConnEnds, Inv, Outcome, tasks
<1>26. CASE UNCHANGED vars
  BY <1>26, Zenon DEF vars, Inv, Outcome, tasks, ingressVars
<1>. QED
  BY <1>1, <1>2, <1>3, <1>4, <1>5, <1>6, <1>7, <1>8, <1>9, <1>10, <1>11, <1>12, <1>13,
     <1>14, <1>15, <1>16, <1>17, <1>18, <1>19, <1>20, <1>21, <1>22, <1>23, <1>24, <1>25,
     <1>26, Zenon
     DEF Next, Start, Shutdown

\* The mounts stay until the shutdown drops them; one that fails drops the others.
LEMMA StepMounts == Inv /\ [Next]_vars => Mounts'
<1>. SUFFICES ASSUME Inv, [Next]_vars PROVE Mounts'
  BY Zenon
<1>1. CASE Bootstrap
  BY <1>1, LaunchAssumption DEF Bootstrap, Inv, Mounts, Goto, tasks, ingressVars
<1>2. CASE StartMount
  BY <1>2 DEF StartMount, Inv, TypeOK, Mounts, Goto, Unwind, ingressVars
<1>3. CASE MountsStarted
  BY <1>3 DEF MountsStarted, Inv, TypeOK, Mounts, Goto, tasks, ingressVars
<1>4. CASE StartEgress
  BY <1>4, Zenon DEF StartEgress, Inv, Mounts, Staged, HandedOver, Goto, Unwind, tasks, ingressVars
<1>5. CASE StartClockSync
  BY <1>5, Zenon DEF StartClockSync, Inv, Mounts, Goto, tasks, ingressVars
<1>6. CASE StartHelios
  BY <1>6, Zenon DEF StartHelios, Inv, Mounts, Goto, ingressVars
<1>7. CASE AwaitHelios
  BY <1>7, Zenon DEF AwaitHelios, Inv, Mounts, Staged, HandedOver, Goto, Unwind, tasks, ingressVars
<1>8. CASE StartCapsuleApi
  BY <1>8, ZenonT(30)
     DEF StartCapsuleApi, Inv, Mounts, Staged, HandedOver, Goto, Unwind, tasks, ingressVars
<1>9. CASE StartAuxApi
  BY <1>9, Zenon DEF StartAuxApi, Inv, Mounts, Goto, tasks, ingressVars
<1>10. CASE Rollback
  BY <1>10, Zenon DEF Rollback, Inv, Mounts, Staged, HandedOver, Goto, Unwind, ingressVars
<1>11. CASE BindIngress
  BY <1>11, Zenon DEF BindIngress, Inv, Mounts, Staged, HandedOver, Goto, Unwind, tasks
<1>12. CASE IngressStarted
  BY <1>12, Zenon DEF IngressStarted, Inv, Mounts, Goto, tasks, ingressVars
<1>13. CASE SpawnChild
  BY <1>13, Zenon DEF SpawnChild, Inv, Mounts, Staged, HandedOver, Goto, Unwind, tasks, ingressVars
<1>14. CASE Reap
  BY <1>14, Zenon DEF Reap, Inv, Mounts, Staged, HandedOver, Goto, Unwind, tasks, ingressVars
<1>15. CASE PassBy
  BY <1>15, StopNames, Zenon DEF PassBy, Inv, Mounts, tasks, ingressVars
<1>16. CASE StopService
  BY <1>16, StopNames, Zenon DEF StopService, Inv, Mounts, ingressVars
<1>17. CASE SignalIngress
  BY <1>17, StopNames, Zenon DEF SignalIngress, Inv, Mounts, tasks
<1>18. CASE IngressJoined
  BY <1>18, StopNames, Zenon DEF IngressJoined, Inv, Mounts, tasks, ingressVars
<1>19. CASE ShutdownDone
  BY <1>19, StopNames, Zenon DEF ShutdownDone, Inv, Mounts, Goto, tasks, ingressVars
<1>20. CASE Report
  BY <1>20, Zenon DEF Report, Inv, Mounts, Goto, tasks, ingressVars
<1>21. ASSUME NEW p \in Config.helios, HeliosSettles(p) PROVE Mounts'
  BY <1>21, Zenon DEF HeliosSettles, Inv, Mounts, ingressVars
<1>22. ASSUME NEW p \in Ports, Accept(p) PROVE Mounts'
  BY <1>22, Zenon DEF Accept, Inv, Mounts, tasks
<1>23. ASSUME NEW p \in Ports, LeaveLoop(p) PROVE Mounts'
  BY <1>23, Zenon DEF LeaveLoop, Inv, Mounts, tasks
<1>24. ASSUME NEW p \in Ports, ProxyEnds(p) PROVE Mounts'
  BY <1>24, Zenon DEF ProxyEnds, Inv, Mounts, tasks
<1>25. ASSUME NEW p \in Ports, ConnEnds(p) PROVE Mounts'
  BY <1>25, Zenon DEF ConnEnds, Inv, Mounts, tasks
<1>26. CASE UNCHANGED vars
  BY <1>26, Zenon DEF vars, Inv, Mounts, tasks, ingressVars
<1>. QED
  BY <1>1, <1>2, <1>3, <1>4, <1>5, <1>6, <1>7, <1>8, <1>9, <1>10, <1>11, <1>12, <1>13,
     <1>14, <1>15, <1>16, <1>17, <1>18, <1>19, <1>20, <1>21, <1>22, <1>23, <1>24, <1>25,
     <1>26, Zenon
     DEF Next, Start, Shutdown

\* The chains run from their start to their stop; the one KMS needs has synced.
LEMMA StepChains == Inv /\ [Next]_vars => Chains'
<1>. SUFFICES ASSUME Inv, [Next]_vars PROVE Chains'
  BY Zenon
<1>1. CASE Bootstrap
  BY <1>1, Zenon DEF Bootstrap, Inv, Chains, Goto, tasks, ingressVars
<1>2. CASE StartMount
  BY <1>2, Zenon DEF StartMount, Inv, Chains, Goto, Unwind, ingressVars
<1>3. CASE MountsStarted
  BY <1>3, Zenon DEF MountsStarted, Inv, Chains, Goto, tasks, ingressVars
<1>4. CASE StartEgress
  BY <1>4, Zenon DEF StartEgress, Inv, Chains, Goto, Unwind, tasks, ingressVars
<1>5. CASE StartClockSync
  BY <1>5, Zenon DEF StartClockSync, Inv, Chains, Goto, tasks, ingressVars
<1>6. CASE StartHelios
  BY <1>6, Zenon DEF StartHelios, Inv, Chains, Goto, ingressVars
<1>7. CASE AwaitHelios
  BY <1>7, Zenon
     DEF AwaitHelios, Inv, Chains, Staged, HandedOver, Goto, Unwind, tasks, ingressVars,
         HeliosReady
<1>8. CASE StartCapsuleApi
  BY <1>8, ZenonT(30)
     DEF StartCapsuleApi, Inv, Chains, Staged, HandedOver, Goto, Unwind, tasks, ingressVars
<1>9. CASE StartAuxApi
  BY <1>9, Zenon DEF StartAuxApi, Inv, Chains, Goto, tasks, ingressVars
<1>10. CASE Rollback
  BY <1>10, Zenon DEF Rollback, Inv, Chains, Staged, HandedOver, Goto, Unwind, ingressVars
<1>11. CASE BindIngress
  BY <1>11, Zenon DEF BindIngress, Inv, Chains, Staged, HandedOver, Goto, Unwind, tasks
<1>12. CASE IngressStarted
  BY <1>12, Zenon DEF IngressStarted, Inv, Chains, Goto, tasks, ingressVars
<1>13. CASE SpawnChild
  BY <1>13, Zenon DEF SpawnChild, Inv, Chains, Staged, HandedOver, Goto, Unwind, tasks, ingressVars
<1>14. CASE Reap
  BY <1>14, Zenon DEF Reap, Inv, Chains, Staged, HandedOver, Goto, Unwind, tasks, ingressVars
<1>15. CASE PassBy
  BY <1>15, StopNames, Zenon DEF PassBy, Inv, Chains, tasks, ingressVars
<1>16. CASE StopService
  BY <1>16, StopNames, Zenon DEF StopService, Inv, Chains, ingressVars
<1>17. CASE SignalIngress
  BY <1>17, StopNames, Zenon DEF SignalIngress, Inv, Chains, tasks
<1>18. CASE IngressJoined
  BY <1>18, StopNames, Zenon DEF IngressJoined, Inv, Chains, tasks, ingressVars
<1>19. CASE ShutdownDone
  BY <1>19, StopNames, Zenon DEF ShutdownDone, Inv, Chains, Goto, tasks, ingressVars
<1>20. CASE Report
  BY <1>20, Zenon DEF Report, Inv, Chains, Goto, tasks, ingressVars
<1>21. ASSUME NEW p \in Config.helios, HeliosSettles(p) PROVE Chains'
  BY <1>21 DEF HeliosSettles, Inv, Chains, ingressVars
<1>22. ASSUME NEW p \in Ports, Accept(p) PROVE Chains'
  BY <1>22, Zenon DEF Accept, Inv, Chains, tasks
<1>23. ASSUME NEW p \in Ports, LeaveLoop(p) PROVE Chains'
  BY <1>23, Zenon DEF LeaveLoop, Inv, Chains, tasks
<1>24. ASSUME NEW p \in Ports, ProxyEnds(p) PROVE Chains'
  BY <1>24, Zenon DEF ProxyEnds, Inv, Chains, tasks
<1>25. ASSUME NEW p \in Ports, ConnEnds(p) PROVE Chains'
  BY <1>25, Zenon DEF ConnEnds, Inv, Chains, tasks
<1>26. CASE UNCHANGED vars
  BY <1>26, Zenon DEF vars, Inv, Chains, tasks, ingressVars
<1>. QED
  BY <1>1, <1>2, <1>3, <1>4, <1>5, <1>6, <1>7, <1>8, <1>9, <1>10, <1>11, <1>12, <1>13,
     <1>14, <1>15, <1>16, <1>17, <1>18, <1>19, <1>20, <1>21, <1>22, <1>23, <1>24, <1>25,
     <1>26, Zenon
     DEF Next, Start, Shutdown

\* The ingress proxies are bound in turn, and end before ingress is given up unless
\* the sender is dropped.
LEMMA StepProxies == Inv /\ [Next]_vars => Proxies'
<1>. SUFFICES ASSUME Inv, [Next]_vars PROVE Proxies'
  BY Zenon
<1>1. CASE Bootstrap
  BY <1>1, Zenon DEF Bootstrap, Inv, Proxies, Goto, tasks, ingressVars
<1>2. CASE StartMount
  BY <1>2, Zenon DEF StartMount, Inv, Proxies, Goto, Unwind, ingressVars
<1>3. CASE MountsStarted
  BY <1>3, Zenon DEF MountsStarted, Inv, Proxies, Goto, tasks, ingressVars
<1>4. CASE StartEgress
  BY <1>4, Zenon DEF StartEgress, Inv, Proxies, Goto, Unwind, tasks, ingressVars
<1>5. CASE StartClockSync
  BY <1>5, Zenon DEF StartClockSync, Inv, Proxies, Goto, tasks, ingressVars
<1>6. CASE StartHelios
  BY <1>6, Zenon DEF StartHelios, Inv, Proxies, Goto, ingressVars
<1>7. CASE AwaitHelios
  BY <1>7, Zenon DEF AwaitHelios, Inv, Proxies, Goto, Unwind, tasks, ingressVars
<1>8. CASE StartCapsuleApi
  BY <1>8, Zenon DEF StartCapsuleApi, Inv, Proxies, Goto, Unwind, tasks, ingressVars
<1>9. CASE StartAuxApi
  BY <1>9 DEF StartAuxApi, Inv, Proxies, Goto, tasks, ingressVars, Ports
<1>10. CASE Rollback
  BY <1>10, Zenon DEF Rollback, Inv, Proxies, Goto, Unwind, ingressVars
<1>11. CASE BindIngress
  BY <1>11, LaunchAssumption
     DEF BindIngress, Inv, TypeOK, Proxies, Staged, HandedOver, Goto, Unwind, tasks
<1>12. CASE IngressStarted
  <2>1. /\ pc = "ingress" /\ k \notin Ports /\ k \in Nat /\ k > 0
        /\ \A p \in Ports : proxy[p] = IF p < k THEN "serving" ELSE "none"
    BY <1>12, Zenon DEF IngressStarted, Inv, TypeOK, Proxies
  <2>2. \A p \in Ports : p < k
    BY <2>1, LaunchAssumption DEF Ports
  <2>3. \A p \in Ports : proxy'[p] = "serving"
    BY <1>12, <2>1, <2>2, Zenon DEF IngressStarted, ingressVars
  <2>4. pc' = "spawn" /\ signal' = signal /\ signal = "none"
    BY <1>12, <2>1, Zenon DEF IngressStarted, Goto, ingressVars, Inv, Proxies
  <2>. QED
    BY <2>3, <2>4, Zenon DEF Proxies
<1>13. CASE SpawnChild
  BY <1>13, Zenon
     DEF SpawnChild, Inv, Proxies, Staged, HandedOver, Goto, Unwind, tasks, ingressVars
<1>14. CASE Reap
  BY <1>14, Zenon DEF Reap, Inv, Proxies, Staged, HandedOver, Goto, Unwind, tasks, ingressVars
<1>15. CASE PassBy
  BY <1>15, StopNames, Zenon DEF PassBy, Inv, Proxies, tasks, ingressVars
<1>16. CASE StopService
  BY <1>16, StopNames, Zenon DEF StopService, Inv, Proxies, ingressVars
<1>17. CASE SignalIngress
  BY <1>17, StopNames, Zenon DEF SignalIngress, Inv, Proxies, tasks
<1>18. CASE IngressJoined
  BY <1>18, StopNames, Zenon DEF IngressJoined, Inv, Proxies, tasks, ingressVars
<1>19. CASE ShutdownDone
  BY <1>19, StopNames, Zenon DEF ShutdownDone, Inv, Proxies, Goto, tasks, ingressVars
<1>20. CASE Report
  BY <1>20, Zenon DEF Report, Inv, Proxies, Goto, tasks, ingressVars
<1>21. ASSUME NEW p \in Config.helios, HeliosSettles(p) PROVE Proxies'
  BY <1>21, Zenon DEF HeliosSettles, Inv, Proxies, ingressVars
<1>22. ASSUME NEW p \in Ports, Accept(p) PROVE Proxies'
  BY <1>22, Zenon DEF Accept, Inv, Proxies, tasks
<1>23. ASSUME NEW p \in Ports, LeaveLoop(p) PROVE Proxies'
  BY <1>23, Zenon DEF LeaveLoop, Inv, Proxies, tasks
<1>24. ASSUME NEW p \in Ports, ProxyEnds(p) PROVE Proxies'
  BY <1>24, Zenon DEF ProxyEnds, Inv, Proxies, tasks
<1>25. ASSUME NEW p \in Ports, ConnEnds(p) PROVE Proxies'
  BY <1>25, Zenon DEF ConnEnds, Inv, Proxies, tasks
<1>26. CASE UNCHANGED vars
  BY <1>26, Zenon DEF vars, Inv, Proxies, tasks, ingressVars
<1>. QED
  BY <1>1, <1>2, <1>3, <1>4, <1>5, <1>6, <1>7, <1>8, <1>9, <1>10, <1>11, <1>12, <1>13,
     <1>14, <1>15, <1>16, <1>17, <1>18, <1>19, <1>20, <1>21, <1>22, <1>23, <1>24, <1>25,
     <1>26, Zenon
     DEF Next, Start, Shutdown

\* Nothing is owned, or runs, when no service by name is owned and only owned ones run.
LEMMA NoneLeft ==
  ASSUME owned \subseteq Services, running \subseteq owned,
         "hostfs" \notin owned, "egress" \notin owned, "clock" \notin owned, "helios" \notin owned,
         "capsule_api" \notin owned, "aux_api" \notin owned, "ingress" \notin owned
  PROVE  owned = {} /\ running = {}
BY Zenon DEF Services, TaskServices

\* The first start that fails finds the services in an order in which they can be
\* stopped: what runs is owned, but for the Capsule API between its start and that of
\* the Aux API, which the rollback stops.
LEMMA UnwindStaged ==
  ASSUME Inv, pc \in Launching, pc' = "shutdown", k' = 1, owned' = owned,
         \/ pc \notin {"aux_api", "rollback"} /\ running' = running
         \/ pc = "rollback" /\ running' = running \ {"capsule_api"}
  PROVE  Staged'
<1>1. HandedOver /\ Running /\ running \subseteq TaskServices
  BY LaunchAssumption, Zenon DEF Inv, TypeOK, Staged
<1>2. Passed'
  BY DEF Passed
<1>3. running' \subseteq owned'
  BY <1>1, ZenonT(30) DEF HandedOver, Running, TaskServices
<1>4. ("aux_api" \in running => "capsule_api" \in running)'
  BY <1>1, LaunchAssumption, Zenon DEF Running, CrossConstraints
<1>5. ASSUME "ingress" \in owned'
      PROVE  Config.tasks \subseteq running' /\ {"hostfs", "helios"} \subseteq owned'
  <2>1. pc \in FromSpawn
    BY <1>1, <1>5, Zenon DEF HandedOver
  <2>. QED
    BY <2>1, <1>1, LaunchAssumption, ZenonT(30) DEF HandedOver, Running, TaskServices
<1>. QED
  BY <1>2, <1>3, <1>4, <1>5 DEF Staged

\* The services are handed over in the order of their starts and stopped in reverse.
LEMMA StepStaged == Inv /\ [Next]_vars => Staged'
<1>. SUFFICES ASSUME Inv, [Next]_vars PROVE Staged'
  BY Zenon
<1>1. CASE Bootstrap
  <2>1. HandedOver /\ Running /\ running \subseteq TaskServices /\ owned \subseteq Services
    BY <1>1, LaunchAssumption, Zenon DEF Bootstrap, Inv, TypeOK, Staged
  <2>2. owned = {} /\ running = {}
    <3>1. running \subseteq owned
      BY <1>1, <2>1, Zenon DEF Bootstrap, Running, TaskServices
    <3>. QED
      BY <1>1, <2>1, <3>1, NoneLeft, Zenon DEF Bootstrap, HandedOver
  <2>. QED
    BY <1>1, <2>2, Zenon DEF Bootstrap, Staged, HandedOver, Running, Goto, tasks
<1>2. CASE StartMount
  <2>1. CASE Unwind
    BY <1>2, <2>1, UnwindStaged, Zenon DEF StartMount, Unwind, Goto
  <2>2. CASE pc' = "hostfs"
    BY <1>2, <2>2, Zenon DEF StartMount, Inv, Staged, HandedOver, Running
  <2>. QED
    BY <1>2, <2>1, <2>2, Zenon DEF StartMount
<1>3. CASE MountsStarted
  BY <1>3, Zenon DEF MountsStarted, Inv, Staged, HandedOver, Running, Goto, tasks, ingressVars
<1>4. CASE StartEgress
  <2>1. CASE Unwind
    BY <1>4, <2>1, UnwindStaged, Zenon DEF StartEgress, Unwind, Goto, tasks
  <2>2. CASE pc' = "clock"
    BY <1>4, <2>2, Zenon DEF StartEgress, Inv, Staged, HandedOver, Running, Goto, Unwind, tasks
  <2>. QED
    BY <1>4, <2>1, <2>2, Zenon DEF StartEgress, Goto
<1>5. CASE StartClockSync
  BY <1>5, Zenon DEF StartClockSync, Inv, Staged, HandedOver, Running, Goto, tasks, ingressVars
<1>6. CASE StartHelios
  BY <1>6, Zenon DEF StartHelios, Inv, Staged, HandedOver, Running, Goto, ingressVars
<1>7. CASE AwaitHelios
  <2>1. CASE Unwind
    BY <1>7, <2>1, UnwindStaged, Zenon DEF AwaitHelios, Unwind, Goto, tasks
  <2>2. CASE pc' = "capsule_api"
    BY <1>7, <2>2, Zenon DEF AwaitHelios, Inv, Staged, HandedOver, Running, tasks
  <2>. QED
    BY <1>7, <2>1, <2>2, Zenon DEF AwaitHelios, Goto
<1>8. CASE StartCapsuleApi
  <2>1. CASE Unwind
    BY <1>8, <2>1, UnwindStaged, Zenon DEF StartCapsuleApi, Unwind, Goto, tasks
  <2>2. CASE pc' = "aux_api"
    BY <1>8, <2>2, Zenon DEF StartCapsuleApi, Inv, Staged, HandedOver, Running, Goto, Unwind, tasks
  <2>. QED
    BY <1>8, <2>1, <2>2, Zenon DEF StartCapsuleApi, Goto
<1>9. CASE StartAuxApi
  BY <1>9, Zenon DEF StartAuxApi, Inv, Staged, HandedOver, Running, Goto, tasks, ingressVars
<1>10. CASE Rollback
  BY <1>10, UnwindStaged, Zenon DEF Rollback, Unwind, Goto
<1>11. CASE BindIngress
  BY <1>11, LaunchAssumption, SMTT(30)
     DEF BindIngress, Inv, TypeOK, Staged, HandedOver, Running, Passed, Goto, Unwind, tasks,
         TaskServices, CrossConstraints
<1>12. CASE IngressStarted
  BY <1>12, Zenon DEF IngressStarted, Inv, Staged, HandedOver, Running, Goto, tasks, ingressVars
<1>13. CASE SpawnChild
  <2>1. CASE Unwind
    BY <1>13, <2>1, UnwindStaged, Zenon DEF SpawnChild, Unwind, Goto, tasks
  <2>2. CASE pc' = "reap"
    BY <1>13, <2>2, Zenon DEF SpawnChild, Inv, Staged, HandedOver, Running, tasks
  <2>. QED
    BY <1>13, <2>1, <2>2, Zenon DEF SpawnChild, Goto
<1>14. CASE Reap
  BY <1>14, UnwindStaged, Zenon DEF Reap, Unwind, Goto, tasks
<1>15. CASE PassBy
  BY <1>15, StopNames, SMTT(30) DEF PassBy, Inv, Staged, Passed, tasks, ingressVars
<1>16. CASE StopService
  BY <1>16, StopNames, SMTT(30) DEF StopService, Inv, Staged, Passed, ingressVars
<1>17. CASE SignalIngress
  BY <1>17, StopNames, Zenon DEF SignalIngress, Inv, Staged, Passed, tasks
<1>18. CASE IngressJoined
  BY <1>18, LaunchAssumption, StopNames, SMTT(30)
     DEF IngressJoined, Inv, TypeOK, Staged, Passed, tasks, ingressVars, Services,
         TaskServices, CrossConstraints
<1>19. CASE ShutdownDone
  <2>1. owned \subseteq Services /\ running \subseteq owned /\ Passed /\ k = 8
    BY <1>19, StopNames DEF ShutdownDone, Inv, TypeOK, Staged
  <2>2. owned = {} /\ running = {}
    BY <2>1, NoneLeft DEF Passed
  <2>. QED
    BY <1>19, <2>2, Zenon DEF ShutdownDone, Staged, Goto, tasks
<1>20. CASE Report
  BY <1>20, Zenon DEF Report, Inv, Staged, Goto, tasks, ingressVars
<1>21. ASSUME NEW p \in Config.helios, HeliosSettles(p) PROVE Staged'
  BY <1>21, ZenonT(30) DEF HeliosSettles, Inv, Staged, HandedOver, Running, Passed, ingressVars
<1>22. ASSUME NEW p \in Ports, Accept(p) PROVE Staged'
  BY <1>22, ZenonT(30) DEF Accept, Inv, Staged, HandedOver, Running, Passed, tasks
<1>23. ASSUME NEW p \in Ports, LeaveLoop(p) PROVE Staged'
  BY <1>23, ZenonT(30) DEF LeaveLoop, Inv, Staged, HandedOver, Running, Passed, tasks
<1>24. ASSUME NEW p \in Ports, ProxyEnds(p) PROVE Staged'
  BY <1>24, ZenonT(30) DEF ProxyEnds, Inv, Staged, HandedOver, Running, Passed, tasks
<1>25. ASSUME NEW p \in Ports, ConnEnds(p) PROVE Staged'
  BY <1>25, ZenonT(30) DEF ConnEnds, Inv, Staged, HandedOver, Running, Passed, tasks
<1>26. CASE UNCHANGED vars
  BY <1>26, ZenonT(30) DEF vars, Inv, Staged, HandedOver, Running, Passed, tasks, ingressVars
<1>. QED
  BY <1>1, <1>2, <1>3, <1>4, <1>5, <1>6, <1>7, <1>8, <1>9, <1>10, <1>11, <1>12, <1>13,
     <1>14, <1>15, <1>16, <1>17, <1>18, <1>19, <1>20, <1>21, <1>22, <1>23, <1>24, <1>25,
     <1>26, Zenon
     DEF Next, Start, Shutdown

-----------------------------------------------------------------------------
(* The theorems *)

\* The invariant holds of every behaviour of launch() and of the tasks beside it.
LEMMA Invariance == Spec => []Inv
<1>1. Inv /\ [Next]_vars => Inv'
  BY StepTypes, StepStaged, StepMounts, StepChains, StepProxies, StepOutcome, Zenon DEF Inv
<1>. QED
  BY InitInv, <1>1, PTL DEF Spec

\* The variables keep their types: no mount, chain or port but those of the manifest.
THEOREM TypeCorrect == Spec => []TypeOK
<1>1. Inv => TypeOK
  BY Zenon DEF Inv
<1>. QED
  BY Invariance, <1>1, PTL

\* For every manifest, as long as an ingress proxy accepts or carries connections all
\* the services are there, and the Aux API never runs without the Capsule API
\* (StartedServices::shutdown, start_capsule_api_stack).
THEOREM IngressFrontsServices == Spec => []ServicesBehindIngress
<1>1. Inv => ServicesBehindIngress
  <2>. SUFFICES ASSUME Inv PROVE ServicesBehindIngress
    BY Zenon
  <2>1. pc \in Launching \/ pc = "shutdown" \/ pc \in Reporting
    BY Zenon DEF Inv, TypeOK, PCs
  <2>2. "aux_api" \in running => "capsule_api" \in running
    BY <2>1, LaunchAssumption, Zenon DEF Inv, Staged, Running, CrossConstraints
  <2>3. ASSUME NEW p \in Ports, proxy[p] # "none", signal # "dropped"
        PROVE  Config.tasks \subseteq running /\ {"hostfs", "helios"} \subseteq owned
    <3>1. CASE pc \in Launching
      <4>1. pc \in FromIngress
        BY <2>3, <3>1, Zenon DEF Inv, Proxies
      <4>. QED
        BY <4>1, LaunchAssumption, Zenon DEF Inv, Staged, HandedOver, Running, TaskServices
    <3>2. CASE pc = "shutdown"
      BY <2>3, <3>2, Zenon DEF Inv, Proxies, Staged
    <3>3. CASE pc \in Reporting
      BY <2>3, <3>3, Zenon DEF Inv, Proxies, Staged
    <3>. QED
      BY <2>1, <3>1, <3>2, <3>3, Zenon
  <2>. QED
    BY <2>2, <2>3, Zenon DEF ServicesBehindIngress
<1>. QED
  BY Invariance, <1>1, PTL

\* For every manifest, the application runs only when what the manifest asks for is in
\* place (launch()).
THEOREM AppFindsAll == Spec => []AppStartsComplete
<1>1. Inv => AppStartsComplete
  <2>. SUFFICES ASSUME Inv, pc = "reap" PROVE AppStartsComplete
    BY Zenon DEF AppStartsComplete
  <2>1. running = Config.tasks
    <3>1. running \subseteq Config.tasks /\ Running
      BY Zenon DEF Inv, TypeOK, Staged
    <3>2. Config.tasks \subseteq running
      BY <3>1, LaunchAssumption, Zenon DEF Running, TaskServices
    <3>. QED
      BY <3>1, <3>2, Zenon
  <2>. QED
    BY <2>1, Zenon DEF Inv, Mounts, Chains, Proxies, AppStartsComplete
<1>. QED
  BY Invariance, <1>1, PTL

\* For every manifest and whichever start fails, a result is published only when the
\* services are down and the mounts are gone (run(), StartedServices::shutdown).
THEOREM ShutdownBeforeReport == Spec => []ReportedAfterShutdown
<1>1. Inv => ReportedAfterShutdown
  BY Zenon DEF Inv, Staged, Mounts, Chains, Proxies, Outcome, ReportedAfterShutdown
<1>. QED
  BY Invariance, <1>1, PTL
=============================================================================
