--------------------------- MODULE HostRunProofs ---------------------------
(***************************************************************************)
(* Proofs about HostRun, for any number of instances, any manifests, any   *)
(* port layout that satisfies LayoutAssumption and any retry limits.       *)
(***************************************************************************)
EXTENDS HostRun, TLAPS

(***************************************************************************)
(* The port layout                                                         *)
(***************************************************************************)

\* A port of runtime_vsock.rs determines the CID and the offset it was
\* derived from: the blocks of different CIDs do not overlap.
LEMMA PortInjective ==
  ASSUME NEW c \in ManagedCids, NEW d \in ManagedCids,
         NEW o \in 0 .. (PortStride - 1), NEW p \in 0 .. (PortStride - 1),
         Port(c, o) = Port(d, p)
  PROVE  c = d /\ o = p
<1>1. c \in Nat /\ d \in Nat /\ PortStride \in Nat /\ PortBase \in Nat
  BY LayoutAssumption DEF ManagedCids
<1>2. c * PortStride + o = d * PortStride + p
  BY <1>1 DEF Port, RuntimeBlockBase
<1>3. ASSUME NEW a \in Nat, NEW b \in Nat, a < b
      PROVE  a * PortStride + PortStride <= b * PortStride
  <2>1. PICK k \in Nat : b = a + 1 + k
    <3>1. b - a - 1 \in Nat /\ b = a + 1 + (b - a - 1)
      BY <1>3
    <3> QED BY <3>1, Zenon
  <2>2. b * PortStride = a * PortStride + PortStride + k * PortStride
    BY <1>1, <2>1
  <2>3. k * PortStride \in Nat
    BY <1>1, <2>1
  <2> QED BY <1>1, <2>2, <2>3
<1>4. c = d
  <2>1. CASE c < d
    BY <1>1, <1>2, <1>3, <2>1
  <2>2. CASE d < c
    BY <1>1, <1>2, <1>3, <2>2
  <2> QED BY <1>1, <2>1, <2>2
<1> QED BY <1>1, <1>2, <1>4

\* Every managed CID has a block within u32, and every mount slot of it lies in
\* the block, beyond the egress and clock sync ports: for_cid never fails on an
\* allocated CID, and hostfs_mount_port fails only for lack of a slot.
THEOREM ManagedRangeFits ==
  \A c \in ManagedCids :
    /\ ForCidOk(c)
    /\ EgressPort(c) \in Block(c) /\ ClockSyncPort(c) \in Block(c)
    /\ \A k \in 0 .. (HostfsCapacity - 1) :
         /\ HostfsMountPortOk(c, k)
         /\ HostfsMountPort(c, k) \in Block(c)
         /\ HostfsMountPort(c, k) \notin {EgressPort(c), ClockSyncPort(c)}
<1> SUFFICES ASSUME NEW c \in ManagedCids
             PROVE  /\ ForCidOk(c)
                    /\ EgressPort(c) \in Block(c) /\ ClockSyncPort(c) \in Block(c)
                    /\ \A k \in 0 .. (HostfsCapacity - 1) :
                         /\ HostfsMountPortOk(c, k)
                         /\ HostfsMountPort(c, k) \in Block(c)
                         /\ HostfsMountPort(c, k) \notin {EgressPort(c), ClockSyncPort(c)}
  BY Zenon
<1> DEFINE base == c * PortStride
<1>1. c \in Nat /\ 4 <= c /\ c <= ManagedCidEnd
  BY LayoutAssumption DEF ManagedCids
<1>2. base \in Nat /\ base <= ManagedCidEnd * PortStride
  <2>1. ManagedCidEnd - c \in Nat /\ ManagedCidEnd \in Nat /\ PortStride \in Nat
    BY <1>1, LayoutAssumption
  <2>2. (ManagedCidEnd - c) * PortStride \in Nat
    BY <2>1
  <2>3. ManagedCidEnd * PortStride = c * PortStride + (ManagedCidEnd - c) * PortStride
    BY <2>1, <1>1
  <2>4. base \in Nat
    BY <1>1, <2>1
  <2> QED BY <2>2, <2>3, <2>4
<1>3. ManagedCidEnd * PortStride \in Nat
  BY LayoutAssumption
<1> HIDE DEF base
<1>4. PortBase + base + PortStride <= U32Max
  BY <1>2, <1>3, LayoutAssumption
<1>5. RuntimeBlockBase(c) = PortBase + base
  BY Zenon DEF RuntimeBlockBase, base
<1>6. RuntimeBlockFits(c)
  BY <1>2, <1>4, <1>5, LayoutAssumption DEF RuntimeBlockFits, base
<1>7. ForCidOk(c)
  BY <1>1, <1>2, <1>4, <1>5, <1>6, LayoutAssumption
     DEF ForCidOk, ValidEnclaveCid, EgressPort, ClockSyncPort, Port
<1>8. EgressPort(c) \in Block(c) /\ ClockSyncPort(c) \in Block(c)
  BY <1>2, <1>5, LayoutAssumption DEF EgressPort, ClockSyncPort, Port, Block
<1>9. ASSUME NEW k \in 0 .. (HostfsCapacity - 1)
      PROVE  /\ HostfsMountPortOk(c, k)
             /\ HostfsMountPort(c, k) \in Block(c)
             /\ HostfsMountPort(c, k) \notin {EgressPort(c), ClockSyncPort(c)}
  BY <1>2, <1>4, <1>5, LayoutAssumption
     DEF HostfsMountPortOk, HostfsMountPort, EgressPort, ClockSyncPort, Port, Block
<1> QED BY <1>7, <1>8, <1>9, Zenon

\* Every derived port is a number, also for a CID that was not allocated yet.
LEMMA PortType ==
  ASSUME NEW c \in ManagedCids \cup {NoCid}, NEW k \in Nat
  PROVE  /\ EgressPort(c) \in Nat
         /\ ClockSyncPort(c) \in Nat
         /\ HostfsMountPort(c, k) \in Nat
<1>1. c \in Nat
  BY LayoutAssumption DEF ManagedCids, NoCid
<1>2. c * PortStride \in Nat
  BY <1>1, LayoutAssumption
<1>3. RuntimeBlockBase(c) \in Nat
  BY <1>2, LayoutAssumption DEF RuntimeBlockBase
<1> QED BY <1>3, LayoutAssumption DEF EgressPort, ClockSyncPort, HostfsMountPort, Port

(***************************************************************************)
(* Type correctness                                                        *)
(***************************************************************************)

\* Both retry limits allow an attempt.
LEMMA Limits == BindRetryLimit \in Nat \ {0} /\ ConflictRetryLimit \in Nat \ {0}
BY HostRunAssumption, Zenon

\* The places and outcomes by name
LEMMA Labels ==
  /\ {"budget", "select", "abort", "egress", "hostfs", "clock", "start",
      "console", "ingress", "await", "cleanup", "done", "crashed"} \subseteq PCs
  /\ {"none", "retry", "conflict", "exited", "cancelled", "error"} \subseteq Outcomes
BY Zenon DEF PCs, Binding, Reserved, Finished, Outcomes

\* While an instance binds its listeners and holds them, it has a CID.  The type
\* invariant is inductive only together with this: the CID ends up in sets of
\* rejected CIDs and in nitro's table.
CidChosen ==
  \A i \in Instances : pc[i] \in Binding \cup Reserved => cid[i] \in ManagedCids

\* What the control steps do to the variables they assign.
LEMMA ControlTypes ==
  ASSUME TypeOK, NEW i \in Instances, NEW l \in PCs, NEW r \in Outcomes
  PROVE  /\ Goto(i, l) => pc' \in [Instances -> PCs]
         /\ Unwind(i, l, r) => /\ pc' \in [Instances -> PCs]
                               /\ outcome' \in [Instances -> Outcomes]
         /\ Return(i, r) => /\ pc' \in [Instances -> PCs]
                            /\ outcome' \in [Instances -> Outcomes]
         /\ ForgetLocals(i) =>
              /\ rejected' \in [Instances -> SUBSET ManagedCids]
              /\ unavailable' \in [Instances -> SUBSET ManagedCids]
              /\ attempt' \in [Instances -> 0 .. BindRetryLimit]
              /\ cid' \in [Instances -> ManagedCids \cup {NoCid}]
              /\ mount' \in [Instances -> Nat]
              /\ termErr' \in [Instances -> BOOLEAN]
<1>1. Unwind(i, l, r) => /\ pc' \in [Instances -> PCs]
                         /\ outcome' \in [Instances -> Outcomes]
  BY DEF TypeOK, Goto, Unwind
<1>2. Return(i, r) => /\ pc' \in [Instances -> PCs]
                      /\ outcome' \in [Instances -> Outcomes]
  BY Labels DEF TypeOK, Goto, Unwind, Return
<1>3. ForgetLocals(i) =>
        /\ rejected' \in [Instances -> SUBSET ManagedCids]
        /\ unavailable' \in [Instances -> SUBSET ManagedCids]
        /\ attempt' \in [Instances -> 0 .. BindRetryLimit]
        /\ cid' \in [Instances -> ManagedCids \cup {NoCid}]
        /\ mount' \in [Instances -> Nat]
  BY Limits DEF TypeOK, ForgetLocals
<1>4. ForgetLocals(i) => termErr' \in [Instances -> BOOLEAN]
  BY Zenon DEF TypeOK, ForgetLocals
<1> QED BY <1>1, <1>2, <1>3, <1>4, ZenonT(30) DEF TypeOK, Goto

\* A bind, and either way in which it fails, keeps the types.
LEMMA BindTypes ==
  ASSUME TypeOK, NEW i \in Instances, NEW p \in Nat, cid[i] \in ManagedCids,
         Bind(i, p) \/ BindInUse(i, p) \/ StartError(i)
  PROVE  /\ listeners' \in [Instances -> SUBSET Nat]
         /\ unavailable' \in [Instances -> SUBSET ManagedCids]
         /\ outcome' \in [Instances -> Outcomes]
         /\ BindInUse(i, p) \/ StartError(i) =>
              pc' \in [Instances -> PCs] /\ mount' \in [Instances -> Nat]
<1>1. CASE Bind(i, p) /\ ~BindInUse(i, p) /\ ~StartError(i)
  BY <1>1, Zenon DEF TypeOK, Bind
<1>2. CASE BindInUse(i, p)
  BY <1>2, Labels, ZenonT(30) DEF TypeOK, BindInUse, Unwind, Goto
<1>3. CASE StartError(i)
  BY <1>3, Labels, Zenon DEF TypeOK, StartError, Unwind, Goto
<1> QED BY <1>1, <1>2, <1>3, Zenon

\* A step of one instance that leaves cid alone and does not move the instance
\* out of the labels at which it has a CID.
LEMMA CidUnmoved ==
  ASSUME TypeOK, CidChosen, NEW i \in Instances, cid[i] \in ManagedCids,
         UNCHANGED cid, \A j \in Instances : j # i => pc'[j] = pc[j]
  PROVE  CidChosen'
BY Zenon DEF CidChosen

\* Every step of the system keeps the types.
LEMMA TypeStep == TypeOK /\ CidChosen /\ [Next]_vars => TypeOK' /\ CidChosen'
<1> SUFFICES ASSUME TypeOK, CidChosen, [Next]_vars PROVE TypeOK' /\ CidChosen'
  BY Zenon
<1> USE DEF CidChosen, Binding, Reserved, Finished
<1>1. ASSUME NEW i \in Instances, EnsureBudget(i) PROVE TypeOK' /\ CidChosen'
  <2>1. CASE BudgetLeft(i) /\ Goto(i, "select")
    BY <1>1, <2>1, Limits, Labels
       DEF EnsureBudget, TypeOK, Goto, InitialUnavailable, resources, Return, Unwind
  <2>2. CASE Return(i, "error")
    BY <1>1, <2>2, Labels, ControlTypes, ZenonT(30)
       DEF EnsureBudget, TypeOK, Return, Unwind, Goto, ForgetLocals, resources
  <2> QED BY <1>1, <2>1, <2>2, Zenon DEF EnsureBudget
<1>2. ASSUME NEW i \in Instances, SelectPorts(i) PROVE TypeOK' /\ CidChosen'
  <2>1. CASE Return(i, "error")
    BY <1>2, <2>1, Labels, ControlTypes, ZenonT(30)
       DEF SelectPorts, TypeOK, Return, Unwind, Goto, ForgetLocals, resources
  <2>2. ASSUME NEW c \in FreeCids(UsedCids(i)),
               cid' = [cid EXCEPT ![i] = c], Goto(i, "egress"),
               UNCHANGED <<budgetVars, mount, termErr, outcome>>,
               UNCHANGED <<resources, enclaveInfo, cancelled, vm>>
        PROVE  TypeOK' /\ CidChosen'
    BY <2>2, Labels, Zenon DEF FreeCids, TypeOK, Goto, budgetVars, resources
  <2> QED BY <1>2, <2>1, <2>2, Zenon DEF SelectPorts
<1>3. ASSUME NEW i \in Instances, StartEgressProxy(i) PROVE TypeOK' /\ CidChosen'
  <2> DEFINE p == EgressPort(cid[i])
  <2>1. pc[i] = "egress" /\ cid[i] \in ManagedCids /\ p \in Nat
    BY <1>3, PortType, Zenon DEF StartEgressProxy
  <2>2. UNCHANGED <<rejected, attempt, cid, ingress, console, enclaveInfo,
                    termErr, cancelled, vm>>
    BY <1>3, Zenon DEF StartEgressProxy
  <2>3. /\ listeners' \in [Instances -> SUBSET Nat]
        /\ unavailable' \in [Instances -> SUBSET ManagedCids]
        /\ outcome' \in [Instances -> Outcomes]
    BY <1>3, <2>1, BindTypes, Zenon DEF StartEgressProxy, TypeOK
  <2>4. pc' \in [Instances -> PCs] /\ mount' \in [Instances -> Nat]
    BY <1>3, <2>1, BindTypes, ControlTypes, Labels, Zenon DEF StartEgressProxy, TypeOK, Goto
  <2>5. \A j \in Instances : j # i => pc'[j] = pc[j]
    BY <1>3, Zenon DEF StartEgressProxy, Bind, BindInUse, StartError, NextMount, Unwind, Goto, TypeOK
  <2>6. CidChosen'
    BY <2>1, <2>2, <2>5, CidUnmoved, Zenon
  <2> QED BY <2>2, <2>3, <2>4, <2>6, Zenon DEF TypeOK
<1>4. ASSUME NEW i \in Instances, StartHostfsProxy(i) PROVE TypeOK' /\ CidChosen'
  <2> DEFINE p == HostfsMountPort(cid[i], mount[i])
  <2>1. pc[i] = "hostfs" /\ cid[i] \in ManagedCids /\ p \in Nat
    BY <1>4, PortType, Zenon DEF StartHostfsProxy, TypeOK
  <2>2. UNCHANGED <<rejected, attempt, cid, ingress, console, enclaveInfo,
                    termErr, cancelled, vm>>
    BY <1>4, Zenon DEF StartHostfsProxy
  <2>3. /\ listeners' \in [Instances -> SUBSET Nat]
        /\ unavailable' \in [Instances -> SUBSET ManagedCids]
        /\ outcome' \in [Instances -> Outcomes]
    BY <1>4, <2>1, BindTypes, Zenon DEF StartHostfsProxy, TypeOK
  <2>4. pc' \in [Instances -> PCs] /\ mount' \in [Instances -> Nat]
    <3>1. CASE NextMount(i)
      BY <3>1 DEF TypeOK, NextMount
    <3>2. CASE BindInUse(i, p) \/ StartError(i)
      BY <2>1, <3>2, BindTypes, Zenon
    <3> QED BY <1>4, <3>1, <3>2, Zenon DEF StartHostfsProxy
  <2>5. \A j \in Instances : j # i => pc'[j] = pc[j]
    BY <1>4, Zenon DEF StartHostfsProxy, Bind, BindInUse, StartError, NextMount, Unwind, Goto, TypeOK
  <2>6. CidChosen'
    BY <2>1, <2>2, <2>5, CidUnmoved, Zenon
  <2> QED BY <2>2, <2>3, <2>4, <2>6, Zenon DEF TypeOK
<1>5. ASSUME NEW i \in Instances, HostfsProxiesStarted(i) PROVE TypeOK' /\ CidChosen'
  BY <1>5, Labels, Zenon DEF HostfsProxiesStarted, TypeOK, Goto, budgetVars, resources
<1>6. ASSUME NEW i \in Instances, StartClockSyncServer(i) PROVE TypeOK' /\ CidChosen'
  <2> DEFINE p == ClockSyncPort(cid[i])
  <2>1. pc[i] = "clock" /\ cid[i] \in ManagedCids /\ p \in Nat
    BY <1>6, PortType, Zenon DEF StartClockSyncServer
  <2>2. UNCHANGED <<rejected, attempt, cid, ingress, console, enclaveInfo,
                    termErr, cancelled, vm>>
    BY <1>6, Zenon DEF StartClockSyncServer
  <2>3. /\ listeners' \in [Instances -> SUBSET Nat]
        /\ unavailable' \in [Instances -> SUBSET ManagedCids]
        /\ outcome' \in [Instances -> Outcomes]
    BY <1>6, <2>1, BindTypes, Zenon DEF StartClockSyncServer, TypeOK
  <2>4. pc' \in [Instances -> PCs] /\ mount' \in [Instances -> Nat]
    BY <1>6, <2>1, BindTypes, ControlTypes, Labels, Zenon DEF StartClockSyncServer, TypeOK, Goto
  <2>5. \A j \in Instances : j # i => pc'[j] = pc[j]
    BY <1>6, Zenon DEF StartClockSyncServer, Bind, BindInUse, StartError, NextMount, Unwind, Goto, TypeOK
  <2>6. CidChosen'
    BY <2>1, <2>2, <2>5, CidUnmoved, Zenon
  <2> QED BY <2>2, <2>3, <2>4, <2>6, Zenon DEF TypeOK
<1>7. ASSUME NEW i \in Instances, RunEnclave(i) PROVE TypeOK' /\ CidChosen'
  <2>1. cid[i] \in ManagedCids
    BY <1>7, Zenon DEF RunEnclave
  <2>2. CASE EnclaveStarts(i)
    BY <1>7, <2>1, <2>2, Labels, Zenon DEF RunEnclave, EnclaveStarts, TypeOK, Goto, resources
  <2>3. CASE CidConflict(i)
    BY <1>7, <2>1, <2>3, Labels, ZenonT(30) DEF RunEnclave, CidConflict, TypeOK, Unwind, Goto, resources
  <2>4. CASE StartFails(i)
    BY <1>7, <2>1, <2>4, Labels DEF RunEnclave, StartFails, TypeOK, Unwind, Goto, resources
  <2> QED BY <1>7, <2>2, <2>3, <2>4, Zenon DEF RunEnclave
<1>8. ASSUME NEW i \in Instances, AttachDebugConsole(i) PROVE TypeOK' /\ CidChosen'
  <2>1. console' \in [Instances -> BOOLEAN]
    BY <1>8, Zenon DEF AttachDebugConsole, TypeOK
  <2> QED BY <1>8, <2>1, Labels DEF AttachDebugConsole, TypeOK, Unwind, Goto, budgetVars
<1>9. ASSUME NEW i \in Instances, StartIngressProxy(i) PROVE TypeOK' /\ CidChosen'
  BY <1>9, Labels DEF StartIngressProxy, TypeOK, Unwind, Goto, budgetVars
<1>10. ASSUME NEW i \in Instances, AwaitExit(i) \/ ObserveCancellation(i)
       PROVE  TypeOK' /\ CidChosen'
  BY <1>10, Labels
     DEF AwaitExit, ObserveCancellation, TypeOK, Unwind, Goto, budgetVars, resources
<1>11. ASSUME NEW i \in Instances, TerminateEnclave(i) PROVE TypeOK' /\ CidChosen'
  BY <1>11, Labels, ZenonT(30) DEF TerminateEnclave, Without, TypeOK, Goto, budgetVars
<1>12. ASSUME NEW i \in Instances, AbortTask(i) PROVE TypeOK' /\ CidChosen'
  BY <1>12 DEF AbortTask, TypeOK, budgetVars
<1>13. ASSUME NEW i \in Instances, TasksAborted(i) PROVE TypeOK' /\ CidChosen'
  <2>1. UNCHANGED <<listeners, ingress, console, cancelled, vm>>
    BY <1>13, Zenon DEF TasksAborted, resources
  <2>2. CASE /\ attempt[i] < BindRetryLimit
             /\ attempt' = [attempt EXCEPT ![i] = @ + 1]
             /\ Unwind(i, "select", "none")
             /\ UNCHANGED <<rejected, unavailable, cid, mount, termErr, enclaveInfo>>
    BY <2>1, <2>2, Limits, Labels DEF TypeOK, Unwind, Goto
  <2>3. CASE Return(i, "error") /\ UNCHANGED enclaveInfo
    BY <2>1, <2>3, Labels, ControlTypes, ZenonT(30) DEF TypeOK, Return, Unwind, Goto, ForgetLocals
  <2>4. CASE Unwind(i, "budget", "none") /\ UNCHANGED <<locals, enclaveInfo>>
    BY <2>1, <2>4, Labels, Zenon DEF TypeOK, Unwind, Goto, locals
  <2>5. CASE /\ outcome[i] \in {"exited", "cancelled", "error"}
             /\ Return(i, FinalOutcome(i))
             /\ enclaveInfo' = [enclaveInfo EXCEPT ![i] = @ /\ termErr[i]]
    <3>1. FinalOutcome(i) \in Outcomes
      BY <2>5, Labels, Zenon DEF FinalOutcome
    <3>2. enclaveInfo' \in [Instances -> BOOLEAN]
      BY <2>5, Zenon DEF TypeOK
    <3> QED BY <2>1, <2>5, <3>1, <3>2, Labels, ControlTypes, ZenonT(30)
            DEF TypeOK, Return, Unwind, Goto, ForgetLocals
  <2> QED BY <1>13, <2>2, <2>3, <2>4, <2>5, Zenon DEF TasksAborted
<1>14. ASSUME NEW i \in Instances, Cancel(i) PROVE TypeOK' /\ CidChosen'
  BY <1>14, Zenon DEF Cancel, TypeOK, budgetVars, resources
<1>15. ASSUME NEW i \in Instances, Crash(i) PROVE TypeOK' /\ CidChosen'
  BY <1>15, Labels, ControlTypes, ZenonT(30) DEF Crash, TypeOK, Goto, ForgetLocals
<1>16. ASSUME NEW c \in ManagedCids, EnclaveDies(c) \/ ForeignStart(c)
       PROVE  TypeOK' /\ CidChosen'
  BY <1>16, Zenon DEF EnclaveDies, ForeignStart, Without, TypeOK, budgetVars, resources
<1>17. CASE UNCHANGED vars
  BY <1>17, Zenon DEF vars, TypeOK
<1> QED
  BY <1>1, <1>2, <1>3, <1>4, <1>5, <1>6, <1>7, <1>8, <1>9, <1>10, <1>11,
     <1>12, <1>13, <1>14, <1>15, <1>16, <1>17, Zenon
  DEF Next, Progress

\* The inductive invariant behind type correctness.
LEMMA Typed == Spec => [](TypeOK /\ CidChosen)
<1>1. Init => TypeOK
  BY Limits, Labels DEF Init, TypeOK
<1>2. Init => CidChosen
  BY ZenonT(30) DEF Init, CidChosen, Binding, Reserved
<1> QED BY <1>1, <1>2, TypeStep, PTL DEF Spec

\* The variables of Enclave::run and of the host keep their types.
THEOREM TypeCorrect == Spec => []TypeOK
BY Typed, PTL

(***************************************************************************)
(* Reservations                                                            *)
(***************************************************************************)

Bound(i, o) == Port(cid[i], o) \in listeners[i]

\* How far prepare_host_runtime has got, as seen from the listeners: the
\* inductive counterpart of ListenersInBlock and ServicesReadyBeforeBoot.
Reservation(i) ==
  /\ listeners[i] \subseteq Block(cid[i])
  /\ pc[i] \in {"budget", "select", "egress"} \cup Finished => listeners[i] = {}
  /\ pc[i] # "hostfs" => mount[i] = 0
  /\ pc[i] \in {"hostfs", "clock"} \cup Reserved /\ Manifest[i].egress =>
       Bound(i, EgressOffset)
  /\ \A k \in DOMAIN Manifest[i].mounts :
       /\ Manifest[i].mounts[k] = "bound"
       /\ pc[i] \in {"clock"} \cup Reserved \/ (pc[i] = "hostfs" /\ k <= mount[i])
       => Bound(i, HostfsOffsetBase + k - 1)
  /\ pc[i] \in Reserved /\ Manifest[i].clock =>
       Bound(i, ClockSyncOffset) \/ attempt[i] = BindRetryLimit

\* The kernel gives a port to one listener only.
PortsExclusive ==
  \A i, j \in Instances : i # j => listeners[i] \cap listeners[j] = {}

ReservationInv == (\A i \in Instances : Reservation(i)) /\ PortsExclusive

\* A step that does not concern an instance keeps its reservation.
LEMMA ReservationFrame ==
  ASSUME NEW i \in Instances, Reservation(i), pc'[i] = pc[i], cid'[i] = cid[i],
         mount'[i] = mount[i], listeners'[i] = listeners[i],
         attempt'[i] = attempt[i]
  PROVE  Reservation(i)'
BY Zenon DEF Reservation, Bound

\* From run-enclave to cleanup the reservation is merely kept.
LEMMA ReservationKept ==
  ASSUME NEW i \in Instances, Reservation(i), pc[i] \in Reserved,
         pc'[i] \in Reserved \cup {"abort"}, cid'[i] = cid[i],
         mount'[i] = mount[i], listeners'[i] = listeners[i],
         attempt'[i] = attempt[i]
  PROVE  Reservation(i)'
BY Zenon DEF Reservation, Bound, Reserved, Finished

\* Without listeners there is no reservation to break.
LEMMA ReservationEmpty ==
  ASSUME NEW i \in Instances, listeners'[i] = {}, mount'[i] = 0,
         pc'[i] \in {"budget", "select", "egress"} \cup Finished
  PROVE  Reservation(i)'
BY Zenon DEF Reservation, Bound, Reserved, Finished

\* Aborting tasks only shrinks the set of listeners.
LEMMA ReservationShrinks ==
  ASSUME NEW i \in Instances, Reservation(i), listeners'[i] \subseteq listeners[i],
         pc'[i] = "abort", cid'[i] = cid[i], mount'[i] = 0
  PROVE  Reservation(i)'
BY Zenon DEF Reservation, Bound, Reserved, Finished

\* The listener a successful bind adds lies in the block and was nobody's.
LEMMA BindExtends ==
  ASSUME TypeOK, PortsExclusive, NEW i \in Instances, NEW p, Bind(i, p)
  PROVE  /\ PortsExclusive'
         /\ listeners'[i] = listeners[i] \cup {p}
         /\ \A j \in Instances : j # i => listeners'[j] = listeners[j]
<1>1. /\ listeners'[i] = listeners[i] \cup {p}
      /\ \A j \in Instances : j # i => listeners'[j] = listeners[j]
      /\ \A j \in Instances : p \notin listeners[j]
  BY Zenon DEF Bind, PortFree, TypeOK
<1> QED BY <1>1 DEF PortsExclusive

\* The names the code uses for a port, in terms of its offset.
LEMMA PortNames ==
  ASSUME NEW c \in ManagedCids, NEW m \in Nat
  PROVE  /\ EgressPort(c) = Port(c, EgressOffset)
         /\ ClockSyncPort(c) = Port(c, ClockSyncOffset)
         /\ HostfsMountPort(c, m) = Port(c, HostfsOffsetBase + (m + 1) - 1)
<1>1. c * PortStride \in Nat
  BY LayoutAssumption DEF ManagedCids
<1>2. RuntimeBlockBase(c) \in Nat
  BY <1>1, LayoutAssumption DEF RuntimeBlockBase
<1> QED
  BY <1>2, LayoutAssumption DEF EgressPort, ClockSyncPort, HostfsMountPort, Port

\* Every step of the system keeps the reservations.
LEMMA ReservationStep ==
  TypeOK /\ CidChosen /\ ReservationInv /\ [Next]_vars => ReservationInv'
<1> SUFFICES ASSUME TypeOK, CidChosen, \A i \in Instances : Reservation(i),
                    PortsExclusive, [Next]_vars
             PROVE  (\A i \in Instances : Reservation(i)') /\ PortsExclusive'
  BY Zenon DEF ReservationInv
<1> DEFINE Others(i) == \A j \in Instances : j # i =>
             /\ pc'[j] = pc[j] /\ cid'[j] = cid[j] /\ mount'[j] = mount[j]
             /\ listeners'[j] = listeners[j] /\ attempt'[j] = attempt[j]
<1>0. ASSUME NEW i \in Instances, Others(i), Reservation(i)',
             listeners'[i] \subseteq listeners[i]
      PROVE  (\A j \in Instances : Reservation(j)') /\ PortsExclusive'
  <2>1. \A j \in Instances : Reservation(j)'
    BY <1>0, ReservationFrame, Zenon
  <2>2. \A j \in Instances : listeners'[j] \subseteq listeners[j]
    BY <1>0, Zenon
  <2> QED BY <2>1, <2>2, Zenon DEF PortsExclusive
<1>1. ASSUME NEW i \in Instances, EnsureBudget(i) PROVE ReservationInv'
  <2>1. /\ Others(i) /\ listeners'[i] = listeners[i] /\ mount'[i] = 0
        /\ pc'[i] \in {"select", "done"} /\ listeners[i] = {}
    BY <1>1, ZenonT(30) DEF EnsureBudget, Return, Unwind, Goto, ForgetLocals, resources,
                TypeOK, Reservation
  <2> QED BY <2>1, <1>0, ReservationEmpty, Zenon DEF Finished, ReservationInv
<1>2. ASSUME NEW i \in Instances, SelectPorts(i) PROVE ReservationInv'
  <2>1. /\ Others(i) /\ listeners'[i] = listeners[i] /\ mount'[i] = 0
        /\ pc'[i] \in {"egress", "done"} /\ listeners[i] = {}
    BY <1>2, SMTT(30) DEF SelectPorts, Return, Unwind, Goto, ForgetLocals, resources,
                budgetVars, TypeOK, Reservation
  <2> QED BY <2>1, <1>0, ReservationEmpty, ZenonT(30) DEF Finished, ReservationInv
<1>3. ASSUME NEW i \in Instances, NEW p, BindInUse(i, p) \/ StartError(i),
             UNCHANGED <<cid, attempt>>
      PROVE  ReservationInv'
  <2>1. /\ Others(i) /\ listeners'[i] = listeners[i] /\ mount'[i] = 0
        /\ pc'[i] = "abort" /\ cid'[i] = cid[i]
    BY <1>3, ZenonT(30) DEF BindInUse, StartError, Unwind, Goto, TypeOK
  <2> QED BY <2>1, <1>0, ReservationShrinks, Zenon DEF ReservationInv
<1>4. ASSUME NEW i \in Instances, StartEgressProxy(i) PROVE ReservationInv'
  <2> DEFINE p == EgressPort(cid[i])
  <2>1. /\ pc[i] = "egress" /\ cid[i] \in ManagedCids /\ UNCHANGED <<cid, attempt>>
        /\ listeners[i] = {} /\ mount[i] = 0
    BY <1>4, Zenon DEF StartEgressProxy, CidChosen, Binding, Reservation
  <2>2. p = Port(cid[i], EgressOffset) /\ p \in Block(cid[i])
    BY <2>1, PortNames, ManagedRangeFits, Zenon
  <2>3. CASE Bind(i, p) /\ Goto(i, "hostfs") /\ UNCHANGED mount
    <3>1. /\ PortsExclusive' /\ listeners'[i] = {p} /\ Others(i)
          /\ pc'[i] = "hostfs" /\ cid'[i] = cid[i] /\ mount'[i] = 0
      BY <2>1, <2>3, BindExtends, ZenonT(30) DEF Goto, TypeOK
    <3>2. Reservation(i)'
      BY <2>2, <3>1, HostRunAssumption, SMTT(30) DEF Reservation, Bound, Reserved, Finished
    <3> QED BY <3>1, <3>2, ReservationFrame, Zenon DEF ReservationInv
  <2>4. CASE /\ ~Manifest[i].egress /\ Goto(i, "hostfs")
             /\ UNCHANGED <<mount, listeners, unavailable, outcome>>
    <3>1. /\ Others(i) /\ listeners'[i] = {} /\ pc'[i] = "hostfs"
          /\ cid'[i] = cid[i] /\ mount'[i] = 0
      BY <2>1, <2>4, Zenon DEF Goto, TypeOK
    <3>2. Reservation(i)'
      BY <2>4, <3>1, HostRunAssumption DEF Reservation, Bound, Reserved, Finished
    <3> QED BY <3>1, <3>2, <1>0, Zenon DEF ReservationInv
  <2> QED BY <1>4, <1>3, <2>1, <2>3, <2>4, Zenon DEF StartEgressProxy
<1>5. ASSUME NEW i \in Instances, StartHostfsProxy(i) PROVE ReservationInv'
  <2> DEFINE p == HostfsMountPort(cid[i], mount[i])
  <2>1. /\ pc[i] = "hostfs" /\ cid[i] \in ManagedCids /\ UNCHANGED <<cid, attempt>>
        /\ mount[i] \in Nat
    BY <1>5, ZenonT(30) DEF StartHostfsProxy, CidChosen, Binding, TypeOK
  <2>2. ASSUME HostfsMountPortOk(cid[i], mount[i])
        PROVE  p = Port(cid[i], HostfsOffsetBase + (mount[i] + 1) - 1) /\ p \in Block(cid[i])
    <3>1. mount[i] \in 0 .. (HostfsCapacity - 1)
      BY <2>1, <2>2, LayoutAssumption DEF HostfsMountPortOk
    <3> QED BY <2>1, <3>1, PortNames, ManagedRangeFits, Zenon
  <2>3. CASE HostfsMountPortOk(cid[i], mount[i]) /\ Bind(i, p) /\ NextMount(i)
    <3>1. /\ PortsExclusive' /\ listeners'[i] = listeners[i] \cup {p} /\ Others(i)
          /\ pc'[i] = "hostfs" /\ cid'[i] = cid[i] /\ mount'[i] = mount[i] + 1
      BY <2>1, <2>3, BindExtends, Zenon DEF NextMount, TypeOK
    <3>2. \A k \in DOMAIN Manifest[i].mounts :
            k <= mount[i] + 1 => k <= mount[i] \/ k = mount[i] + 1
      BY <2>1, HostRunAssumption
    <3>3. Reservation(i)'
      BY <2>1, <2>2, <2>3, <3>1, <3>2, ZenonT(30) DEF Reservation, Bound, Reserved, Finished
    <3> QED BY <3>1, <3>3, ReservationFrame, Zenon DEF ReservationInv
  <2>4. CASE /\ Manifest[i].mounts[mount[i] + 1] = "absent" /\ NextMount(i)
             /\ UNCHANGED <<listeners, unavailable, outcome>>
    <3>1. /\ Others(i) /\ listeners'[i] = listeners[i] /\ pc'[i] = "hostfs"
          /\ cid'[i] = cid[i] /\ mount'[i] = mount[i] + 1
      BY <2>1, <2>4, Zenon DEF NextMount, TypeOK
    <3>2. \A k \in DOMAIN Manifest[i].mounts :
            k <= mount[i] + 1 => k <= mount[i] \/ k = mount[i] + 1
      BY <2>1, HostRunAssumption
    <3>3. Reservation(i)'
      BY <2>1, <2>4, <3>1, <3>2, ZenonT(30) DEF Reservation, Bound, Reserved, Finished
    <3> QED BY <3>1, <3>3, <1>0, ZenonT(30) DEF ReservationInv
  <2> QED BY <1>5, <1>3, <2>1, <2>3, <2>4, ZenonT(30) DEF StartHostfsProxy
<1>6. ASSUME NEW i \in Instances, HostfsProxiesStarted(i) PROVE ReservationInv'
  <2>1. /\ Others(i) /\ listeners'[i] = listeners[i] /\ cid'[i] = cid[i]
        /\ pc[i] = "hostfs" /\ pc'[i] = "clock" /\ mount'[i] = 0
        /\ mount[i] = Len(Manifest[i].mounts)
    BY <1>6, Zenon DEF HostfsProxiesStarted, Goto, budgetVars, resources, TypeOK
  <2>2. \A k \in DOMAIN Manifest[i].mounts : k <= mount[i]
    BY <2>1, HostRunAssumption, SMTT(30)
  <2>3. Reservation(i)'
    BY <2>1, <2>2, Zenon DEF Reservation, Bound, Reserved, Finished
  <2> QED BY <2>1, <2>3, <1>0, Zenon DEF ReservationInv
<1>8. ASSUME NEW i \in Instances, StartClockSyncServer(i) PROVE ReservationInv'
  <2> DEFINE p == ClockSyncPort(cid[i])
  <2>1. /\ pc[i] = "clock" /\ cid[i] \in ManagedCids /\ UNCHANGED <<cid, attempt>>
        /\ mount[i] = 0
    BY <1>8, Zenon DEF StartClockSyncServer, CidChosen, Binding, Reservation
  <2>2. p = Port(cid[i], ClockSyncOffset) /\ p \in Block(cid[i])
    BY <2>1, PortNames, ManagedRangeFits, Zenon
  <2>3. CASE Bind(i, p) /\ Goto(i, "start") /\ UNCHANGED mount
    <3>1. /\ PortsExclusive' /\ listeners'[i] = listeners[i] \cup {p} /\ Others(i)
          /\ pc'[i] = "start" /\ cid'[i] = cid[i] /\ mount'[i] = 0
      BY <2>1, <2>3, BindExtends, Zenon DEF Goto, TypeOK
    <3>2. Reservation(i)'
      BY <2>1, <2>2, <3>1, Zenon DEF Reservation, Bound, Reserved, Finished
    <3> QED BY <3>1, <3>2, ReservationFrame, Zenon DEF ReservationInv
  <2>4. CASE /\ ~Manifest[i].clock \/ AllowDegradedClockSync(i)
             /\ Goto(i, "start")
             /\ UNCHANGED <<mount, listeners, unavailable, outcome>>
    <3>1. /\ Others(i) /\ listeners'[i] = listeners[i] /\ pc'[i] = "start"
          /\ cid'[i] = cid[i] /\ mount'[i] = 0 /\ attempt'[i] = attempt[i]
      BY <2>1, <2>4, Zenon DEF Goto, TypeOK
    <3>2. Reservation(i)'
      BY <2>1, <2>4, <3>1, Zenon DEF Reservation, Bound, Reserved, Finished, AllowDegradedClockSync
    <3> QED BY <3>1, <3>2, <1>0, Zenon DEF ReservationInv
  <2> QED BY <1>8, <1>3, <2>1, <2>3, <2>4, ZenonT(30) DEF StartClockSyncServer
<1>7. ASSUME NEW i \in Instances,
             \/ RunEnclave(i) \/ AttachDebugConsole(i) \/ StartIngressProxy(i)
             \/ AwaitExit(i) \/ ObserveCancellation(i) \/ TerminateEnclave(i)
      PROVE  ReservationInv'
  <2>1. /\ pc[i] \in Reserved /\ pc'[i] \in Reserved \cup {"abort"}
        /\ \A j \in Instances : j # i => pc'[j] = pc[j]
    BY <1>7, ZenonT(30) DEF RunEnclave, EnclaveStarts, CidConflict, StartFails,
                AttachDebugConsole, StartIngressProxy, AwaitExit,
                ObserveCancellation, TerminateEnclave, Unwind, Goto, Reserved, TypeOK
  <2>2. UNCHANGED <<cid, mount, listeners, attempt>>
    BY <1>7, Zenon DEF RunEnclave, AttachDebugConsole, StartIngressProxy, AwaitExit,
                ObserveCancellation, TerminateEnclave, budgetVars, resources
  <2> QED BY <2>1, <2>2, <1>0, ReservationKept, Zenon DEF ReservationInv
<1>12. ASSUME NEW i \in Instances, AbortTask(i) PROVE ReservationInv'
  <2>1. /\ Others(i) /\ listeners'[i] \subseteq listeners[i] /\ mount'[i] = 0
        /\ pc'[i] = "abort" /\ cid'[i] = cid[i]
    BY <1>12 DEF AbortTask, budgetVars, TypeOK, Reservation
  <2> QED BY <2>1, <1>0, ReservationShrinks, Zenon DEF ReservationInv
<1>13. ASSUME NEW i \in Instances, TasksAborted(i) PROVE ReservationInv'
  <2>1. listeners[i] = {} /\ UNCHANGED listeners /\ mount[i] = 0
    BY <1>13, Zenon DEF TasksAborted, resources, Reservation
  <2>2. /\ pc'[i] \in {"select", "done", "budget"} /\ mount'[i] = 0
        /\ Others(i)
    BY <1>13, <2>1, ZenonT(30) DEF TasksAborted, Return, Unwind, Goto, ForgetLocals, locals, TypeOK
  <2> QED BY <2>1, <2>2, <1>0, ReservationEmpty, ZenonT(30) DEF Finished, ReservationInv
<1>15. ASSUME NEW i \in Instances, Crash(i) PROVE ReservationInv'
  <2>1. /\ Others(i) /\ listeners'[i] = {} /\ mount'[i] = 0 /\ pc'[i] = "crashed"
    BY <1>15, Zenon DEF Crash, Goto, ForgetLocals, TypeOK
  <2> QED BY <2>1, <1>0, ReservationEmpty, Zenon DEF Finished, ReservationInv
<1>16. CASE \/ \E i \in Instances : Cancel(i)
            \/ \E c \in ManagedCids : EnclaveDies(c) \/ ForeignStart(c)
            \/ UNCHANGED vars
  <2>1. UNCHANGED <<pc, cid, mount, listeners, attempt>>
    BY <1>16, Zenon DEF Cancel, EnclaveDies, ForeignStart, vars, budgetVars, resources
  <2> QED BY <2>1, ReservationFrame, Zenon DEF ReservationInv, PortsExclusive
<1> QED
  BY <1>1, <1>2, <1>4, <1>5, <1>6, <1>7, <1>8, <1>12, <1>13, <1>15, <1>16, Zenon
  DEF Next, Progress, ReservationInv

\* Reservations are exclusive and complete in every state.
LEMMA Reservations == Spec => []ReservationInv
<1>1. Init => ReservationInv
  BY DEF Init, ReservationInv, Reservation, Bound, PortsExclusive, Reserved, Finished
<1> QED BY <1>1, ReservationStep, Typed, PTL DEF Spec

\* No listener of an earlier attempt or of a lost CID survives a retry, for any
\* number of instances and retries (prepare_host_runtime, abort_tasks).
THEOREM ListenersStayInBlock == Spec => []ListenersInBlock
<1>1. ReservationInv => ListenersInBlock
  BY Zenon DEF ReservationInv, Reservation, ListenersInBlock
<1> QED BY <1>1, Reservations, PTL

\* Every configured host service listens before the enclave can boot, and until
\* cleanup (prepare_host_runtime is complete before run_enclave is called).
THEOREM ServicesReady == Spec => []ServicesReadyBeforeBoot
<1>1. ReservationInv => ServicesReadyBeforeBoot
  BY ZenonT(30) DEF ReservationInv, Reservation, Bound, ServicesReadyBeforeBoot, Offsets
<1> QED BY <1>1, Reservations, PTL

\* Two instances never hold the same service on the same CID: the distinctness
\* of runtime VSOCK blocks that multi-instance operation rests on.
THEOREM ReservationsExclude == Spec => []ReservationExclusive
<1>1. ReservationInv => ReservationExclusive
  <2> SUFFICES ASSUME ReservationInv, NEW i \in Instances, NEW j \in Instances,
                      i # j, pc[i] \in Reserved, pc[j] \in Reserved, cid[i] = cid[j],
                      NEW o \in Offsets(i) \cap Offsets(j)
               PROVE  o = ClockSyncOffset /\ BindRetryLimit \in {attempt[i], attempt[j]}
    BY Zenon DEF ReservationExclusive
  <2>1. ServicesReadyBeforeBoot
    BY ZenonT(30) DEF ReservationInv, Reservation, Bound, ServicesReadyBeforeBoot, Offsets
  <2>2. ~(Port(cid[i], o) \in listeners[i] /\ Port(cid[j], o) \in listeners[j])
    BY Zenon DEF ReservationInv, PortsExclusive
  <2> QED BY <2>1, <2>2, Zenon DEF ServicesReadyBeforeBoot
<1> QED BY <1>1, Reservations, PTL

(***************************************************************************)
(* Ownership and cleanup                                                   *)
(***************************************************************************)

Owns(i) == \E c \in ManagedCids : vm[c] = i

\* Where an instance may be while an enclave it started runs, and what it then
\* knows: either the enclave's identity is still at hand for the termination,
\* or run() is bound to return an error.
Accounted(i) ==
  Owns(i) =>
    /\ pc[i] \notin {"budget", "select", "start"} \cup Binding
    /\ pc[i] \in {"console", "ingress", "await"} => enclaveInfo[i]
    /\ pc[i] = "cleanup" => \/ outcome[i] = "error"
                            \/ outcome[i] \in {"exited", "cancelled"} /\ enclaveInfo[i]
    /\ pc[i] = "abort" => \/ outcome[i] = "error"
                          \/ outcome[i] \in {"exited", "cancelled"} /\ termErr[i]
    /\ pc[i] = "done" => outcome[i] = "error"

\* The console and the ingress proxies exist only after the enclave's start.
TornDown(i) ==
  /\ console[i] => pc[i] \in {"ingress", "await", "cleanup"}
  /\ ingress[i] # 0 => pc[i] \in {"ingress", "await", "cleanup", "abort"}

OwnershipInv == \A i \in Instances : Accounted(i) /\ TornDown(i)

\* No shell is taken for another tool, or for nobody.
LEMMA Owners == NoOwner \notin Instances /\ Foreign \notin Instances
BY HostRunAssumption, Zenon

\* A step that does not concern an instance, except that it may end its
\* enclave.
LEMMA OwnershipFrame ==
  ASSUME NEW i \in Instances, Accounted(i), TornDown(i), Owns(i)' => Owns(i),
         pc'[i] = pc[i], enclaveInfo'[i] = enclaveInfo[i],
         outcome'[i] = outcome[i], termErr'[i] = termErr[i],
         console'[i] = console[i], ingress'[i] = ingress[i]
  PROVE  Accounted(i)' /\ TornDown(i)'
BY Zenon DEF Accounted, TornDown

\* Every step of the system keeps the ownership invariant.
LEMMA OwnershipStep ==
  TypeOK /\ CidChosen /\ OwnershipInv /\ [Next]_vars => OwnershipInv'
<1> SUFFICES ASSUME TypeOK, CidChosen, OwnershipInv, [Next]_vars PROVE OwnershipInv'
  BY SMTT(30), Zenon
<1> DEFINE Rest(i) ==
      \A j \in Instances : j # i =>
        /\ Owns(j)' => Owns(j)
        /\ pc'[j] = pc[j] /\ enclaveInfo'[j] = enclaveInfo[j]
        /\ outcome'[j] = outcome[j] /\ termErr'[j] = termErr[j]
        /\ console'[j] = console[j] /\ ingress'[j] = ingress[j]
<1>0. ASSUME NEW i \in Instances, Rest(i), Accounted(i)', TornDown(i)'
      PROVE  OwnershipInv'
  BY <1>0, OwnershipFrame, Zenon DEF OwnershipInv
<1> HIDE DEF Rest
<1>1. ASSUME NEW i \in Instances,
             \/ EnsureBudget(i) \/ SelectPorts(i) \/ StartEgressProxy(i)
             \/ StartHostfsProxy(i) \/ HostfsProxiesStarted(i)
             \/ StartClockSyncServer(i)
      PROVE  OwnershipInv'
  <2>1. /\ pc[i] \in {"budget", "select"} \cup Binding
        /\ UNCHANGED <<ingress, console, enclaveInfo, vm>>
    BY <1>1, ZenonT(30) DEF EnsureBudget, SelectPorts, StartEgressProxy, StartHostfsProxy,
                HostfsProxiesStarted, StartClockSyncServer, Binding, resources
  <2>2. ~Owns(i) /\ ~console[i] /\ ingress[i] = 0
    BY <2>1, Zenon DEF OwnershipInv, Accounted, TornDown, Binding
  <2>3. Accounted(i)' /\ TornDown(i)'
    BY <2>1, <2>2, Zenon DEF Accounted, TornDown, Owns
  <2>4. \A j \in Instances : j # i =>
          pc'[j] = pc[j] /\ outcome'[j] = outcome[j] /\ termErr'[j] = termErr[j]
    BY <1>1, ZenonT(30) DEF EnsureBudget, SelectPorts, StartEgressProxy, StartHostfsProxy,
                HostfsProxiesStarted, StartClockSyncServer, Bind, BindInUse,
                StartError, NextMount, Return, ForgetLocals, Unwind, Goto, TypeOK
  <2>5. Rest(i)
    BY <2>1, <2>4, Zenon DEF Rest, Owns
  <2> QED BY <2>3, <2>5, <1>0, Zenon
<1>2. ASSUME NEW i \in Instances, RunEnclave(i) PROVE OwnershipInv'
  <2>1. /\ pc[i] = "start" /\ cid[i] \in ManagedCids
        /\ UNCHANGED <<ingress, console, termErr>>
    BY <1>2, Zenon DEF RunEnclave, CidChosen, Binding, Reserved, resources
  <2>2. ~Owns(i) /\ ~console[i] /\ ingress[i] = 0
    BY <2>1, Zenon DEF OwnershipInv, Accounted, TornDown
  <2>3. \A j \in Instances : j # i => (Owns(j)' => Owns(j))
    BY <1>2, <2>1, Zenon DEF RunEnclave, EnclaveStarts, CidConflict, StartFails, Owns, TypeOK
  <2>4. \A j \in Instances : j # i =>
          pc'[j] = pc[j] /\ outcome'[j] = outcome[j] /\ enclaveInfo'[j] = enclaveInfo[j]
    BY <1>2, ZenonT(30) DEF RunEnclave, EnclaveStarts, CidConflict, StartFails, Unwind, Goto, TypeOK
  <2>5. Rest(i)
    BY <2>1, <2>3, <2>4, Zenon DEF Rest
  <2>6. TornDown(i)'
    BY <2>1, <2>2, Zenon DEF TornDown
  <2>7. CASE EnclaveStarts(i)
    <3>1. pc'[i] \in {"console", "ingress"} /\ enclaveInfo'[i]
      BY <2>7, Zenon DEF EnclaveStarts, Goto, TypeOK
    <3> QED BY <3>1 , <2>5, <2>6, <1>0, Zenon DEF Accounted, Binding
  <2>8. CASE CidConflict(i)
    <3>1. ~Owns(i)'
      BY <2>2, <2>8, Zenon DEF CidConflict, Owns
    <3> QED BY <3>1, <2>5, <2>6, <1>0, Zenon DEF Accounted
  <2>9. CASE StartFails(i)
    <3>1. pc'[i] = "cleanup" /\ outcome'[i] = "error"
      BY <2>9, Zenon DEF StartFails, Unwind, Goto, TypeOK
    <3> QED BY <3>1, <2>5, <2>6, <1>0, Zenon DEF Accounted, Binding
  <2> QED BY <1>2, <2>7, <2>8, <2>9, Zenon DEF RunEnclave
<1>3. ASSUME NEW i \in Instances,
             \/ AttachDebugConsole(i) \/ StartIngressProxy(i)
             \/ AwaitExit(i) \/ ObserveCancellation(i)
      PROVE  OwnershipInv'
  <2>1. /\ pc[i] \in {"console", "ingress", "await"}
        /\ UNCHANGED <<enclaveInfo, termErr, vm>>
    BY <1>3, Zenon DEF AttachDebugConsole, StartIngressProxy, AwaitExit, ObserveCancellation
  <2>2. Owns(i) => enclaveInfo[i]
    BY <2>1, Zenon DEF OwnershipInv, Accounted
  <2>3. \A j \in Instances : j # i =>
          /\ pc'[j] = pc[j] /\ outcome'[j] = outcome[j]
          /\ console'[j] = console[j] /\ ingress'[j] = ingress[j]
    BY <1>3 DEF AttachDebugConsole, StartIngressProxy, AwaitExit,
                ObserveCancellation, Unwind, Goto, resources, TypeOK
  <2>4. Rest(i)
    BY <2>1, <2>3, Zenon DEF Rest, Owns
  <2>5. \/ pc'[i] \in {"ingress", "await"}
        \/ pc'[i] = "cleanup" /\ outcome'[i] \in {"error", "exited", "cancelled"}
    BY <1>3, ZenonT(30) DEF AttachDebugConsole, StartIngressProxy, AwaitExit,
                ObserveCancellation, Unwind, Goto, TypeOK
  <2>6. Accounted(i)'
    BY <2>1, <2>2, <2>5, Zenon DEF Accounted, Owns, Binding
  <2>7. TornDown(i)'
    BY <2>5, Zenon DEF TornDown
  <2> QED BY <2>4, <2>6, <2>7, <1>0, Zenon
<1>4. ASSUME NEW i \in Instances, TerminateEnclave(i) PROVE OwnershipInv'
  <2>1. /\ pc[i] = "cleanup" /\ pc'[i] = "abort"
        /\ UNCHANGED <<ingress, enclaveInfo, outcome>>
    BY <1>4, Zenon DEF TerminateEnclave, Goto, TypeOK
  <2>2. ~console'[i] /\ \A j \in Instances : j # i => console'[j] = console[j]
    BY <1>4, Zenon DEF TerminateEnclave, TypeOK
  <2>3. \A j \in Instances : j # i =>
          pc'[j] = pc[j] /\ termErr'[j] = termErr[j] /\ (Owns(j)' => Owns(j))
    <3>1. \A j \in Instances : j # i => pc'[j] = pc[j] /\ termErr'[j] = termErr[j]
      BY <1>4, ZenonT(30) DEF TerminateEnclave, Goto, TypeOK
    <3>2. \A j \in Instances : Owns(j)' => Owns(j)
      BY <1>4, Owners, Zenon DEF TerminateEnclave, Without, Owns
    <3> QED BY <3>1, <3>2, Zenon
  <2>4. Rest(i)
    BY <2>1, <2>2, <2>3, Zenon DEF Rest
  <2>5. Owns(i)' => Owns(i) /\ (termErr'[i] \/ ~enclaveInfo[i])
    <3>1. CASE vm' = Without(TerminateTarget(i))
      <4>1. ~Owns(i)'
        BY <3>1, Owners, Zenon DEF Owns, Without, TerminateTarget
      <4> QED BY <4>1, Zenon
    <3>2. CASE UNCHANGED vm /\ termErr' = [termErr EXCEPT ![i] = TRUE]
      BY <3>2, Zenon DEF Owns, TypeOK
    <3>3. CASE UNCHANGED vm /\ ~enclaveInfo[i]
      BY <3>3, ZenonT(30) DEF Owns
    <3> QED BY <1>4, <3>1, <3>2, <3>3, Zenon DEF TerminateEnclave
  <2>6. Accounted(i)'
    BY <2>1, <2>5, Zenon DEF OwnershipInv, Accounted, Binding
  <2>7. TornDown(i)'
    BY <2>1, <2>2, Zenon DEF TornDown
  <2> QED BY <2>4, <2>6, <2>7, <1>0, Zenon
<1>5. ASSUME NEW i \in Instances, AbortTask(i) PROVE OwnershipInv'
  <2>1. /\ pc[i] = "abort" /\ UNCHANGED <<pc, console, enclaveInfo, termErr, outcome, vm>>
        /\ \A j \in Instances : j # i => ingress'[j] = ingress[j]
    BY <1>5, Zenon DEF AbortTask, TypeOK
  <2>2. Rest(i)
    BY <2>1, Zenon DEF Rest, Owns
  <2>3. Accounted(i)' /\ TornDown(i)'
    BY <2>1, Zenon DEF OwnershipInv, Accounted, TornDown, Owns
  <2> QED BY <2>2, <2>3, <1>0, Zenon
<1>6. ASSUME NEW i \in Instances, TasksAborted(i) PROVE OwnershipInv'
  <2>1. /\ pc[i] = "abort" /\ ingress[i] = 0
        /\ UNCHANGED <<ingress, console, vm>>
    BY <1>6, Zenon DEF TasksAborted, resources
  <2>2. /\ ~console[i]
        /\ Owns(i) => \/ outcome[i] = "error"
                      \/ outcome[i] \in {"exited", "cancelled"} /\ termErr[i]
    BY <2>1, Zenon DEF OwnershipInv, Accounted, TornDown
  <2>3. \A j \in Instances : j # i =>
          /\ pc'[j] = pc[j] /\ outcome'[j] = outcome[j] /\ termErr'[j] = termErr[j]
          /\ enclaveInfo'[j] = enclaveInfo[j]
    BY <1>6 DEF TasksAborted, Return, ForgetLocals, Unwind, Goto, locals, TypeOK
  <2>4. Rest(i)
    BY <2>1, <2>3, Zenon DEF Rest, Owns
  <2>5. TornDown(i)'
    BY <2>1, <2>2, Zenon DEF TornDown
  <2>6. ASSUME Owns(i) PROVE pc'[i] = "done" /\ outcome'[i] = "error"
    <3>1. Return(i, FinalOutcome(i)) /\ FinalOutcome(i) = "error"
      BY <1>6, <2>2, <2>6, Zenon DEF TasksAborted, FinalOutcome
    <3> QED BY <3>1, Zenon DEF Return, Unwind, Goto, TypeOK
  <2>7. Accounted(i)'
    BY <2>1, <2>6, Zenon DEF Accounted, Owns, Binding
  <2> QED BY <2>4, <2>5, <2>7, <1>0, Zenon
<1>7. ASSUME NEW i \in Instances, Crash(i) PROVE OwnershipInv'
  <2>1. /\ pc'[i] = "crashed" /\ UNCHANGED <<enclaveInfo, outcome, vm>>
        /\ ingress'[i] = 0 /\ ~console'[i]
    BY <1>7, Zenon DEF Crash, Goto, TypeOK
  <2>2. \A j \in Instances : j # i =>
          /\ pc'[j] = pc[j] /\ termErr'[j] = termErr[j]
          /\ console'[j] = console[j] /\ ingress'[j] = ingress[j]
    BY <1>7, Zenon DEF Crash, ForgetLocals, Goto, TypeOK
  <2>3. Rest(i)
    BY <2>1, <2>2, Zenon DEF Rest, Owns
  <2>4. Accounted(i)' /\ TornDown(i)'
    BY <2>1, Zenon DEF Accounted, TornDown, Binding
  <2> QED BY <2>3, <2>4, <1>0, Zenon
<1>8. ASSUME \/ UNCHANGED vars \/ \E i \in Instances : Cancel(i)
             \/ \E c \in ManagedCids : EnclaveDies(c) \/ ForeignStart(c)
      PROVE  OwnershipInv'
  <2>1. UNCHANGED <<pc, ingress, console, enclaveInfo, outcome, termErr>>
    BY <1>8, ZenonT(30) DEF vars, Cancel, EnclaveDies, ForeignStart, resources
  <2>2. \A j \in Instances : Owns(j)' => Owns(j)
    BY <1>8, Owners
       DEF vars, Cancel, EnclaveDies, ForeignStart, Without, Owns, TypeOK
  <2> QED BY <2>1, <2>2, OwnershipFrame, Zenon DEF OwnershipInv
<1> QED
  BY <1>1, <1>2, <1>3, <1>4, <1>5, <1>6, <1>7, <1>8, Zenon DEF Next, Progress

\* The invariant of the cleanup holds throughout.
LEMMA Ownership == Spec => []OwnershipInv
<1>1. Init => OwnershipInv
  BY Owners, SMTT(30)
     DEF Init, OwnershipInv, Accounted, TornDown, Owns, Binding
<1> QED BY <1>1, OwnershipStep, Typed, PTL DEF Spec

\* run() reports success only when the enclave it started is gone, whatever
\* fails on the way (cleanup_running_state, finalize_exit_and_cleanup).
THEOREM LeaksAreReported == Spec => []LeakIsReported
<1>1. OwnershipInv => LeakIsReported
  BY Zenon DEF OwnershipInv, Accounted, Owns, LeakIsReported
<1> QED BY <1>1, Ownership, PTL

\* run() leaves no listener, ingress proxy or console behind on any return path.
THEOREM RunReturnsClean == Spec => []ReturnsClean
<1>1. OwnershipInv /\ ReservationInv => ReturnsClean
  BY Zenon DEF OwnershipInv, TornDown, ReservationInv, Reservation, ReturnsClean, Finished
<1> QED BY <1>1, Ownership, Reservations, PTL

\* No cleanup ends the enclave of another instance or of another tool.
THEOREM CleanupIsSelective == Spec => TerminatesOnlyOwn
<1> DEFINE Selective ==
      \A i \in Instances : pc[i] = "cleanup" /\ pc'[i] = "abort" =>
        \A c \in ManagedCids : vm[c] # i => vm'[c] = vm[c]
<1>1. ASSUME TypeOK, [Next]_vars PROVE [Selective]_vars
  <2> SUFFICES ASSUME Next, NEW i \in Instances, pc[i] = "cleanup", pc'[i] = "abort",
                      NEW c \in ManagedCids, vm[c] # i
               PROVE  vm'[c] = vm[c]
    BY <1>1, Zenon
  <2>1. ASSUME NEW j \in Instances, TerminateEnclave(j), j = i PROVE vm'[c] = vm[c]
    BY <2>1, Zenon DEF TerminateEnclave, Without, TerminateTarget
  <2>2. ASSUME NEW j \in Instances, Progress(j) \/ AwaitExit(j) \/ Cancel(j) \/ Crash(j)
        PROVE  j = i
    <3> SUFFICES ASSUME j # i PROVE pc'[i] = pc[i]
      BY Zenon
    <3>1. CASE \/ EnsureBudget(j) \/ SelectPorts(j) \/ StartEgressProxy(j)
               \/ StartHostfsProxy(j) \/ HostfsProxiesStarted(j)
               \/ StartClockSyncServer(j)
      BY <1>1, <3>1, ZenonT(30)
         DEF EnsureBudget, SelectPorts, StartEgressProxy, StartHostfsProxy,
             HostfsProxiesStarted, StartClockSyncServer, Bind, BindInUse,
             StartError, NextMount, Return, Unwind, Goto, TypeOK
    <3>2. CASE \/ RunEnclave(j) \/ AttachDebugConsole(j) \/ StartIngressProxy(j)
               \/ AwaitExit(j) \/ ObserveCancellation(j)
      BY <1>1, <3>2, ZenonT(30)
         DEF RunEnclave, EnclaveStarts, CidConflict, StartFails, AttachDebugConsole,
             StartIngressProxy, AwaitExit, ObserveCancellation, Unwind, Goto, TypeOK
    <3>3. CASE \/ TerminateEnclave(j) \/ AbortTask(j) \/ TasksAborted(j)
               \/ Cancel(j) \/ Crash(j)
      BY <1>1, <3>3, Zenon
         DEF TerminateEnclave, AbortTask, TasksAborted, Cancel, Crash, Return,
             Unwind, Goto, TypeOK
    <3> QED BY <2>2, <3>1, <3>2, <3>3, Zenon DEF Progress
  <2>3. \A d \in ManagedCids : ~EnclaveDies(d) /\ ~ForeignStart(d)
    BY Zenon DEF EnclaveDies, ForeignStart
  <2>4. TerminateEnclave(i)
    <3>1. Progress(i) \/ AwaitExit(i) \/ Cancel(i) \/ Crash(i)
      BY <2>2, <2>3, Zenon DEF Next
    <3> QED
      BY <1>1, <3>1, ZenonT(30) DEF Progress, EnsureBudget, SelectPorts, StartEgressProxy,
          StartHostfsProxy, HostfsProxiesStarted, StartClockSyncServer, RunEnclave,
          AttachDebugConsole, StartIngressProxy, AwaitExit, ObserveCancellation,
          AbortTask, TasksAborted, Cancel, Crash, Goto, TypeOK
  <2> QED BY <2>1, <2>4, Zenon
<1> QED BY <1>1, TypeCorrect, PTL DEF Spec, TerminatesOnlyOwn
=============================================================================
