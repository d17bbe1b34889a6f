---------------------------- MODULE RuntimeVsock ----------------------------
(***************************************************************************)
(* Derivation of the host-side runtime VSOCK ports from an enclave CID     *)
(* (runtime_vsock.rs, constants.rs).  The shell on the host and the        *)
(* runtime inside the enclave both evaluate these functions, each from its *)
(* own knowledge of the CID, and must arrive at the same ports.            *)
(*                                                                         *)
(* Every CID owns a block of PortStride consecutive ports.  The arithmetic *)
(* is checked u32 arithmetic: a result beyond U32Max is an error.          *)
(***************************************************************************)
EXTENDS Integers

CONSTANTS
  PortBase,          \* HOST_RUNTIME_VSOCK_PORT_BASE
  PortStride,        \* HOST_RUNTIME_VSOCK_PORT_STRIDE
  EgressOffset,      \* HOST_RUNTIME_EGRESS_OFFSET
  ClockSyncOffset,   \* HOST_RUNTIME_CLOCK_SYNC_OFFSET
  HostfsOffsetBase,  \* HOST_RUNTIME_HOSTFS_OFFSET_BASE
  HostfsCapacity,    \* HOST_RUNTIME_HOSTFS_CAPACITY
  ManagedCidStart,   \* CAPSULE_MANAGED_CID_START
  ManagedCidEnd,     \* CAPSULE_MANAGED_CID_END
  U32Max             \* u32::MAX

ASSUME LayoutAssumption ==
  /\ PortBase \in Nat /\ PortStride \in Nat /\ U32Max \in Nat
  /\ EgressOffset \in Nat /\ ClockSyncOffset \in Nat
  /\ HostfsOffsetBase \in Nat /\ HostfsCapacity \in Nat
  /\ ManagedCidStart \in Nat /\ ManagedCidEnd \in Nat
  /\ 0 < PortStride
  /\ EgressOffset # ClockSyncOffset
  /\ EgressOffset < HostfsOffsetBase
  /\ ClockSyncOffset < HostfsOffsetBase
  /\ HostfsOffsetBase + HostfsCapacity <= PortStride
  /\ 4 <= ManagedCidStart /\ ManagedCidStart <= ManagedCidEnd
  /\ PortBase + ManagedCidEnd * PortStride + PortStride <= U32Max

ManagedCids == ManagedCidStart .. ManagedCidEnd

\* runtime_block_base: the first port of a CID's block, when it fits into u32.
RuntimeBlockBase(cid) == PortBase + cid * PortStride

RuntimeBlockFits(cid) ==
  /\ cid * PortStride <= U32Max
  /\ RuntimeBlockBase(cid) <= U32Max

\* validate_enclave_cid: CIDs below 4 are reserved, and the block must fit.
ValidEnclaveCid(cid) == 4 <= cid /\ RuntimeBlockFits(cid)

Port(cid, offset) == RuntimeBlockBase(cid) + offset

EgressPort(cid) == Port(cid, EgressOffset)

ClockSyncPort(cid) == Port(cid, ClockSyncOffset)

\* RuntimeHostVsockPorts::for_cid succeeds exactly on these CIDs.
ForCidOk(cid) ==
  /\ ValidEnclaveCid(cid)
  /\ EgressPort(cid) <= U32Max
  /\ ClockSyncPort(cid) <= U32Max
  /\ Port(cid, HostfsOffsetBase) <= U32Max

\* hostfs_mount_port succeeds exactly on these mount indices (from 0).
HostfsMountPortOk(cid, index) ==
  /\ index < HostfsCapacity
  /\ Port(cid, HostfsOffsetBase) + index <= U32Max

HostfsMountPort(cid, index) == Port(cid, HostfsOffsetBase) + index

\* allocate_managed_enclave_cid scans upwards: its result is the lowest
\* managed CID that is not in used.  It fails when there is none.
FreeCids(used) == ManagedCids \ used

LowestFree(used, cid) ==
  /\ cid \in FreeCids(used)
  /\ \A other \in FreeCids(used) : cid <= other

\* The ports of a CID's block.
Block(cid) == RuntimeBlockBase(cid) .. (RuntimeBlockBase(cid) + PortStride - 1)
=============================================================================
