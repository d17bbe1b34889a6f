----------------------------- MODULE MCHostRun -----------------------------
(* Instances of HostRun for TLC. *)
EXTENDS HostRun, TLC

CONSTANTS A, B

\* The two have nothing but clock sync in common, so that a reservation on
\* one CID collides late or, when clock sync is given up, not at all.
ManifestMixed == A :> [egress |-> TRUE, mounts |-> <<>>, clock |-> TRUE,
                       ingress |-> 0, debug |-> TRUE]
              @@ B :> [egress |-> FALSE, mounts |-> <<"absent", "bound">>,
                       clock |-> TRUE, ingress |-> 1, debug |-> FALSE]

\* An unrelated process sits on the clock sync port of the last CID.
LastClockPortTaken == {ClockSyncPort(ManagedCidEnd)}
=============================================================================
