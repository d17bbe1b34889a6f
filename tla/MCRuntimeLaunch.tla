-------------------------- MODULE MCRuntimeLaunch --------------------------
(* Manifests for model-checking RuntimeLaunch. *)
EXTENDS RuntimeLaunch

\* Everything is configured: a required and an optional mount, two Helios
\* chains of which registry KMS needs the first, two ingress ports.
Full == [tasks |-> TaskServices, mounts |-> <<TRUE, FALSE>>, helios |-> {1, 2},
         registry |-> TRUE, ports |-> 2]
=============================================================================
