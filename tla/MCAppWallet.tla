---------------------------- MODULE MCAppWallet ----------------------------
(* Instances of AppWallet for TLC. *)
EXTENDS AppWallet, TLC

CONSTANTS A, B, r1, r2

\* One request at a time in each of two instances.
Apart == r1 :> A @@ r2 :> B
=============================================================================
