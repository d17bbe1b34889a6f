----------------------------- MODULE MCKmsNodes -----------------------------
(* An instance of KmsNodes for TLC. *)
EXTENDS KmsNodes

CONSTANTS u1, u2, r1

TwoUrls == <<u1, u2>>
=============================================================================
