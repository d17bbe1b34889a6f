-------------------------- MODULE MCLoopbackMount --------------------------
(* Bindings for model-checking LoopbackMount. *)
EXTENDS LoopbackMount, TLC

CONSTANTS p1, p2, d1, d2

\* Two runs with the same two directories, in opposite order; they disagree on
\* the size of one of them.
Crossed == p1 :> <<d1, d2>> @@ p2 :> <<d2, d1>>
Resized == p1 :> <<1, 1>> @@ p2 :> <<1, 2>>
=============================================================================
