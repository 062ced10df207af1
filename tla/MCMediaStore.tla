---------------------------- MODULE MCMediaStore ----------------------------
(***************************************************************************)
(* A simple and a multipart upload of different sizes, and a message that  *)
(* carries the first.                                                      *)
(***************************************************************************)
EXTENDS MediaStore, TLC

CONSTANTS p, q, g

Strategies == (p :> "SIMPLE") @@ (q :> "MULTIPART")
Sizes == (p :> 1) @@ (q :> 2)
Carried == [k \in Messages |-> p]
Symmetric == Permutations(Workers)
=============================================================================
