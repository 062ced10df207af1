------------------------- MODULE MCIdentitySessions -------------------------
(***************************************************************************)
(* Devices and workers are interchangeable.                                *)
(***************************************************************************)
EXTENDS IdentitySessions, TLC

Symmetric == Permutations(Workers) \union Permutations(Device)
=============================================================================
