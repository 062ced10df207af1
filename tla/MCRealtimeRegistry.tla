------------------------- MODULE MCRealtimeRegistry -------------------------
(***************************************************************************)
(* A member x on one instance and a member y on another, which has the id  *)
(* of the consumer process.                                                *)
(***************************************************************************)
EXTENDS RealtimeRegistry, TLC

CONSTANTS a, b, x, y, i, j

Who == a :> x @@ b :> y
Where == a :> i @@ b :> j
HowMany == a :> 1 @@ b :> 2
=============================================================================
