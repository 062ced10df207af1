------------------------- MODULE MCMessageLifecycle -------------------------
(***************************************************************************)
(* A text message and a media message of another member; all clocks agree. *)
(***************************************************************************)
EXTENDS MessageLifecycle, TLC

CONSTANTS a, b, i, j

Symmetric == Permutations(Texts) \union Permutations(Workers)
Kinds == [s \in Messages |-> IF s = 1 THEN "TEXT" ELSE "MEDIA"]
Senders == [s \in Messages |-> IF s = 1 THEN a ELSE b]
Agreed == [k \in Instances |-> 0]
=============================================================================
