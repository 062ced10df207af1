------------------------- MODULE MCSendAuthorization -------------------------
(***************************************************************************)
(* A group and a direct chat of two members, and a personal chat of the    *)
(* same two, one of whom has saved the other.                              *)
(***************************************************************************)
EXTENDS SendAuthorization, TLC

CONSTANTS a, b, group, direct, personal

Begun == group :> {a} @@ direct :> {a, b} @@ personal :> {a, b}
OneContact == {<<a, b>>}
=============================================================================
