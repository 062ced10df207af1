--------------------------- MODULE MCOrganization ---------------------------
(***************************************************************************)
(* Users and requests are interchangeable.  The custom role, which can     *)
(* give roles, may be made and is given to nobody: see Given.              *)
(***************************************************************************)
EXTENDS Organization, TLC

Custom == {{"role.manage"}}

Symmetric == Permutations(User) \union Permutations(Requests)
=============================================================================
