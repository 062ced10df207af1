--------------------------- MODULE MCConversation ---------------------------
(***************************************************************************)
(* One group, of a workspace or personal, with room for three of its four  *)
(* people, and two requests at a time.  Nobody is told apart by the        *)
(* initial state.                                                          *)
(***************************************************************************)
EXTENDS Conversation, TLC

Symmetric == Permutations(Members) \union Permutations(Workers)
Workspace == [g \in Groups |-> "WORKSPACE"]
Personal == [g \in Groups |-> "PERSONAL"]
=============================================================================
