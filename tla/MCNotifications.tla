--------------------------- MODULE MCNotifications ---------------------------
(* A member with one device, and what the other services say of him.         *)
EXTENDS Notifications, TLC

CONSTANTS ann, chat, phone, e1, e2, e3, e4, e5, e6

MCOwner == phone :> ann

MCContent ==
    e1 :> [topic |-> "member.created", member |-> ann, status |-> "INVITED"]
    @@ e2 :> [topic |-> "member.changed", member |-> ann, status |-> "ACTIVE"]
    @@ e3 :> [topic |-> "conversation", conversation |-> chat, status |-> "ACTIVE",
              members |-> {ann}]
    @@ e4 :> [topic |-> "participant.added", conversation |-> chat, member |-> ann]
    @@ e5 :> [topic |-> "message", conversation |-> chat, sender |-> Stranger]
    @@ e6 :> [topic |-> "member.changed", member |-> ann, status |-> "LEFT"]
=============================================================================
