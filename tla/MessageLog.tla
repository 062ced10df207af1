----------------------------- MODULE MessageLog -----------------------------
(***************************************************************************)
(* What messaging-service promises about the history of a conversation,    *)
(* without transactions, locks or retries: a history only ever grows at    *)
(* its end, one entry per client message key, a fan-out reaches all of its *)
(* conversations at once.  Module Messaging implements it.                 *)
(***************************************************************************)
EXTENDS Naturals

CONSTANTS
    Conversations,      \* conversation ids
    Keys                \* idempotency keys: (sender_device_id, client_message_id)

VARIABLES
    history,    \* the entries of all conversations
    length      \* how many entries each conversation has

vars == <<history, length>>

HasKey(c, k) == \E e \in history : e.conv = c /\ e.key = k

Init ==
    /\ history = {}
    /\ length = [c \in Conversations |-> 0]

\* The message of key k becomes the next entry of every conversation of S.
Append(k, S) ==
    LET new == {[conv |-> c, seq |-> length[c] + 1, key |-> k] : c \in S}
    IN  /\ S # {}
        /\ \A c \in S : ~HasKey(c, k)
        /\ history' = history \union new
        /\ length' = [c \in Conversations |->
                        IF c \in S THEN length[c] + 1 ELSE length[c]]

Next == \E k \in Keys, S \in SUBSET Conversations : Append(k, S)

Spec == Init /\ [][Next]_vars
=============================================================================
