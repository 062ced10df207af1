----------------------------- MODULE MCMessaging -----------------------------
(***************************************************************************)
(* Messaging with two requests at a time.  k1 opens conversation c1; k2    *)
(* answers its first message there or, refused, in c2; k3 forwards         *)
(* whatever there is to c2; b1 and b2 are fan-outs to the same two         *)
(* conversations, in any order.                                            *)
(***************************************************************************)
EXTENDS Messaging

CONSTANTS c1, c2, k1, k2, k3, b1, b2

Send(k, c, t, r) == [key |-> k, conv |-> c, kind |-> t, reply |-> r]

MCRequests ==
    {Send(k1, c1, "TEXT", NoReply), Send(k2, c1, "TEXT", <<c1, 1>>),
     Send(k2, c2, "TEXT", <<c1, 1>>), Send(k3, c2, "FORWARD", NoReply)}

MCRecipients == [b \in {b1, b2} |-> {c1, c2}]
=============================================================================
