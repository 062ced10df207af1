------------------------- MODULE NotificationsProofs -------------------------
(***************************************************************************)
(* Proofs about Notifications, for any members, conversations, devices,    *)
(* events, workers and faults.                                             *)
(***************************************************************************)
EXTENDS Notifications, TLAPS

\* What a worker has in memory it has once; and unless it took too long over a row,
\* the row is under its claim, which nobody can take from it.
HoldInv ==
    \A w \in Workers :
        /\ current[w] \notin batch[w]
        /\ \A d \in InMemory(w) : d \notin late =>
              /\ claim[d] = w
              /\ status[d] \in {"SENDING", "CANCELLED"}
              /\ d \notin stale

IInv == TypeOK /\ OncePerConsumer /\ DepartedGetNothing /\ HoldInv /\ OutcomeTold

-----------------------------------------------------------------------------
(* What the consumers do to the tables.                                    *)

LEMMA FanoutType ==
  ASSUME TypeOK, NEW N \in SUBSET Notification, Fanout(N)
  PROVE  /\ notifications' \subseteq Notification
         /\ status' \in [Delivery -> {"none", "PENDING", "SENDING", "SENT", "FAILED", "CANCELLED"}]
  BY DEF TypeOK, TablesOK, Fanout

LEMMA ContentType ==
  ASSUME NEW e \in EventIds, NEW x, x = Content[e]
  PROVE  /\ x.topic \in {"member.created", "member.changed"} =>
               x.member \in Members /\ x.status \in OrgStatus
         /\ x.topic = "conversation" =>
               /\ x.conversation \in Conversations
               /\ x.status \in {"ACTIVE", "CLOSED"}
               /\ x.members \subseteq Members
         /\ x.topic \in {"participant.added", "participant.changed", "participant.gone"} =>
               x.conversation \in Conversations /\ x.member \in Members
         /\ x.topic = "message" => x.conversation \in Conversations
<1>1. x \in Contents
  BY NotificationsAssumption
<1> QED
  BY <1>1 DEF Contents

LEMMA HandleType ==
  ASSUME TypeOK, NEW q \in Queues, NEW e \in EventIds,
         Content[e].topic \in Bound(q), Handle(q, e)
  PROVE  /\ membership' \in [Members -> OrgStatus \cup {"none"}]
         /\ conversation' \in [Conversations -> {"none", "ACTIVE", "CLOSED"}]
         /\ participants' \in [Conversations -> SUBSET Members]
         /\ notifications' \subseteq Notification
         /\ status' \in [Delivery -> {"none", "PENDING", "SENDING", "SENT", "FAILED", "CANCELLED"}]
<1> DEFINE x == Content[e]
<1>1. CASE Project(x)
  <2>1. CASE x.topic \in {"member.created", "member.changed"}
                /\ ProjectMembership(x.member, x.status)
    BY <2>1, ContentType DEF TypeOK, TablesOK, ProjectMembership
  <2>2. CASE x.topic = "conversation" /\ ProjectConversation(x.conversation, x.status, x.members)
    BY <2>2, ContentType DEF TypeOK, TablesOK, ProjectConversation, rowVars
  <2>3. CASE x.topic \in {"participant.added", "participant.changed"} /\ ProjectParticipants(
                x.conversation, participants[x.conversation] \cup {x.member})
    BY <2>3, ContentType DEF TypeOK, TablesOK, ProjectParticipants, rowVars
  <2>4. CASE x.topic = "participant.gone" /\ ProjectParticipants(
                x.conversation, participants[x.conversation] \ {x.member})
    BY <2>4, ContentType DEF TypeOK, TablesOK, ProjectParticipants, rowVars
  <2> QED
    BY <1>1, <2>1, <2>2, <2>3, <2>4 DEF Project
<1>2. CASE NotifyOrganization(x)
  <2>1. PICK N \in SUBSET Notification : Fanout(N)
    BY <1>2, ContentType DEF NotifyOrganization, Notification
  <2> QED
    BY <2>1, FanoutType DEF Fanout, projectionVars, TypeOK, TablesOK
<1>3. CASE q = "message-created" /\ NotifyMessage(e, x)
  <2>1. x.topic = "message" /\ e \in Messages
    BY <1>3 DEF Bound, Messages, Queues
  <2>2. participants[x.conversation] \subseteq Members
    BY <2>1, ContentType DEF TypeOK, TablesOK
  <2>3. PICK N \in SUBSET Notification : Fanout(N)
    BY <1>3, <2>1, <2>2 DEF NotifyMessage, Notification
  <2> QED
    BY <2>3, FanoutType DEF Fanout, projectionVars, TypeOK, TablesOK
<1> QED
  BY <1>1, <1>2, <1>3 DEF Handle

\* A consumer creates rows and cancels rows, and tells of notifications only.
LEMMA HandleRows ==
  ASSUME TypeOK, NEW q \in Queues, NEW e \in EventIds, Handle(q, e)
  PROVE  /\ \A d \in Delivery :
               \/ status'[d] = status[d]
               \/ status[d] = "none" /\ status'[d] = "PENDING"
               \/ status[d] \in Unfinished /\ status'[d] = "CANCELLED"
         /\ UNCHANGED <<attempts, claim, stale>>
         /\ \A d \in Delivery, k \in {"notification.sent", "notification.failed"} :
               <<k, d>> \in outbox' <=> <<k, d>> \in outbox
<1> DEFINE x == Content[e]
<1>1. CASE Project(x)
  BY <1>1 DEF Project, ProjectMembership, ProjectConversation, ProjectParticipants,
              rowVars, Cancelled, TypeOK, TablesOK
<1>2. ASSUME NEW N, Fanout(N)
      PROVE  /\ \A d \in Delivery :
                   \/ status'[d] = status[d]
                   \/ status[d] = "none" /\ status'[d] = "PENDING"
             /\ UNCHANGED <<attempts, claim, stale>>
             /\ \A d \in Delivery, k \in {"notification.sent", "notification.failed"} :
                   <<k, d>> \in outbox' <=> <<k, d>> \in outbox
  <2>1. PICK heard : outbox' = outbox \cup ({"notification.created"} \X heard)
    BY <1>2 DEF Fanout
  <2> QED
    BY <1>2, <2>1 DEF Fanout, TypeOK, TablesOK
<1>3. CASE NotifyOrganization(x) \/ NotifyMessage(e, x)
  <2>1. \E N : Fanout(N)
    BY <1>3 DEF NotifyOrganization, NotifyMessage
  <2> QED
    BY <2>1, <1>2
<1> QED
  BY <1>1, <1>3 DEF Handle

\* A consumer leaves a departed member without an unfinished delivery.
LEMMA HandleDeparted ==
  ASSUME TypeOK, DepartedGetNothing, NEW q \in Queues, NEW e \in EventIds,
         Content[e].topic \in Bound(q), Handle(q, e)
  PROVE  DepartedGetNothing'
<1> DEFINE x == Content[e]
<1>1. CASE Project(x)
  <2>1. CASE x.topic \in {"member.created", "member.changed"}
                /\ ProjectMembership(x.member, x.status)
    <3> SUFFICES ASSUME NEW d \in Delivery, membership'[d[1].member] \in Departed
                 PROVE  status'[d] \notin Unfinished
      BY DEF DepartedGetNothing
    <3>1. membership' = [membership EXCEPT ![x.member] = x.status]
      BY <2>1 DEF ProjectMembership
    <3>2. status'[d] = IF d \in Cancelled(x.member, x.status) THEN "CANCELLED" ELSE status[d]
      BY <2>1 DEF ProjectMembership
    <3>3. CASE d[1].member = x.member /\ x.status \in Departed
      BY <3>2, <3>3 DEF Cancelled, Unfinished
    <3>4. CASE membership[d[1].member] \in Departed
      BY <3>2, <3>4 DEF DepartedGetNothing, Unfinished
    <3>5. x.member \in Members /\ membership \in [Members -> OrgStatus \cup {"none"}]
      BY <2>1, ContentType DEF TypeOK, TablesOK
    <3> QED
      BY <3>1, <3>3, <3>4, <3>5
  <2>2. CASE UNCHANGED <<membership, status>>
    BY <2>2 DEF DepartedGetNothing
  <2> QED
    BY <1>1, <2>1, <2>2 DEF Project, ProjectConversation, ProjectParticipants, rowVars
<1>2. ASSUME NEW N, Fanout(N) PROVE DepartedGetNothing'
  BY <1>2 DEF Fanout, DepartedGetNothing, projectionVars, Inactive, Unfinished
<1>3. CASE NotifyOrganization(x) \/ NotifyMessage(e, x)
  <2>1. \E N : Fanout(N)
    BY <1>3 DEF NotifyOrganization, NotifyMessage
  <2> QED
    BY <2>1, <1>2
<1> QED
  BY <1>1, <1>3 DEF Handle

-----------------------------------------------------------------------------
(* One step.                                                               *)

LEMMA FaultType ==
  ASSUME faults \in 0 .. MaxFaults, NEW k, Fault(k)
  PROVE  faults' \in 0 .. MaxFaults
  BY NotificationsAssumption DEF Fault

LEMMA TablesStep == TypeOK /\ [Next]_vars => TablesOK'
<1> SUFFICES ASSUME TablesOK, WorkersOK, [Next]_vars PROVE TablesOK'
  BY DEF TypeOK
<1>1. ASSUME NEW t \in Tokens, RegisterToken(t) \/ RemoveToken(t) PROVE TablesOK'
  BY <1>1 DEF TablesOK, RegisterToken, RemoveToken, inboxVars, projectionVars, rowVars,
              boundVars
<1>2. ASSUME NEW q \in Queues, NEW e \in EventIds, Consume(q, e) PROVE TablesOK'
  <2>1. Content[e].topic \in Bound(q) /\ Handle(q, e)
    BY <1>2 DEF Consume, Waiting
  <2>2. UNCHANGED <<attempts, claim, stale>>
    BY <2>1, HandleRows DEF TypeOK
  <2>3. faults' \in 0 .. MaxFaults
    BY <1>2, FaultType DEF Consume, TablesOK
  <2>4. acked' \in [Queues -> SUBSET EventIds] /\ processed' \subseteq EventIds
    <3>1. acked' = acked \/ acked' = [acked EXCEPT ![q] = @ \cup {e}]
      BY <1>2 DEF Consume
    <3>2. processed' = processed \cup {e}
      BY <1>2 DEF Consume
    <3> QED
      BY <3>1, <3>2 DEF TablesOK
  <2>5. handled' \in [Queues -> [EventIds -> Nat]]
    <3>1. handled' = [handled EXCEPT ![q][e] = @ + 1]
      BY <1>2 DEF Consume
    <3>2. handled \in [Queues -> [EventIds -> Nat]]
      BY DEF TablesOK
    <3>3. [handled[q] EXCEPT ![e] = @ + 1] \in [EventIds -> Nat]
      BY <3>2
    <3> QED
      BY <3>1, <3>2, <3>3
  <2> QED
    BY <1>2, <2>1, <2>2, <2>3, <2>4, <2>5, HandleType DEF Consume, TablesOK, TypeOK
<1>3. ASSUME NEW q \in Queues, NEW e \in EventIds, ConsumeAgain(q, e) PROVE TablesOK'
  BY <1>3 DEF ConsumeAgain, TablesOK, projectionVars, rowVars, boundVars
<1>4. ASSUME NEW w \in Workers, Claim(w) PROVE TablesOK'
  <2>1. PICK rows \in SUBSET Claimable :
           /\ status' = [d \in Delivery |-> IF d \in rows THEN "SENDING" ELSE status[d]]
           /\ claim' = [d \in Delivery |-> IF d \in rows THEN w ELSE claim[d]]
           /\ stale' = stale \ rows
    BY <1>4 DEF Claim
  <2> QED
    BY <1>4, <2>1 DEF Claim, TablesOK, inboxVars, projectionVars, boundVars
<1>5. ASSUME NEW w \in Workers, Send(w) PROVE TablesOK'
  <2>1. faults' \in 0 .. MaxFaults
    BY <1>5, FaultType DEF Send, TablesOK
  <2> QED
    BY <1>5, <2>1 DEF Send, TablesOK, inboxVars, projectionVars, rowVars
<1>6. ASSUME NEW w \in Workers, Write(w) PROVE TablesOK'
  <2>1. current[w] \in Delivery
    BY <1>6 DEF Write, WorkersOK
  <2>2. /\ attempts' = [attempts EXCEPT ![current[w]] = @ + 1]
        /\ status' = [status EXCEPT ![current[w]] = Outcome(w)]
        /\ claim' = [claim EXCEPT ![current[w]] = Nobody]
        /\ stale' = stale \ {current[w]}
        /\ enabled' \subseteq enabled
    BY <1>6 DEF Write
  <2>3. attempts' \in [Delivery -> Nat]
    BY <2>1, <2>2 DEF TablesOK
  <2>4. /\ status' \in [Delivery -> {"none", "PENDING", "SENDING", "SENT", "FAILED", "CANCELLED"}]
        /\ claim' \in [Delivery -> Workers \cup {Nobody}]
        /\ stale' \subseteq Delivery
        /\ enabled' \subseteq Tokens
    BY <2>1, <2>2 DEF TablesOK, Outcome
  <2> QED
    BY <1>6, <2>3, <2>4 DEF Write, TablesOK, inboxVars, projectionVars, boundVars
<1>7. ASSUME NEW w \in Workers, Crash(w) PROVE TablesOK'
  <2>1. faults' \in 0 .. MaxFaults
    BY <1>7, FaultType DEF Crash, TablesOK
  <2> QED
    BY <1>7, <2>1 DEF Crash, TablesOK, inboxVars, projectionVars, rowVars
<1>8. ASSUME NEW d \in Delivery, Expire(d) \/ ExpireInHand(d) PROVE TablesOK'
  <2>1. faults' \in 0 .. MaxFaults
    BY <1>8, FaultType DEF Expire, ExpireInHand, TablesOK, boundVars
  <2> QED
    BY <1>8, <2>1 DEF Expire, ExpireInHand, TablesOK, inboxVars, projectionVars, boundVars
<1>9. CASE UNCHANGED <<inboxVars, projectionVars, enabled, notifications, rowVars, boundVars>>
  BY <1>9 DEF TablesOK, inboxVars, projectionVars, rowVars, boundVars
<1> QED
  BY <1>1, <1>2, <1>3, <1>4, <1>5, <1>6, <1>7, <1>8, <1>9
     DEF Next, WorkerStep, vars, Load, Finalize, FinalizeFails, Restart

LEMMA WorkersStep == TypeOK /\ [Next]_vars => WorkersOK'
<1> SUFFICES ASSUME TablesOK, WorkersOK, [Next]_vars PROVE WorkersOK'
  BY DEF TypeOK
<1>1. ASSUME NEW w \in Workers, Claim(w) PROVE WorkersOK'
  <2>1. PICK rows \in SUBSET Claimable : batch' = [batch EXCEPT ![w] = rows]
    BY <1>1 DEF Claim
  <2> QED
    BY <1>1, <2>1 DEF Claim, Claimable, WorkersOK
<1>2. ASSUME NEW w \in Workers, NEW d \in Delivery, Load(w, d) PROVE WorkersOK'
  <2>1. batch' \in [Workers -> SUBSET Delivery] /\ d # Nobody
    BY <1>2, NotificationsAssumption DEF Load, WorkersOK
  <2>2. CASE UNCHANGED <<phase, current, answer>>
    BY <2>1, <2>2 DEF WorkersOK
  <2>3. CASE /\ phase' = [phase EXCEPT ![w] = "answered"]
             /\ current' = [current EXCEPT ![w] = d]
             /\ answer' = [answer EXCEPT ![w] = "token invalid"]
    BY <2>1, <2>3 DEF WorkersOK, Phases, Answers
  <2>4. CASE /\ phase' = [phase EXCEPT ![w] = "sending"]
             /\ current' = [current EXCEPT ![w] = d]
             /\ UNCHANGED answer
    BY <1>2, <2>1, <2>4 DEF Load, WorkersOK, Phases, Answers
  <2> QED
    BY <1>2, <2>2, <2>3, <2>4 DEF Load
<1>3. ASSUME NEW w \in Workers, Send(w) PROVE WorkersOK'
  <2>1. PICK a \in Answers : answer' = [answer EXCEPT ![w] = a]
    BY <1>3 DEF Send, Answers
  <2> QED
    BY <1>3, <2>1 DEF Send, WorkersOK, Phases, Answers
<1>4. ASSUME NEW w \in Workers, Finalize(w) PROVE WorkersOK'
  BY <1>4 DEF Finalize, WorkersOK, Phases, Answers
<1>5. ASSUME NEW w \in Workers, Write(w) PROVE WorkersOK'
  BY <1>5 DEF Write, WorkersOK, Phases, Answers
<1>6. ASSUME NEW w \in Workers, Stop(w) PROVE WorkersOK'
  BY <1>6 DEF Stop, WorkersOK, Phases, Answers
<1>7. ASSUME NEW w \in Workers, Restart(w) PROVE WorkersOK'
  BY <1>7 DEF Restart, WorkersOK, Phases, Answers
<1>8. CASE UNCHANGED workerVars
  BY <1>8 DEF WorkersOK, workerVars
<1> QED
  BY <1>1, <1>2, <1>3, <1>4, <1>5, <1>6, <1>7, <1>8
     DEF Next, WorkerStep, vars, RegisterToken, RemoveToken, Consume, ConsumeAgain,
         FinalizeFails, Crash, Expire, ExpireInHand

LEMMA TypeStep == TypeOK /\ [Next]_vars => TypeOK'
  BY TablesStep, WorkersStep DEF TypeOK

LEMMA AppliedStep == TypeOK /\ OncePerConsumer /\ [Next]_vars => OncePerConsumer'
<1> SUFFICES ASSUME TypeOK, OncePerConsumer, [Next]_vars PROVE OncePerConsumer'
  OBVIOUS
<1>1. ASSUME NEW q \in Queues, NEW e \in EventIds, Consume(q, e) PROVE OncePerConsumer'
  <2>1. /\ e \notin processed
        /\ processed' = processed \cup {e}
        /\ handled' = [handled EXCEPT ![q][e] = @ + 1]
    BY <1>1 DEF Consume
  <2>2. handled \in [Queues -> [EventIds -> Nat]]
    BY DEF TypeOK, TablesOK
  <2>3. \A p \in Queues, d \in EventIds :
           handled'[p][d] = IF p = q /\ d = e THEN handled[p][d] + 1 ELSE handled[p][d]
    BY <2>1, <2>2
  <2>4. \A p \in Queues : handled[p][e] = 0
    BY <2>1, <2>2 DEF OncePerConsumer
  <2>5. \A p \in Queues : acked'[p] \subseteq processed'
    <3> SUFFICES ASSUME NEW p \in Queues PROVE acked'[p] \subseteq processed'
      OBVIOUS
    <3>1. acked' = acked \/ acked' = [acked EXCEPT ![q] = @ \cup {e}]
      BY <1>1 DEF Consume
    <3>2. acked'[p] \subseteq acked[p] \cup {e}
      BY <3>1 DEF TypeOK, TablesOK
    <3> QED
      BY <2>1, <3>2 DEF OncePerConsumer
  <2>6. \A d \in EventIds : d \in processed' <=> \E p \in Queues : handled'[p][d] > 0
    <3>1. handled'[q][e] = 1
      BY <2>3, <2>4
    <3>2. \A d \in EventIds, p \in Queues : d # e => handled'[p][d] = handled[p][d]
      BY <2>3
    <3>3. \A d \in EventIds : d # e => (d \in processed' <=> d \in processed)
      BY <2>1
    <3> QED
      BY <2>1, <3>1, <3>2, <3>3 DEF OncePerConsumer
  <2>7. \A p \in Queues, d \in EventIds : handled'[p][d] <= 1
    BY <2>2, <2>3, <2>4 DEF OncePerConsumer
  <2> QED
    BY <2>5, <2>6, <2>7 DEF OncePerConsumer
<1>2. ASSUME NEW q \in Queues, NEW e \in EventIds, ConsumeAgain(q, e) PROVE OncePerConsumer'
  BY <1>2 DEF ConsumeAgain, OncePerConsumer, TypeOK, TablesOK
<1>3. CASE UNCHANGED inboxVars
  BY <1>3 DEF inboxVars, OncePerConsumer
<1> QED
  BY <1>1, <1>2, <1>3 DEF Next, WorkerStep, vars, RegisterToken, RemoveToken, Claim, Load,
     Send, Finalize, Write, FinalizeFails, Restart, Crash, Expire, ExpireInHand

LEMMA DepartedStep == TypeOK /\ DepartedGetNothing /\ [Next]_vars => DepartedGetNothing'
<1> SUFFICES ASSUME TypeOK, DepartedGetNothing, [Next]_vars PROVE DepartedGetNothing'
  OBVIOUS
<1>1. ASSUME NEW q \in Queues, NEW e \in EventIds, Consume(q, e) PROVE DepartedGetNothing'
  BY <1>1, HandleDeparted DEF Consume, Waiting
<1>2. ASSUME NEW w \in Workers, Claim(w) PROVE DepartedGetNothing'
  <2>1. PICK rows \in SUBSET Claimable :
           status' = [d \in Delivery |-> IF d \in rows THEN "SENDING" ELSE status[d]]
    BY <1>2 DEF Claim
  <2>2. \A d \in rows : status[d] \in Unfinished
    BY DEF Claimable, Unfinished
  <2> QED
    BY <1>2, <2>1, <2>2 DEF Claim, DepartedGetNothing, projectionVars
<1>3. ASSUME NEW w \in Workers, Write(w) PROVE DepartedGetNothing'
  BY <1>3 DEF Write, Outcome, DepartedGetNothing, projectionVars, Unfinished, TypeOK, TablesOK
<1>4. CASE UNCHANGED <<projectionVars, status>>
  BY <1>4 DEF projectionVars, DepartedGetNothing
<1> QED
  BY <1>1, <1>2, <1>3, <1>4 DEF Next, WorkerStep, vars, rowVars, RegisterToken, RemoveToken,
     ConsumeAgain, Load, Send, Finalize, FinalizeFails, Restart, Crash, Expire, ExpireInHand

LEMMA HoldStep == TypeOK /\ HoldInv /\ [Next]_vars => HoldInv'
<1> SUFFICES ASSUME TypeOK, HoldInv, [Next]_vars PROVE HoldInv'
  OBVIOUS
<1> USE NotificationsAssumption
<1>0. \A w \in Workers : InMemory(w) \subseteq Delivery
  BY DEF InMemory, TypeOK, WorkersOK
<1>1. ASSUME NEW q \in Queues, NEW e \in EventIds, Consume(q, e) PROVE HoldInv'
  <2>1. Handle(q, e) /\ UNCHANGED <<workerVars, late>>
    BY <1>1 DEF Consume
  <2>2. \A d \in Delivery : status[d] \in {"SENDING", "CANCELLED"} =>
                              status'[d] \in {"SENDING", "CANCELLED"}
    BY <2>1, HandleRows DEF Unfinished
  <2>3. UNCHANGED <<claim, stale>>
    BY <2>1, HandleRows
  <2> QED
    BY <1>0, <2>1, <2>2, <2>3 DEF HoldInv, InMemory, workerVars
<1>2. ASSUME NEW w \in Workers, Claim(w) PROVE HoldInv'
  <2>1. PICK rows \in SUBSET Claimable :
           /\ status' = [d \in Delivery |-> IF d \in rows THEN "SENDING" ELSE status[d]]
           /\ claim' = [d \in Delivery |-> IF d \in rows THEN w ELSE claim[d]]
           /\ stale' = stale \ rows
           /\ batch' = [batch EXCEPT ![w] = rows]
    BY <1>2 DEF Claim
  <2>2. /\ current[w] = Nobody
        /\ batch[w] = {}
        /\ UNCHANGED <<current, late>>
    BY <1>2 DEF Claim, TypeOK, WorkersOK, boundVars
  <2>3. rows \subseteq Delivery
    BY DEF Claimable
  <2>4. \A v \in Workers : \A d \in InMemory(v) : d \notin late => d \notin rows
    <3>1. \A d \in rows : status[d] = "PENDING" \/ d \in stale
      BY DEF Claimable
    <3> QED
      BY <3>1 DEF HoldInv
  <2>5. \A v \in Workers : batch'[v] = IF v = w THEN rows ELSE batch[v]
    BY <2>1 DEF TypeOK, WorkersOK
  <2>6. \A d \in Delivery :
           /\ d \in rows => status'[d] = "SENDING" /\ claim'[d] = w /\ d \notin stale'
           /\ d \notin rows => status'[d] = status[d] /\ claim'[d] = claim[d]
           /\ d \notin stale => d \notin stale'
    BY <2>1
  <2>7. \A v \in Workers : v # w => InMemory(v)' = InMemory(v)
    BY <2>2, <2>5 DEF InMemory
  <2>8. InMemory(w)' = rows
    BY <2>2, <2>3, <2>5 DEF InMemory
  <2> SUFFICES ASSUME NEW v \in Workers
               PROVE  /\ current'[v] \notin batch'[v]
                      /\ \A d \in InMemory(v)' : d \notin late' =>
                            /\ claim'[d] = v
                            /\ status'[d] \in {"SENDING", "CANCELLED"}
                            /\ d \notin stale'
    BY DEF HoldInv
  <2>9. CASE v = w
    BY <2>2, <2>3, <2>5, <2>6, <2>8, <2>9
  <2>10. CASE v # w
    BY <1>0, <2>2, <2>4, <2>5, <2>6, <2>7, <2>10 DEF HoldInv
  <2> QED
    BY <2>9, <2>10
<1>3. ASSUME NEW w \in Workers, NEW d \in Delivery, Load(w, d) PROVE HoldInv'
  <2>1. /\ batch' = [batch EXCEPT ![w] = @ \ {d}]
        /\ d \in batch[w]
        /\ current' = current \/ current' = [current EXCEPT ![w] = d]
        /\ UNCHANGED <<status, claim, stale, late>>
    BY <1>3 DEF Load, rowVars, boundVars
  <2>2. \A v \in Workers : InMemory(v)' \subseteq InMemory(v) /\ current'[v] \notin batch'[v]
    BY <2>1 DEF InMemory, HoldInv, TypeOK, WorkersOK
  <2> QED
    BY <2>1, <2>2 DEF HoldInv
<1>4. ASSUME NEW w \in Workers, Write(w) PROVE HoldInv'
  <2> DEFINE d == current[w]
  <2>1. /\ status' = [status EXCEPT ![d] = Outcome(w)]
        /\ claim' = [claim EXCEPT ![d] = Nobody]
        /\ stale' = stale \ {d}
        /\ current' = [current EXCEPT ![w] = Nobody]
        /\ UNCHANGED <<batch, late>>
    BY <1>4 DEF Write, boundVars
  <2>2. d \in InMemory(w)
    BY <1>4 DEF Write, InMemory, TypeOK, WorkersOK
  <2>3. \A v \in Workers : InMemory(v)' \subseteq InMemory(v) /\ current'[v] \notin batch'[v]
    BY <2>1, <1>0 DEF InMemory, HoldInv, TypeOK, WorkersOK
  <2>4. d \notin InMemory(w)'
    BY <2>1 DEF InMemory, HoldInv, TypeOK, WorkersOK
  <2>5. \A v \in Workers : d \in InMemory(v)' => d \in late
    BY <2>2, <2>3, <2>4 DEF HoldInv
  <2>6. \A r \in Delivery : r # d => status'[r] = status[r] /\ claim'[r] = claim[r]
    BY <2>1 DEF TypeOK, TablesOK
  <2>7. \A r \in Delivery : r \notin stale => r \notin stale'
    BY <2>1
  <2>8. late' = late
    BY <2>1
  <2> HIDE DEF d
  <2> QED
    BY <1>0, <2>3, <2>5, <2>6, <2>7, <2>8 DEF HoldInv
<1>5. ASSUME NEW w \in Workers, Finalize(w) \/ FinalizeFails(w) \/ Crash(w) PROVE HoldInv'
  <2>1. /\ UNCHANGED <<status, claim, stale, late>>
        /\ batch' = batch \/ batch' = [batch EXCEPT ![w] = {}]
        /\ current' = current \/ current' = [current EXCEPT ![w] = Nobody]
    BY <1>5 DEF Finalize, FinalizeFails, Crash, Stop, rowVars, boundVars
  <2>2. \A v \in Workers : InMemory(v)' \subseteq InMemory(v) /\ current'[v] \notin batch'[v]
    BY <2>1, <1>0 DEF InMemory, HoldInv, TypeOK, WorkersOK
  <2> QED
    BY <2>1, <2>2 DEF HoldInv
<1>6. ASSUME NEW d \in Delivery, Expire(d) PROVE HoldInv'
  <2>1. /\ ~Held(d)
        /\ stale' = stale \cup {d}
        /\ UNCHANGED <<status, claim, late, workerVars>>
    BY <1>6 DEF Expire, boundVars
  <2>2. \A v \in Workers : InMemory(v)' = InMemory(v) /\ (d \in InMemory(v) => claim[d] # v)
    BY <2>1 DEF InMemory, workerVars, Held
  <2> QED
    BY <2>1, <2>2 DEF HoldInv, workerVars
<1>7. ASSUME NEW d \in Delivery, ExpireInHand(d) PROVE HoldInv'
  BY <1>7 DEF ExpireInHand, HoldInv, InMemory, workerVars
<1>8. CASE UNCHANGED <<rowVars, batch, current, late>>
  BY <1>8 DEF rowVars, HoldInv, InMemory
<1> QED
  BY <1>1, <1>2, <1>3, <1>4, <1>5, <1>6, <1>7, <1>8 DEF Next, WorkerStep, vars, workerVars,
     boundVars, RegisterToken, RemoveToken, ConsumeAgain, Send, Restart

LEMMA ToldStep == IInv /\ [Next]_vars => OutcomeTold'
<1> SUFFICES ASSUME IInv, [Next]_vars PROVE OutcomeTold'
  OBVIOUS
<1> USE DEF IInv
<1>1. ASSUME NEW q \in Queues, NEW e \in EventIds, Consume(q, e) PROVE OutcomeTold'
  <2>1. Handle(q, e) /\ late' = late
    BY <1>1 DEF Consume
  <2>2. \A d \in Delivery :
           \/ status'[d] = status[d]
           \/ status[d] \notin {"SENT", "FAILED"} /\ status'[d] \notin {"SENT", "FAILED"}
    BY <2>1, HandleRows DEF Unfinished
  <2>3. \A d \in Delivery, k \in {"notification.sent", "notification.failed"} :
           <<k, d>> \in outbox' <=> <<k, d>> \in outbox
    BY <2>1, HandleRows
  <2> QED
    BY <2>1, <2>2, <2>3 DEF OutcomeTold
<1>2. ASSUME NEW w \in Workers, Claim(w) PROVE OutcomeTold'
  <2>1. PICK rows \in SUBSET Claimable :
           status' = [d \in Delivery |-> IF d \in rows THEN "SENDING" ELSE status[d]]
    BY <1>2 DEF Claim
  <2>2. UNCHANGED <<outbox, late>>
    BY <1>2 DEF Claim, boundVars
  <2>3. \A d \in Delivery :
           \/ status'[d] = status[d]
           \/ status[d] \notin {"SENT", "FAILED"} /\ status'[d] \notin {"SENT", "FAILED"}
    BY <2>1 DEF Claimable
  <2> QED
    BY <2>2, <2>3 DEF OutcomeTold
<1>3. ASSUME NEW w \in Workers, Write(w) PROVE OutcomeTold'
  <2> DEFINE d == current[w]
  <2>1. /\ status' = [status EXCEPT ![d] = Outcome(w)]
        /\ outbox' = outbox \cup (Announced(w) \X {d})
        /\ late' = late
        /\ d \in Delivery
    BY <1>3 DEF Write, boundVars, TypeOK, WorkersOK
  <2>2. \A r \in Delivery : r # d => status'[r] = status[r]
    BY <2>1 DEF TypeOK, TablesOK
  <2>3. status'[d] = Outcome(w)
    BY <2>1 DEF TypeOK, TablesOK
  <2>4. \A r, k : <<k, r>> \in outbox' <=>
                    <<k, r>> \in outbox \/ (r = d /\ k \in Announced(w))
    <3> HIDE DEF d
    <3> QED
      BY <2>1
  <2>5. \/ /\ Outcome(w) = "SENT"
           /\ "notification.sent" \in Announced(w)
           /\ "notification.failed" \notin Announced(w)
        \/ /\ Outcome(w) = "FAILED"
           /\ "notification.failed" \in Announced(w)
           /\ "notification.sent" \notin Announced(w)
    BY DEF Outcome, Announced
  <2>6. d \notin late => status[d] \notin {"SENT", "FAILED"}
    <3>1. d \in InMemory(w)
      BY <1>3 DEF Write, InMemory, TypeOK, WorkersOK
    <3> QED
      BY <3>1 DEF HoldInv
  <2> HIDE DEF d
  <2> QED
    BY <2>1, <2>2, <2>3, <2>4, <2>5, <2>6 DEF OutcomeTold
<1>4. ASSUME NEW d \in Delivery, ExpireInHand(d) PROVE OutcomeTold'
  BY <1>4 DEF ExpireInHand, OutcomeTold
<1>5. CASE UNCHANGED <<status, outbox, late>>
  BY <1>5 DEF OutcomeTold
<1> QED
  BY <1>1, <1>2, <1>3, <1>4, <1>5 DEF Next, WorkerStep, vars, rowVars, boundVars,
     RegisterToken, RemoveToken, ConsumeAgain, Load, Send, Finalize, FinalizeFails, Restart,
     Crash, Expire

LEMMA InitIInv == Init => IInv
<1> SUFFICES ASSUME Init PROVE IInv
  OBVIOUS
<1> USE NotificationsAssumption DEF Init
<1>1. TypeOK
  BY DEF TypeOK, TablesOK, WorkersOK, Phases, Answers
<1>2. OncePerConsumer
  BY DEF OncePerConsumer
<1>3. DepartedGetNothing /\ OutcomeTold
  BY DEF DepartedGetNothing, OutcomeTold, Unfinished
<1>4. HoldInv
  BY DEF HoldInv, InMemory
<1> QED
  BY <1>1, <1>2, <1>3, <1>4 DEF IInv

LEMMA StepIInv == IInv /\ [Next]_vars => IInv'
  BY TypeStep, AppliedStep, DepartedStep, HoldStep, ToldStep DEF IInv

LEMMA Inductive == Spec => []IInv
  BY InitIInv, StepIInv, PTL DEF Spec

-----------------------------------------------------------------------------
(* What the runs check on a small instance.                                *)

\* Types, and where a worker has a row and an answer.
THEOREM TypeCorrect == Spec => []TypeOK
<1>1. IInv => TypeOK
  BY DEF IInv
<1> QED
  BY <1>1, Inductive, PTL

\* Whatever is delivered again or lost on its way back, a consumer applies an event once
\* at most, and no event is acknowledged before some consumer has applied it.
THEOREM AppliedOnce == Spec => []OncePerConsumer
<1>1. IInv => OncePerConsumer
  BY DEF IInv
<1> QED
  BY <1>1, Inductive, PTL

\* A member who has left has nothing that can still be sent.
THEOREM DepartedSafe == Spec => []DepartedGetNothing
<1>1. IInv => DepartedGetNothing
  BY DEF IInv
<1> QED
  BY <1>1, Inductive, PTL

\* The outbox tells the outcome of a delivery, and one only unless a worker was late.
THEOREM OutcomesTold == Spec => []OutcomeTold
<1>1. IInv => OutcomeTold
  BY DEF IInv
<1> QED
  BY <1>1, Inductive, PTL

\* What was sent or has failed is not taken up again; what was cancelled only by the
\* worker that was about to write its answer.
THEOREM NothingResent == Spec => NeverResent
<1> DEFINE Kept(d) ==
       /\ status[d] \in {"SENT", "FAILED"} => status'[d] \in {"SENT", "FAILED"}
       /\ status[d] = "CANCELLED" /\ status'[d] # "CANCELLED" =>
             \E w \in Workers : phase[w] = "finalizing" /\ current[w] = d
<1>1. TypeOK /\ [Next]_vars => [\A d \in Delivery : Kept(d)]_vars
  <2> SUFFICES ASSUME TypeOK, Next, NEW d \in Delivery PROVE Kept(d)
    OBVIOUS
  <2>1. ASSUME NEW q \in Queues, NEW e \in EventIds, Consume(q, e) PROVE Kept(d)
    BY <2>1, HandleRows DEF Consume, Unfinished
  <2>2. ASSUME NEW w \in Workers, Claim(w) PROVE Kept(d)
    <3>1. PICK rows \in SUBSET Claimable :
             status' = [r \in Delivery |-> IF r \in rows THEN "SENDING" ELSE status[r]]
      BY <2>2 DEF Claim
    <3> QED
      BY <3>1 DEF Claimable
  <2>3. ASSUME NEW w \in Workers, Write(w) PROVE Kept(d)
    <3>1. /\ status' = [status EXCEPT ![current[w]] = Outcome(w)]
          /\ phase[w] = "finalizing"
      BY <2>3 DEF Write
    <3> QED
      BY <3>1 DEF Outcome, TypeOK, TablesOK
  <2>4. CASE UNCHANGED status
    BY <2>4
  <2> QED
    BY <2>1, <2>2, <2>3, <2>4 DEF Next, WorkerStep, rowVars, RegisterToken, RemoveToken,
       ConsumeAgain, Load, Send, Finalize, FinalizeFails, Restart, Crash, Expire, ExpireInHand
<1> QED
  BY <1>1, TypeCorrect, PTL DEF Spec, NeverResent
=============================================================================
