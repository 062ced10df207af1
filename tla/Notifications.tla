---------------------------- MODULE Notifications ----------------------------
(***************************************************************************)
(* notification-service: the consumers that keep its projections and turn  *)
(* events into notifications and deliveries (app/consumer_runner.py,       *)
(* app/projection_consumers.py, app/message_notification_consumer.py,      *)
(* app/org_notification_consumer.py, app/fanout.py), and the workers that  *)
(* claim deliveries and hand them to the push provider                     *)
(* (app/delivery_worker.py).                                               *)
(*                                                                         *)
(* Every consumer runs in the one process of app.consumer_runner, a        *)
(* callback at a time, so a consumed event is one step.  Events arrive in  *)
(* any order and as often as the broker likes.  The workers are processes  *)
(* of their own, and every transaction of theirs is a step; _finalize is   *)
(* two, because it reads the row without a lock before it writes it.       *)
(*                                                                         *)
(* One organization, and groups only.  claimed_at is the worker that made  *)
(* the claim, which forgets a row before it can claim it again.            *)
(***************************************************************************)
EXTENDS Naturals, FiniteSets

CONSTANTS
    Members,        \* members of the organization
    Conversations,  \* its conversations
    Tokens,         \* rows of device_push_tokens
    Owner,          \* whose device a token is of
    EventIds,       \* event_id of the events that may be delivered
    Content,        \* what an event says
    Workers,        \* processes that run app.delivery_worker
    BatchSize,      \* rows of a claim
    MaxAttempts,    \* max_attempts of DeliveryWorker
    MaxEvents,      \* bound: events consumed in a behaviour
    FaultKinds,     \* which of AllFaults happen
    MaxFaults,      \* bound: how many
    Nobody,         \* no claim
    Stranger        \* a sender of whom the model keeps no rows

Departed == {"LEFT", "REMOVED"}
Inactive == Departed \cup {"SUSPENDED"}
OrgStatus == Inactive \cup {"INVITED", "ACTIVE"}

Contents ==
    [topic : {"member.created", "member.changed"}, member : Members, status : OrgStatus]
    \cup [topic : {"conversation"}, conversation : Conversations,
          status : {"ACTIVE", "CLOSED"}, members : SUBSET Members]
    \cup [topic : {"participant.added", "participant.changed", "participant.gone"},
          conversation : Conversations, member : Members]
    \cup [topic : {"message"}, conversation : Conversations, sender : Members \cup {Stranger}]

Queues == {"projections", "org-events", "message-created"}

\* queue_bind; member.created stands for member.updated too.
Bound(q) ==
    CASE q = "projections" -> {"member.created", "member.changed", "conversation",
                               "participant.added", "participant.changed", "participant.gone"}
      [] q = "org-events" -> {"member.created", "participant.added"}
      [] q = "message-created" -> {"message"}

\* What a notification is about, by its dedupe identity.
Message(e, m) == [type |-> "MESSAGE", about |-> e, member |-> m]
Group(c, m) == [type |-> "GROUP", about |-> c, member |-> m]
Invitation(m) == [type |-> "INVITATION", about |-> m, member |-> m]

Messages == {e \in EventIds : Content[e].topic = "message"}

Notification ==
    {Message(e, m) : e \in Messages, m \in Members}
    \cup {Group(c, m) : c \in Conversations, m \in Members}
    \cup {Invitation(m) : m \in Members}

Delivery == Notification \X Tokens

\* A process is killed; an acknowledgement is lost; a worker takes longer than
\* stale_after; the provider asks for a retry.
AllFaults == {"crash", "lost ack", "late", "outage"}

ASSUME NotificationsAssumption ==
    /\ Owner \in [Tokens -> Members]
    /\ Content \in [EventIds -> Contents]
    /\ BatchSize \in Nat \ {0}
    /\ MaxAttempts \in Nat
    /\ MaxEvents \in Nat
    /\ MaxFaults \in Nat
    /\ FaultKinds \subseteq AllFaults
    /\ Nobody \notin Workers
    /\ Nobody \notin Delivery

VARIABLES
    acked,          \* events a queue is rid of
    processed,      \* the table processed_events
    handled,        \* history: how often a consumer has applied an event itself
    membership,     \* membership_projections.status, "none" without a row
    conversation,   \* conversation_projections.status
    participants,   \* ACTIVE rows of conversation_member_projections
    enabled,        \* device_push_tokens.enabled, no row being as good as FALSE
    notifications,  \* the table notifications
    status,         \* notification_deliveries.status, "none" without a row
    attempts,       \* notification_deliveries.attempt_count
    claim,          \* notification_deliveries.claimed_at
    stale,          \* rows whose claimed_at lies before the stale cutoff
    outbox,         \* outbox_events
    phase,          \* where a worker is
    batch,          \* rows it has claimed and not looked at
    current,        \* the row it is busy with
    answer,         \* what the provider said
    late,           \* history: rows that were stale in the hands of a live worker
    faults          \* how many there were

inboxVars == <<acked, processed, handled>>
projectionVars == <<membership, conversation, participants>>
rowVars == <<status, attempts, claim, stale>>
workerVars == <<phase, batch, current, answer>>
boundVars == <<late, faults>>
vars == <<inboxVars, projectionVars, enabled, notifications, rowVars,
          outbox, workerVars, boundVars>>

Init ==
    /\ acked = [q \in Queues |-> {}]
    /\ processed = {}
    /\ handled = [q \in Queues |-> [e \in EventIds |-> 0]]
    /\ membership = [m \in Members |-> "none"]
    /\ conversation = [c \in Conversations |-> "none"]
    /\ participants = [c \in Conversations |-> {}]
    /\ enabled = {}
    /\ notifications = {}
    /\ status = [d \in Delivery |-> "none"]
    /\ attempts = [d \in Delivery |-> 0]
    /\ claim = [d \in Delivery |-> Nobody]
    /\ stale = {}
    /\ outbox = {}
    /\ phase = [w \in Workers |-> "polling"]
    /\ batch = [w \in Workers |-> {}]
    /\ current = [w \in Workers |-> Nobody]
    /\ answer = [w \in Workers |-> "none"]
    /\ late = {}
    /\ faults = 0

Fault(kind) ==
    /\ kind \in FaultKinds
    /\ faults < MaxFaults
    /\ faults' = faults + 1

-----------------------------------------------------------------------------
(* The API.                                                                *)

\* PUT and DELETE of the push token of the current device.
RegisterToken(t) ==
    /\ enabled' = enabled \cup {t}
    /\ UNCHANGED <<inboxVars, projectionVars, notifications, rowVars, outbox,
                   workerVars, boundVars>>

RemoveToken(t) ==
    /\ enabled' = enabled \ {t}
    /\ UNCHANGED <<inboxVars, projectionVars, notifications, rowVars, outbox,
                   workerVars, boundVars>>

-----------------------------------------------------------------------------
(* The consumers.                                                          *)

\* NotificationFanout.notify_member for every notification of N.  The API changes
\* mutes, blocks and preferences at any time, so a fan-out finds any: those in
\* heard are not silenced, and those in pushed have push enabled.
Fanout(N) ==
    \E heard \in SUBSET {n \in N : membership[n.member] \notin Inactive \cup {"none"}} :
    \E pushed \in SUBSET heard :
        LET created == {d \in Delivery : /\ d[1] \in pushed
                                         /\ Owner[d[2]] = d[1].member
                                         /\ d[2] \in enabled
                                         /\ status[d] = "none"}
        IN  /\ notifications' = notifications \cup heard
            /\ status' = [d \in Delivery |-> IF d \in created THEN "PENDING" ELSE status[d]]
            /\ outbox' = outbox \cup ({"notification.created"} \X heard)
            /\ UNCHANGED <<projectionVars, attempts, claim, stale>>

Unfinished == {"PENDING", "RETRY_PENDING", "SENDING"}

\* Mutants of Cancelled.
CancelledUnclaimed(m, s) ==
    {d \in Delivery : /\ s \in Departed
                      /\ d[1].member = m
                      /\ status[d] \in Unfinished \ {"SENDING"}}

CancelledAll(m, s) ==
    {d \in Delivery : s \in Departed /\ d[1].member = m /\ status[d] # "none"}

\* cancel_pending_for_member, of a member whose new status is a departure.
Cancelled(m, s) ==
    IF s \in Departed
    THEN {d \in Delivery : d[1].member = m /\ status[d] \in Unfinished}
    ELSE {}

ProjectMembership(m, s) ==
    /\ membership' = [membership EXCEPT ![m] = s]
    /\ status' = [d \in Delivery |-> IF d \in Cancelled(m, s) THEN "CANCELLED" ELSE status[d]]
    /\ UNCHANGED <<conversation, participants, notifications, attempts, claim, stale, outbox>>

ProjectConversation(c, s, ms) ==
    /\ conversation' = [conversation EXCEPT ![c] = s]
    /\ participants' = [participants EXCEPT ![c] = @ \cup ms]
    /\ UNCHANGED <<membership, notifications, rowVars, outbox>>

ProjectParticipants(c, ms) ==
    /\ participants' = [participants EXCEPT ![c] = ms]
    /\ UNCHANGED <<membership, conversation, notifications, rowVars, outbox>>

\* ProjectionConsumer.consume.
Project(x) ==
    \/ /\ x.topic \in {"member.created", "member.changed"}
       /\ ProjectMembership(x.member, x.status)
    \/ /\ x.topic = "conversation"
       /\ ProjectConversation(x.conversation, x.status, x.members)
    \/ /\ x.topic \in {"participant.added", "participant.changed"}
       /\ ProjectParticipants(x.conversation, participants[x.conversation] \cup {x.member})
    \/ /\ x.topic = "participant.gone"
       /\ ProjectParticipants(x.conversation, participants[x.conversation] \ {x.member})

\* OrgNotificationConsumer.consume; what it has nothing to say about is
\* processed all the same.
NotifyOrganization(x) ==
    \/ /\ x.topic = "member.created"
       /\ Fanout(IF x.status = "INVITED"
                 THEN {Invitation(x.member)}
                 ELSE {})
    \/ /\ x.topic = "participant.added"
       /\ Fanout(IF conversation[x.conversation] # "none"
                 THEN {Group(x.conversation, x.member)}
                 ELSE {})

\* MessageNotificationConsumer.consume: until the conversation is there, and
\* for ever once it is closed, the event goes back to the queue.
NotifyMessage(e, x) ==
    /\ conversation[x.conversation] = "ACTIVE"
    /\ Fanout({Message(e, m) : m \in {p \in participants[x.conversation] \ {x.sender} :
                            membership[p] = "ACTIVE"}})

Handle(q, e) ==
    \/ q = "projections" /\ Project(Content[e])
    \/ q = "org-events" /\ NotifyOrganization(Content[e])
    \/ q = "message-created" /\ NotifyMessage(e, Content[e])

\* Deliveries come in any order: those of another exchange or another runner of
\* an outbox, and those that go back to the queue, are not held back.
Waiting(q) == {e \in EventIds \ acked[q] : Content[e].topic \in Bound(q)}

\* Mutant of Consume: processed_events is not asked, only the broker.
ConsumeUnchecked(q, e) ==
    /\ e \in Waiting(q)
    /\ Cardinality(processed) < MaxEvents
    /\ Handle(q, e)
    /\ processed' = processed \cup {e}
    /\ handled' = [handled EXCEPT ![q][e] = @ + 1]
    /\ \/ acked' = [acked EXCEPT ![q] = @ \cup {e}] /\ UNCHANGED faults
       \/ Fault("lost ack") /\ UNCHANGED acked
    /\ UNCHANGED <<enabled, workerVars, late>>

\* The transaction of a consumer; the acknowledgement may be lost.
Consume(q, e) ==
    /\ e \in Waiting(q)
    /\ e \notin processed
    /\ Cardinality(processed) < MaxEvents
    /\ Handle(q, e)
    /\ processed' = processed \cup {e}
    /\ handled' = [handled EXCEPT ![q][e] = @ + 1]
    /\ \/ acked' = [acked EXCEPT ![q] = @ \cup {e}] /\ UNCHANGED faults
       \/ Fault("lost ack") /\ UNCHANGED acked
    /\ UNCHANGED <<enabled, workerVars, late>>

\* processed_events has the event: it is acknowledged and nothing else.
ConsumeAgain(q, e) ==
    /\ e \in Waiting(q)
    /\ e \in processed
    /\ acked' = [acked EXCEPT ![q] = @ \cup {e}]
    /\ UNCHANGED <<processed, handled, projectionVars, enabled,
                   notifications, rowVars, outbox, workerVars, boundVars>>

-----------------------------------------------------------------------------
(* The delivery worker.                                                    *)

InMemory(w) == (batch[w] \cup {current[w]}) \ {Nobody}

\* The row is still under the claim this worker made.
StillClaimed(w, d) == status[d] = "SENDING" /\ claim[d] = w

\* Mutants of Claimable.
ClaimableAtOnce == {d \in Delivery : status[d] \in {"PENDING", "SENDING"}}

ClaimableOnce == {d \in Delivery : status[d] = "PENDING"}

\* claim_query.  RETRY_PENDING is never written, see Retries.
Claimable == {d \in Delivery : \/ status[d] = "PENDING"
                               \/ status[d] = "SENDING" /\ d \in stale}

\* claim_batch, FOR UPDATE SKIP LOCKED and committed before anything is sent.
Claim(w) ==
    /\ phase[w] = "polling"
    /\ batch[w] = {}
    /\ \E rows \in SUBSET Claimable \ {{}} :
          /\ Cardinality(rows) <= BatchSize
          /\ rows = Claimable \/ Cardinality(rows) = BatchSize
          /\ status' = [d \in Delivery |-> IF d \in rows THEN "SENDING" ELSE status[d]]
          /\ claim' = [d \in Delivery |-> IF d \in rows THEN w ELSE claim[d]]
          /\ stale' = stale \ rows
          /\ batch' = [batch EXCEPT ![w] = rows]
    /\ UNCHANGED <<inboxVars, projectionVars, enabled, notifications,
                   attempts, outbox, phase, current, answer, boundVars>>

\* _load_context of the next row: another worker has it, or it was cancelled;
\* or its token is gone; or it can be sent.
Load(w, d) ==
    /\ phase[w] = "polling"
    /\ d \in batch[w]
    /\ batch' = [batch EXCEPT ![w] = @ \ {d}]
    /\ \/ /\ ~StillClaimed(w, d)
          /\ UNCHANGED <<phase, current, answer>>
       \/ /\ StillClaimed(w, d)
          /\ d[2] \notin enabled
          /\ phase' = [phase EXCEPT ![w] = "answered"]
          /\ current' = [current EXCEPT ![w] = d]
          /\ answer' = [answer EXCEPT ![w] = "token invalid"]
       \/ /\ StillClaimed(w, d)
          /\ d[2] \in enabled
          /\ phase' = [phase EXCEPT ![w] = "sending"]
          /\ current' = [current EXCEPT ![w] = d]
          /\ UNCHANGED answer
    /\ UNCHANGED <<inboxVars, projectionVars, enabled, notifications,
                   rowVars, outbox, boundVars>>

\* providers.send returns, or raises and is answered with a retry.
Send(w) ==
    /\ phase[w] = "sending"
    /\ phase' = [phase EXCEPT ![w] = "answered"]
    /\ \/ /\ \E a \in {"success", "token invalid", "failure"} :
                answer' = [answer EXCEPT ![w] = a]
          /\ UNCHANGED faults
       \/ /\ Fault("outage")
          /\ answer' = [answer EXCEPT ![w] = "retryable"]
    /\ UNCHANGED <<inboxVars, projectionVars, enabled, notifications,
                   rowVars, outbox, batch, current, late>>

\* The process ends and what it had in memory is lost.
Stop(w) ==
    /\ phase' = [phase EXCEPT ![w] = "down"]
    /\ batch' = [batch EXCEPT ![w] = {}]
    /\ current' = [current EXCEPT ![w] = Nobody]
    /\ answer' = [answer EXCEPT ![w] = "none"]

\* run_forever gives run_once no time, and an answer that asks for a retry adds
\* a delay to it: the TypeError rolls back and ends the process.
Retries(w) == answer[w] = "retryable" /\ attempts[current[w]] + 1 < MaxAttempts

\* The read of _finalize, without a lock, and what it makes of the answer.
Finalize(w) ==
    /\ phase[w] = "answered"
    /\ \/ /\ StillClaimed(w, current[w])
          /\ ~Retries(w)
          /\ phase' = [phase EXCEPT ![w] = "finalizing"]
          /\ UNCHANGED <<current, answer>>
       \/ /\ ~StillClaimed(w, current[w])
          /\ phase' = [phase EXCEPT ![w] = "polling"]
          /\ current' = [current EXCEPT ![w] = Nobody]
          /\ answer' = [answer EXCEPT ![w] = "none"]
    /\ UNCHANGED <<inboxVars, projectionVars, enabled, notifications,
                   rowVars, outbox, batch, boundVars>>

FinalizeFails(w) ==
    /\ phase[w] = "answered"
    /\ StillClaimed(w, current[w])
    /\ Retries(w)
    /\ Stop(w)
    /\ UNCHANGED <<inboxVars, projectionVars, enabled, notifications,
                   rowVars, outbox, boundVars>>

Outcome(w) == IF answer[w] = "success" THEN "SENT" ELSE "FAILED"

Announced(w) ==
    CASE answer[w] = "success" -> {"notification.sent"}
      [] answer[w] = "token invalid" -> {"push_token.invalidated", "notification.failed"}
      [] OTHER -> {"notification.failed"}

\* The commit of _finalize, whatever became of the row in between.
Write(w) ==
    /\ phase[w] = "finalizing"
    /\ LET d == current[w] IN
          /\ status' = [status EXCEPT ![d] = Outcome(w)]
          /\ attempts' = [attempts EXCEPT ![d] = @ + 1]
          /\ claim' = [claim EXCEPT ![d] = Nobody]
          /\ stale' = stale \ {d}
          /\ enabled' = IF answer[w] = "token invalid" THEN enabled \ {d[2]} ELSE enabled
          /\ outbox' = outbox \cup (Announced(w) \X {d})
    /\ phase' = [phase EXCEPT ![w] = "polling"]
    /\ current' = [current EXCEPT ![w] = Nobody]
    /\ answer' = [answer EXCEPT ![w] = "none"]
    /\ UNCHANGED <<inboxVars, projectionVars, notifications, batch, boundVars>>

Crash(w) ==
    /\ phase[w] # "down"
    /\ Fault("crash")
    /\ Stop(w)
    /\ UNCHANGED <<inboxVars, projectionVars, enabled, notifications,
                   rowVars, outbox, late>>

Restart(w) ==
    /\ phase[w] = "down"
    /\ phase' = [phase EXCEPT ![w] = "polling"]
    /\ UNCHANGED <<inboxVars, projectionVars, enabled, notifications,
                   rowVars, outbox, batch, current, answer, boundVars>>

Held(d) == \E w \in Workers : claim[d] = w /\ d \in InMemory(w)

\* stale_after has passed since the claim, which its worker has lost ...
Expire(d) ==
    /\ status[d] = "SENDING"
    /\ d \notin stale
    /\ ~Held(d)
    /\ stale' = stale \cup {d}
    /\ UNCHANGED <<inboxVars, projectionVars, enabled, notifications, status,
                   attempts, claim, outbox, workerVars, boundVars>>

\* ... or is not done with.
ExpireInHand(d) ==
    /\ status[d] = "SENDING"
    /\ d \notin stale
    /\ Held(d)
    /\ Fault("late")
    /\ stale' = stale \cup {d}
    /\ late' = late \cup {d}
    /\ UNCHANGED <<inboxVars, projectionVars, enabled, notifications, status,
                   attempts, claim, outbox, workerVars>>

-----------------------------------------------------------------------------
WorkerStep(w) ==
    \/ Claim(w)
    \/ \E d \in Delivery : Load(w, d)
    \/ Send(w)
    \/ Finalize(w)
    \/ Write(w)
    \/ FinalizeFails(w)
    \/ Restart(w)

Next ==
    \/ \E t \in Tokens : RegisterToken(t) \/ RemoveToken(t)
    \/ \E q \in Queues, e \in EventIds : Consume(q, e) \/ ConsumeAgain(q, e)
    \/ \E w \in Workers : WorkerStep(w) \/ Crash(w)
    \/ \E d \in Delivery : Expire(d) \/ ExpireInHand(d)

Spec == Init /\ [][Next]_vars

\* The workers are restarted and keep polling, the provider answers, and time
\* passes.  Nobody has to publish, and the consumers are owed nothing: the
\* broker may hold an event back.
FairSpec ==
    /\ Spec
    /\ \A w \in Workers : WF_vars(WorkerStep(w))
    /\ \A d \in Delivery : WF_vars(Expire(d))

-----------------------------------------------------------------------------
(* What should hold.                                                       *)

Phases == {"polling", "sending", "answered", "finalizing", "down"}
Answers == {"success", "token invalid", "failure", "retryable"}

TablesOK ==
    /\ acked \in [Queues -> SUBSET EventIds]
    /\ processed \subseteq EventIds
    /\ handled \in [Queues -> [EventIds -> Nat]]
    /\ membership \in [Members -> OrgStatus \cup {"none"}]
    /\ conversation \in [Conversations -> {"none", "ACTIVE", "CLOSED"}]
    /\ participants \in [Conversations -> SUBSET Members]
    /\ enabled \subseteq Tokens
    /\ notifications \subseteq Notification
    /\ status \in [Delivery -> {"none", "PENDING", "SENDING", "SENT", "FAILED", "CANCELLED"}]
    /\ attempts \in [Delivery -> Nat]
    /\ claim \in [Delivery -> Workers \cup {Nobody}]
    /\ stale \subseteq Delivery
    /\ late \subseteq Delivery
    /\ faults \in 0 .. MaxFaults

WorkersOK ==
    /\ phase \in [Workers -> Phases]
    /\ batch \in [Workers -> SUBSET Delivery]
    /\ current \in [Workers -> Delivery \cup {Nobody}]
    /\ answer \in [Workers -> Answers \cup {"none"}]
    /\ \A w \in Workers :
          /\ current[w] = Nobody <=> phase[w] \in {"polling", "down"}
          /\ answer[w] # "none" <=> phase[w] \in {"answered", "finalizing"}

\* Values have their types; no delivery is ever RETRY_PENDING; a worker has a
\* row and an answer just where the code has.
TypeOK == TablesOK /\ WorkersOK

\* However often the broker delivers an event, and whichever acknowledgements are lost, a
\* consumer applies it once at most, and no queue is rid of it before some consumer has
\* applied and recorded it.  (consume_*_delivery, ProcessedEventRepository)
\*
\* Which consumer is left open.  docs/event-contracts.md:43 wants ids recorded for each
\* consumer, so that all that are bound to an event apply it; the code records the id
\* for all of them, and only the first one does (README, section 4).
OncePerConsumer ==
    /\ \A q \in Queues : acked[q] \subseteq processed
    /\ \A e \in EventIds : e \in processed <=> \E q \in Queues : handled[q][e] > 0
    /\ \A q \in Queues, e \in EventIds : handled[q][e] <= 1

\* Who has left or was removed has no delivery that could still be sent, be
\* it pending, claimed, or claimed by a worker that died: not by a fan-out
\* before or after the departure, nor by the worker's late write.
\* (cancel_pending_for_member, notify_member)
DepartedGetNothing ==
    \A d \in Delivery : membership[d[1].member] \in Departed => status[d] \notin Unfinished

\* The outbox tells the outcome of every delivery that has one, and of no
\* other; and tells one outcome unless a worker took longer over the row
\* than stale_after.  (_finalize, and claimed_at as the fence of a claim)
OutcomeTold ==
    \A d \in Delivery :
        /\ status[d] = "SENT" => <<"notification.sent", d>> \in outbox
        /\ status[d] = "FAILED" => <<"notification.failed", d>> \in outbox
        /\ (<<"notification.sent", d>> \in outbox \/ <<"notification.failed", d>> \in outbox)
              => status[d] \in {"SENT", "FAILED"}
        /\ d \notin late => ~(/\ <<"notification.sent", d>> \in outbox
                              /\ <<"notification.failed", d>> \in outbox)

\* A delivery that was sent or has failed is never taken up again, and one
\* that was cancelled is not either: the answer of a send that was under way
\* is all it can still become.
NeverResent ==
    [][\A d \in Delivery :
          /\ status[d] \in {"SENT", "FAILED"} => status'[d] \in {"SENT", "FAILED"}
          /\ status[d] = "CANCELLED" /\ status'[d] # "CANCELLED" =>
                \E w \in Workers : phase[w] = "finalizing" /\ current[w] = d]_vars

\* Every delivery ends, whatever crashes, as long as the provider does not ask
\* for a retry for ever: the claim of a worker that died becomes stale.
EveryDeliveryEnds ==
    \A d \in Delivery :
        status[d] = "PENDING" ~> status[d] \in {"SENT", "FAILED", "CANCELLED"}

=============================================================================
