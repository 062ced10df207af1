----------------------------- MODULE EventRelay -----------------------------
(***************************************************************************)
(* How an event of messaging-service gets to conversation-service: the     *)
(* transactional outbox with its runners (messaging-service                *)
(* app/outbox_runner.py and app/events.py), the broker, and the consumers  *)
(* with their table of processed events (conversation-service              *)
(* app/messaging.py and app/events.py).  Each side may run several times.  *)
(*                                                                         *)
(* Events are numbered by created_at, the start of the transaction that    *)
(* wrote them; transactions commit in any order.  The broker is RabbitMQ   *)
(* with a durable queue, persistent messages and publisher confirms: what  *)
(* it accepted survives its restarts, and what was not acknowledged on a   *)
(* lost connection is delivered again.                                     *)
(***************************************************************************)
EXTENDS Naturals, FiniteSets

CONSTANTS
    EventCount,     \* events of this behaviour
    Runners,        \* processes that run app.outbox_runner
    Consumers,      \* processes that run app.consumer_runner
    MaxRetries,     \* 10 in publish_one
    MaxRelayFaults, \* bound: lost connections, outages, crashes and nacks
    NoneHeld        \* a runner or consumer has no event

Events == 1 .. EventCount

ASSUME RelayAssumption ==
    /\ EventCount \in Nat
    /\ MaxRetries \in Nat \ {0}
    /\ MaxRelayFaults \in Nat
    /\ NoneHeld \notin Events
    /\ IsFiniteSet(Consumers)

VARIABLES
    rowStatus,  \* outbox_events.status, "none" before the event is committed
    retries,    \* outbox_events.retry_count
    broker,     \* "up" or "down"
    runner,     \* where a runner is
    conn,       \* its connection: "none", "open", or "dead" and not noticed
    held,       \* the event whose row its transaction has locked
    relayQueue, \* copies of an event that wait in the queue
    consumer,   \* where a consumer is
    got,        \* the event it has and has not acknowledged
    applied,    \* the table processed_events
    effects,    \* how often an event was projected
    relayFaults \* faults so far

runnerVars == <<rowStatus, retries, runner, conn, held>>
consumerVars == <<consumer, got, applied, effects>>
relayVars == <<rowStatus, retries, broker, runner, conn, held, relayQueue, consumer,
               got, applied, effects, relayFaults>>

RelayInit ==
    /\ rowStatus = [e \in Events |-> "none"]
    /\ retries = [e \in Events |-> 0]
    /\ broker = "up"
    /\ runner = [r \in Runners |-> "asleep"]
    /\ conn = [r \in Runners |-> "none"]
    /\ held = [r \in Runners |-> NoneHeld]
    /\ relayQueue = [e \in Events |-> 0]
    /\ consumer = [c \in Consumers |-> "idle"]
    /\ got = [c \in Consumers |-> NoneHeld]
    /\ applied = {}
    /\ effects = [e \in Events |-> 0]
    /\ relayFaults = 0

RelayFault ==
    /\ relayFaults < MaxRelayFaults
    /\ relayFaults' = relayFaults + 1

\* A domain transaction commits, and its event with it.
WriteEvent(e) ==
    /\ rowStatus[e] = "none"
    /\ rowStatus' = [rowStatus EXCEPT ![e] = "PENDING"]
    /\ UNCHANGED <<retries, broker, runner, conn, held, relayQueue, consumerVars,
                   relayFaults>>

-----------------------------------------------------------------------------
(* The outbox runner.                                                      *)

\* with Publisher(): every two seconds, and in vain while the broker is down.
Connect(r) ==
    /\ runner[r] = "asleep"
    /\ broker = "up"
    /\ runner' = [runner EXCEPT ![r] = "draining"]
    /\ conn' = [conn EXCEPT ![r] = "open"]
    /\ UNCHANGED <<rowStatus, retries, broker, held, relayQueue, consumerVars, relayFaults>>

\* ORDER BY created_at ... FOR UPDATE SKIP LOCKED LIMIT 1.
Unlocked == {e \in Events : rowStatus[e] = "PENDING" /\ \A r \in Runners : held[r] # e}

Take(r) ==
    /\ runner[r] = "draining"
    /\ \E e \in Unlocked :
          /\ \A f \in Unlocked : e <= f
          /\ held' = [held EXCEPT ![r] = e]
    /\ runner' = [runner EXCEPT ![r] = "sending"]
    /\ UNCHANGED <<rowStatus, retries, broker, conn, relayQueue, consumerVars, relayFaults>>

\* Nothing is pending: the publisher is closed.
Drained(r) ==
    /\ runner[r] = "draining"
    /\ Unlocked = {}
    /\ runner' = [runner EXCEPT ![r] = "asleep"]
    /\ conn' = [conn EXCEPT ![r] = "none"]
    /\ UNCHANGED <<rowStatus, retries, broker, held, relayQueue, consumerVars, relayFaults>>

\* basic_publish returns: the broker confirmed the event.
Publish(r) ==
    /\ runner[r] = "sending"
    /\ conn[r] = "open"
    /\ relayQueue' = [relayQueue EXCEPT ![held[r]] = @ + 1]
    /\ runner' = [runner EXCEPT ![r] = "sent"]
    /\ UNCHANGED <<rowStatus, retries, broker, conn, held, consumerVars, relayFaults>>

\* The broker has the event and the connection is lost before the confirm.
PublishUnconfirmed(r) ==
    /\ runner[r] = "sending"
    /\ conn[r] = "open"
    /\ RelayFault
    /\ relayQueue' = [relayQueue EXCEPT ![held[r]] = @ + 1]
    /\ conn' = [conn EXCEPT ![r] = "dead"]
    /\ runner' = [runner EXCEPT ![r] = "failed"]
    /\ UNCHANGED <<rowStatus, retries, broker, held, consumerVars>>

\* basic_publish raises: the connection is gone.
PublishFails(r) ==
    /\ runner[r] = "sending"
    /\ conn[r] = "dead"
    /\ runner' = [runner EXCEPT ![r] = "failed"]
    /\ UNCHANGED <<rowStatus, retries, broker, conn, held, relayQueue, consumerVars,
                   relayFaults>>

\* Mutant: PUBLISHED is committed before the event is sent.
CommitSentEarly(r) ==
    /\ runner[r] \in {"sending", "sent"}
    /\ rowStatus' = [rowStatus EXCEPT ![held[r]] = "PUBLISHED"]
    /\ held' = [held EXCEPT ![r] = NoneHeld]
    /\ runner' = [runner EXCEPT ![r] = "draining"]
    /\ UNCHANGED <<retries, broker, conn, relayQueue, consumerVars, relayFaults>>

CommitSent(r) ==
    /\ runner[r] = "sent"
    /\ rowStatus' = [rowStatus EXCEPT ![held[r]] = "PUBLISHED"]
    /\ held' = [held EXCEPT ![r] = NoneHeld]
    /\ runner' = [runner EXCEPT ![r] = "draining"]
    /\ UNCHANGED <<retries, broker, conn, relayQueue, consumerVars, relayFaults>>

\* The failure is counted and publish_one returns True: the loop goes on with the
\* next event and the same connection.
CommitFailed(r) ==
    /\ runner[r] = "failed"
    /\ retries' = [retries EXCEPT ![held[r]] = @ + 1]
    /\ rowStatus' = [rowStatus EXCEPT ![held[r]] =
                    IF retries'[held[r]] >= MaxRetries THEN "FAILED" ELSE "PENDING"]
    /\ held' = [held EXCEPT ![r] = NoneHeld]
    /\ runner' = [runner EXCEPT ![r] = "draining"]
    /\ UNCHANGED <<broker, conn, relayQueue, consumerVars, relayFaults>>

\* The process dies or the database fails: the transaction is undone, in PROCESSING
\* or past the confirm alike.
RunnerCrash(r) ==
    /\ runner[r] # "asleep"
    /\ RelayFault
    /\ runner' = [runner EXCEPT ![r] = "asleep"]
    /\ conn' = [conn EXCEPT ![r] = "none"]
    /\ held' = [held EXCEPT ![r] = NoneHeld]
    /\ UNCHANGED <<rowStatus, retries, broker, relayQueue, consumerVars>>

RunnerStep(r) ==
    Connect(r) \/ Take(r) \/ Drained(r) \/ Publish(r) \/ PublishFails(r) \/ CommitSent(r)
    \/ CommitFailed(r)

-----------------------------------------------------------------------------
(* The broker.                                                             *)

Unacked(e) == Cardinality({c \in Consumers : got[c] = e})

\* Every connection is lost, and what was not acknowledged is queued again.
BrokerDown ==
    /\ broker = "up"
    /\ RelayFault
    /\ broker' = "down"
    /\ conn' = [r \in Runners |-> IF conn[r] = "open" THEN "dead" ELSE conn[r]]
    /\ relayQueue' = [e \in Events |-> relayQueue[e] + Unacked(e)]
    /\ consumer' = [c \in Consumers |-> "idle"]
    /\ got' = [c \in Consumers |-> NoneHeld]
    /\ UNCHANGED <<rowStatus, retries, runner, held, applied, effects>>

BrokerUp ==
    /\ broker = "down"
    /\ broker' = "up"
    /\ UNCHANGED <<runnerVars, relayQueue, consumerVars, relayFaults>>

-----------------------------------------------------------------------------
(* A consumer: one event, one transaction, then the acknowledgement.       *)

Deliver(c, e) ==
    /\ broker = "up"
    /\ consumer[c] = "idle"
    /\ relayQueue[e] > 0
    /\ relayQueue' = [relayQueue EXCEPT ![e] = @ - 1]
    /\ consumer' = [consumer EXCEPT ![c] = "delivered"]
    /\ got' = [got EXCEPT ![c] = e]
    /\ UNCHANGED <<runnerVars, broker, applied, effects, relayFaults>>

\* SELECT from processed_events: seen before, or to be projected.
Look(c) ==
    /\ consumer[c] = "delivered"
    /\ consumer' = [consumer EXCEPT ![c] =
                      IF got[c] \in applied THEN "done" ELSE "projecting"]
    /\ UNCHANGED <<runnerVars, broker, relayQueue, got, applied, effects, relayFaults>>

\* Mutant: processed_events.event_id is not unique.
ProjectAgain(c) ==
    /\ consumer[c] = "projecting"
    /\ applied' = applied \union {got[c]}
    /\ effects' = [effects EXCEPT ![got[c]] = @ + 1]
    /\ consumer' = [consumer EXCEPT ![c] = "done"]
    /\ UNCHANGED <<runnerVars, broker, relayQueue, got, relayFaults>>

\* COMMIT of the projection with its row of processed_events.
Project(c) ==
    /\ consumer[c] = "projecting"
    /\ got[c] \notin applied
    /\ applied' = applied \union {got[c]}
    /\ effects' = [effects EXCEPT ![got[c]] = @ + 1]
    /\ consumer' = [consumer EXCEPT ![c] = "done"]
    /\ UNCHANGED <<runnerVars, broker, relayQueue, got, relayFaults>>

\* Mutant: nack without requeue, and no queue for dead letters.
GiveBackDropped(c) ==
    /\ consumer' = [consumer EXCEPT ![c] = "idle"]
    /\ got' = [got EXCEPT ![c] = NoneHeld]
    /\ UNCHANGED <<runnerVars, broker, relayQueue, applied, effects>>

GiveBack(c) ==
    /\ relayQueue' = [relayQueue EXCEPT ![got[c]] = @ + 1]
    /\ consumer' = [consumer EXCEPT ![c] = "idle"]
    /\ got' = [got EXCEPT ![c] = NoneHeld]
    /\ UNCHANGED <<runnerVars, broker, applied, effects>>

\* Another consumer projected a copy of the event meanwhile: the unique constraint
\* undoes the transaction, nack with requeue.
ProjectRejected(c) ==
    /\ consumer[c] = "projecting"
    /\ got[c] \in applied
    /\ GiveBack(c)
    /\ UNCHANGED relayFaults

\* The projection raises (nack with requeue), or the consumer dies.
ConsumerFails(c) ==
    /\ consumer[c] # "idle"
    /\ RelayFault
    /\ GiveBack(c)

Ack(c) ==
    /\ consumer[c] = "done"
    /\ consumer' = [consumer EXCEPT ![c] = "idle"]
    /\ got' = [got EXCEPT ![c] = NoneHeld]
    /\ UNCHANGED <<runnerVars, broker, relayQueue, applied, effects, relayFaults>>

ConsumerStep(c) ==
    (\E e \in Events : Deliver(c, e)) \/ Look(c) \/ Project(c) \/ ProjectRejected(c)
    \/ Ack(c)

-----------------------------------------------------------------------------

RelayNext ==
    \/ \E e \in Events : WriteEvent(e)
    \/ \E r \in Runners : RunnerStep(r) \/ PublishUnconfirmed(r) \/ RunnerCrash(r)
    \/ \E c \in Consumers : ConsumerStep(c) \/ ConsumerFails(c)
    \/ BrokerDown
    \/ BrokerUp

RelaySpec == RelayInit /\ [][RelayNext]_relayVars

\* Processes run and are restarted, and the broker comes back.
RelayFairness ==
    /\ \A r \in Runners : WF_relayVars(RunnerStep(r))
    /\ \A c \in Consumers : WF_relayVars(ConsumerStep(c))
    /\ WF_relayVars(BrokerUp)

FairRelaySpec == RelaySpec /\ RelayFairness

-----------------------------------------------------------------------------
(* Properties.                                                             *)

RelayTypeOK ==
    /\ rowStatus \in [Events -> {"none", "PENDING", "PUBLISHED", "FAILED"}]
    /\ retries \in [Events -> 0 .. MaxRetries]
    /\ broker \in {"up", "down"}
    /\ runner \in [Runners -> {"asleep", "draining", "sending", "sent", "failed"}]
    /\ conn \in [Runners -> {"none", "open", "dead"}]
    /\ held \in [Runners -> Events \union {NoneHeld}]
    /\ relayQueue \in [Events -> Nat]
    /\ consumer \in [Consumers -> {"idle", "delivered", "projecting", "done"}]
    /\ got \in [Consumers -> Events \union {NoneHeld}]
    /\ applied \subseteq Events
    /\ effects \in [Events -> Nat]
    /\ relayFaults \in 0 .. MaxRelayFaults

\* However often an event is sent, delivered and begun, it is projected once.
ProjectedOnce == \A e \in Events : effects[e] <= 1

\* A row that says PUBLISHED has an event behind it that is projected, or will be: no
\* crash, outage or lost confirm loses one on the way.
PublishedIsKept ==
    \A e \in Events : rowStatus[e] = "PUBLISHED" =>
        effects[e] = 1 \/ relayQueue[e] > 0 \/ \E c \in Consumers : got[c] = e

\* A committed event is projected in the end, once faults stop, unless an operator has
\* been left a FAILED row to look at.
Settles ==
    \A e \in Events : rowStatus[e] = "PENDING" ~> effects[e] = 1 \/ rowStatus[e] = "FAILED"

=============================================================================
