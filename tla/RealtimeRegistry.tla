-------------------------- MODULE RealtimeRegistry --------------------------
(***************************************************************************)
(* realtime-service: how the events of one workspace conversation reach    *)
(* the sockets that are subscribed to it.                                  *)
(*                                                                         *)
(* The consumer process takes the events one by one (prefetch 1), reads in *)
(* Redis who is connected, subscribed and still a member, and publishes to *)
(* the channel of the instance that has the socket.  An instance listens   *)
(* to its channel, puts frames into the queue of the socket and applies    *)
(* revocations.  An action is what a process does between two awaits of    *)
(* the network: Redis, conversation-service or the broker.                 *)
(***************************************************************************)
EXTENDS Integers, Sequences, FiniteSets

CONSTANTS
    Connection,     \* sockets; a new one is a new member of this set
    Member, Instance,
    Principal,      \* the member of a connection
    Home,           \* the instance that has its socket
    ConsumerId,     \* the instance whose INSTANCE_ID the consumer process has too
    Leavers,        \* members who may leave or be removed (bound)
    MaxEvents,      \* events of the conversation (bound)
    MaxRequests,    \* of a socket: subscribe, unsubscribe, typing (bound)
    MaxFaults       \* crashes, restarts, disconnects, expiries, dead listeners (bound)

ASSUME PrincipalAssumption == Principal \in [Connection -> Member] /\ Leavers \subseteq Member
ASSUME HomeAssumption == Home \in [Connection -> Instance]
ASSUME RequestsAssumption == MaxRequests \in [Connection -> Nat]

VARIABLES
    history,    \* events in the order of the queue realtime.events
    granted,    \* members whom conversation-service answers allowed
    leaving,    \* departed, and conversation-service has not learnt it
    consumer,   \* the event it is at, and what is left to do of it
    record, subscribed, status,     \* Redis; subscribed is 0 or when it was written
    socket, here, handler,          \* in an instance: sockets, their subscriptions, requests
    resync, shown,  \* sockets told to catch up; messages put into the queue of a socket
    channel, listening, listener,   \* Redis channels and the task that listens
    faults, asked

conversation == <<history, granted, leaving>>
redis == <<record, subscribed, status>>
sockets == <<socket, here, handler>>
frames == <<resync, shown>>
channels == <<channel, listening, listener>>
realtimeVars == <<conversation, consumer, redis, sockets, frames, channels, faults, asked>>

Typing == 0

Idle == [op |-> "none"]

RealtimeInit ==
    /\ history = <<>>
    /\ granted = Member
    /\ leaving = {}
    /\ consumer = [next |-> 1, stage |-> "ready", todo |-> {}, found |-> {}]
    /\ record = {}
    /\ subscribed = [c \in Connection |-> 0]
    /\ status = [m \in Member |-> "ACTIVE"]
    /\ socket = [c \in Connection |-> "none"]
    /\ here = {}
    /\ handler = [c \in Connection |-> "idle"]
    /\ resync = {}
    /\ shown = [c \in Connection |-> <<>>]
    /\ channel = [i \in Instance |-> <<>>]
    /\ listening = Instance
    /\ listener = [i \in Instance |-> Idle]
    /\ faults = 0 /\ asked = [c \in Connection |-> 0]

Fault == faults < MaxFaults /\ faults' = faults + 1 /\ UNCHANGED asked

-----------------------------------------------------------------------------
(* RedisMetadataRegistry: a connection's record and its subscription.      *)

Recorded(c) == record' = record \union {c}
Store(c, n) == subscribed' = [subscribed EXCEPT ![c] = n]

Unrecorded(cs) ==
    /\ record' = record \ cs
    /\ subscribed' = [c \in Connection |-> IF c \in cs THEN 0 ELSE subscribed[c]]

\* remove_instance, of the records it has.
RemoveInstance(i) == Unrecorded({c \in record : Home[c] = i})

-----------------------------------------------------------------------------
(* What other services publish.                                            *)

Event(type, m) == [type |-> type, member |-> m]
Everybody == 0

\* The member has departed by the k-th event and was not reactivated before it.
Gone(m, k) ==
    \E i \in 1 .. k - 1 :
        /\ history[i] = Event("departed", m)
        /\ \A j \in i + 1 .. k - 1 : history[j] # Event("reactivated", m)

Publish(event) ==
    /\ Len(history) < MaxEvents
    /\ Len(history) <= consumer.next   \* one waits for the consumer (bound)
    /\ history' = Append(history, event)
    /\ UNCHANGED <<consumer, redis, sockets, frames, channels, faults, asked>>

Message == Publish(Event("message", Everybody)) /\ UNCHANGED <<granted, leaving>>

\* conversation.member_removed or member_left: the row changes with its event.
Remove(m) ==
    /\ m \in granted
    /\ Publish(Event("removed", m))
    /\ granted' = granted \ {m}
    /\ UNCHANGED leaving

Close ==
    /\ granted # {}
    /\ Publish(Event("closed", Everybody))
    /\ granted' = {}
    /\ UNCHANGED leaving

\* member.left or member.removed, of the organization; conversation-service consumes it too.
Depart(m) ==
    /\ ~Gone(m, Len(history) + 1)
    /\ Publish(Event("departed", m))
    /\ leaving' = leaving \union {m}
    /\ UNCHANGED granted

Learn(m) ==
    /\ m \in leaving
    /\ leaving' = leaving \ {m}
    /\ granted' = granted \ {m}
    /\ UNCHANGED <<history, consumer, redis, sockets, frames, channels, faults, asked>>

\* Reactivation does not bring back the conversations of the member.
Reactivate(m) ==
    /\ m \notin leaving
    /\ Gone(m, Len(history) + 1)
    /\ Publish(Event("reactivated", m))
    /\ UNCHANGED <<granted, leaving>>

-----------------------------------------------------------------------------
(* The consumer process: EventConsumer over RedisMetadataRegistry.         *)

\* Mutant: whoever is subscribed.
AnyStatus(m) == TRUE

IsActive(m) == status[m] = "ACTIVE"

At(stage) == consumer.stage = stage
Current == history[consumer.next]

Continue(stage, todo, found) ==
    consumer' = [consumer EXCEPT !.stage = stage, !.todo = todo, !.found = found]
Finish ==
    consumer' = [next |-> consumer.next + 1, stage |-> "ready", todo |-> {}, found |-> {}]

\* Mutant: the connections of the consumer's own instance.
ConcernsHere(c) ==
    Home[c] = ConsumerId /\ Current.member \in {Everybody, Principal[c]}

Concerns(c) == Current.member \in {Everybody, Principal[c]}

\* get_organization_connections
List ==
    LET todo == {c \in record : Concerns(c)} IN
    IF Current.type # "message" THEN Continue("clear", todo, {})
    ELSE IF todo = {} THEN Finish ELSE Continue("look", todo, {})

\* process
Take ==
    /\ At("ready") /\ consumer.next <= Len(history)
    /\ CASE Current.type = "reactivated" ->
              status' = [status EXCEPT ![Current.member] = "ACTIVE"] /\ Finish
         [] Current.type = "departed" ->
              status' = [status EXCEPT ![Current.member] = "GONE"] /\ Continue("list", {}, {})
         [] OTHER -> List /\ UNCHANGED status
    /\ UNCHANGED <<conversation, record, subscribed, sockets, frames, channels, faults, asked>>

ListDeparted ==
    /\ At("list") /\ List
    /\ UNCHANGED <<conversation, redis, sockets, frames, channels, faults, asked>>

\* revoke_workspace_member, invalidate_member, invalidate_conversation.
Clear(c) ==
    /\ At("clear") /\ c \in consumer.todo
    /\ Store(c, 0)
    /\ Continue("clear", consumer.todo \ {c}, {})
    /\ UNCHANGED <<conversation, record, status, sockets, frames, channels, faults, asked>>

\* publish, to those who listen at that moment.
Tell(message, instances) ==
    channel' = [i \in Instance |-> IF i \in instances \intersect listening
                                   THEN Append(channel[i], message) ELSE channel[i]]

Cleared ==
    /\ At("clear") /\ consumer.todo = {}
    /\ IF Current.type = "departed"
       THEN Tell([op |-> "revoke", member |-> Current.member, to |-> 0, frame |-> 0], Instance)
       ELSE UNCHANGED channel
    /\ Finish
    /\ UNCHANGED <<conversation, redis, sockets, frames, listening, listener, faults, asked>>

\* recipients: of one connection, is_active and the subscription.
Look(c) ==
    LET found == consumer.found \union
                   (IF IsActive(Principal[c]) /\ subscribed[c] # 0 THEN {c} ELSE {})
    IN
    /\ At("look") /\ c \in consumer.todo
    /\ IF consumer.todo # {c} THEN Continue("look", consumer.todo \ {c}, found)
       ELSE IF found = {} THEN Finish ELSE Continue("send", found, {})
    /\ UNCHANGED <<conversation, redis, sockets, frames, channels, faults, asked>>

\* _delivery_allowed once more, and remote_publish.
Send(c) ==
    /\ At("send") /\ c \in consumer.todo
    /\ IF IsActive(Principal[c])
       THEN Tell([op |-> "deliver", member |-> 0, to |-> c, frame |-> consumer.next], {Home[c]})
       ELSE UNCHANGED channel
    /\ IF consumer.todo = {c} THEN Finish ELSE Continue("send", consumer.todo \ {c}, {})
    /\ UNCHANGED <<conversation, redis, sockets, frames, listening, listener, faults, asked>>

\* Mutant: the event was acknowledged when it was taken.
CrashAfterAck ==
    /\ Fault
    /\ ~At("ready")
    /\ Finish
    /\ UNCHANGED <<conversation, redis, sockets, frames, channels>>

\* The event is taken again from its beginning: nack, or a process that died.
Crash ==
    /\ Fault
    /\ ~At("ready")
    /\ Continue("ready", {}, {})
    /\ UNCHANGED <<conversation, redis, sockets, frames, channels>>

\* The connection to the broker breaks: _consume ends with remove_instance, of its own id.
Reconnect ==
    /\ Fault
    /\ Continue("ready", {}, {})
    /\ RemoveInstance(ConsumerId)
    /\ UNCHANGED <<conversation, status, sockets, frames, channels>>

-----------------------------------------------------------------------------
(* Sockets and their requests.                                             *)

Open(c) == socket[c] = "open"

\* enqueue.  The frames of other conversations and a slow sender may have filled the queue
\* at any time; then a request to catch up takes the place of its oldest frame, once.
Put(c, frame) ==
    \/ /\ shown' = IF frame = Typing THEN shown ELSE [shown EXCEPT ![c] = Append(@, frame)]
       /\ UNCHANGED resync
    \/ resync' = resync \union {c} /\ UNCHANGED shown

Register(c) ==
    /\ socket[c] = "none"
    /\ socket' = [socket EXCEPT ![c] = "open"]
    /\ Recorded(c)
    /\ UNCHANGED <<conversation, consumer, subscribed, status, here, handler, frames, channels,
                   faults, asked>>

\* Registry.remove: the socket has closed, or another one of its session came.
Removed(c) ==
    /\ socket' = [socket EXCEPT ![c] = "closed"]
    /\ here' = here \ {c}
    /\ Unrecorded({c})
    /\ UNCHANGED <<conversation, consumer, status, frames, channels>>

Disconnect(c) ==
    /\ Fault
    /\ Open(c)
    /\ Removed(c)
    /\ UNCHANGED handler

\* client_event: ensure_workspace_active.  An error closes the socket, here and below.
Ask(c, op) ==
    /\ Open(c) /\ handler[c] = "idle"
    /\ op = "subscribe" => subscribed[c] = 0
    /\ op # "subscribe" => c \in here
    /\ asked[c] < MaxRequests[c] /\ asked' = [asked EXCEPT ![c] = @ + 1]
    /\ UNCHANGED faults
    /\ IF IsActive(Principal[c])
       THEN /\ handler' = [handler EXCEPT ![c] = op]
            /\ UNCHANGED <<conversation, consumer, redis, socket, here, frames, channels>>
       ELSE Removed(c) /\ UNCHANGED handler

Granted(op) ==
    [subscribe |-> "subscribing", unsubscribe |-> "unsubscribing", typing |-> "broadcasting"][op]

\* ConversationAuthorizer.authorize.
Authorize(c, op) ==
    /\ handler[c] = op
    /\ IF Principal[c] \in granted
       THEN /\ handler' = [handler EXCEPT ![c] = Granted(op)]
            /\ UNCHANGED <<conversation, consumer, redis, socket, here, frames, channels>>
       ELSE handler' = [handler EXCEPT ![c] = "idle"] /\ Removed(c)
    /\ UNCHANGED <<faults, asked>>

Subscribe(c) ==
    /\ handler[c] = Granted("subscribe")
    /\ handler' = [handler EXCEPT ![c] = "idle"]
    /\ here' = IF Open(c) THEN here \union {c} ELSE here
    /\ Store(c, consumer.next)
    /\ UNCHANGED <<conversation, consumer, record, status, socket, frames, channels, faults, asked>>

Unsubscribe(c) ==
    /\ handler[c] = Granted("unsubscribe")
    /\ handler' = [handler EXCEPT ![c] = "idle"]
    /\ here' = here \ {c}
    /\ Store(c, 0)
    /\ UNCHANGED <<conversation, consumer, record, status, socket, frames, channels, faults, asked>>

\* TypingBroadcaster.broadcast, to one of the others; E2eeDistributionBroadcaster too.
Type(c, d) ==
    /\ handler[c] = Granted("typing")
    /\ c \in here
    /\ Principal[d] # Principal[c]
    /\ d \in record /\ subscribed[d] # 0 /\ IsActive(Principal[d])
    /\ Principal[d] \in granted
    /\ IF Home[d] # Home[c]
       THEN Tell([op |-> "typing", member |-> 0, to |-> d, frame |-> Typing], {Home[d]})
            /\ UNCHANGED frames
       ELSE /\ IF d \in here THEN Put(d, Typing) ELSE UNCHANGED frames
            /\ UNCHANGED channel
    /\ handler' = [handler EXCEPT ![c] = "idle"]
    /\ UNCHANGED <<conversation, consumer, redis, socket, here, listening, listener, faults, asked>>

\* Nobody to tell, or no subscription any more.
TypeToNobody(c) ==
    /\ handler[c] = Granted("typing")
    /\ handler' = [handler EXCEPT ![c] = "idle"]
    /\ IF c \in here
       THEN UNCHANGED <<conversation, consumer, redis, socket, here, frames, channels>>
       ELSE Removed(c)
    /\ UNCHANGED <<faults, asked>>

\* No presence.heartbeat for 90 seconds; refresh does not write the record again.
Expire(c) ==
    /\ Fault
    /\ c \in record
    /\ record' = record \ {c}
    /\ UNCHANGED <<conversation, consumer, subscribed, status, sockets, frames, channels>>

-----------------------------------------------------------------------------
(* The task of an instance that listens.                                   *)

\* Mutant: every message of a channel has a task of its own.
HearAny(i) ==
    /\ i \in listening /\ listener[i] = Idle
    /\ \E k \in DOMAIN channel[i] :
        /\ channel' = [channel EXCEPT ![i] =
                          SubSeq(@, 1, k - 1) \o SubSeq(@, k + 1, Len(@))]
        /\ listener' = [listener EXCEPT ![i] = channel[i][k]]
    /\ UNCHANGED <<conversation, consumer, redis, sockets, frames, listening, faults, asked>>

Hear(i) ==
    /\ i \in listening /\ listener[i] = Idle
    /\ channel[i] # <<>>
    /\ channel' = [channel EXCEPT ![i] = Tail(@)]
    /\ listener' = [listener EXCEPT ![i] = Head(channel[i])]
    /\ UNCHANGED <<conversation, consumer, redis, sockets, frames, listening, faults, asked>>

\* _deliver_remote: the socket is there and its member still active; a frame of typing is
\* authorized again, of a socket that is subscribed.
Admit(i) ==
    LET message == listener[i]
        c == message.to
    IN
    /\ message.op \in {"deliver", "typing"}
    /\ listener' = [listener EXCEPT ![i] =
          IF /\ Open(c) /\ IsActive(Principal[c])
             /\ message.op = "typing" => c \in here /\ Principal[c] \in granted
          THEN [message EXCEPT !.op = "put"] ELSE Idle]
    /\ UNCHANGED <<conversation, consumer, redis, sockets, frames, channel, listening, faults, asked>>

\* claim_delivery, of an id that each publication has made anew, and enqueue.
Enqueue(i) ==
    /\ listener[i].op = "put"
    /\ Put(listener[i].to, listener[i].frame)
    /\ listener' = [listener EXCEPT ![i] = Idle]
    /\ UNCHANGED <<conversation, consumer, redis, sockets, channel, listening, faults, asked>>

\* Registry.revoke_workspace_member sets the status once more and clears its own sockets ...
Revoke(i) ==
    /\ listener[i].op = "revoke"
    /\ status' = [status EXCEPT ![listener[i].member] = "GONE"]
    /\ here' = {c \in here : Home[c] # i \/ Principal[c] # listener[i].member}
    /\ listener' = [listener EXCEPT ![i].op = "again"]
    /\ UNCHANGED <<conversation, consumer, record, subscribed, socket, handler, frames, channel,
                   listening, faults, asked>>

\* ... then RedisMetadataRegistry.revoke_workspace_member sets it again ...
RevokeAgain(i) ==
    /\ listener[i].op = "again"
    /\ status' = [status EXCEPT ![listener[i].member] = "GONE"]
    /\ listener' = [listener EXCEPT ![i].op = "list"]
    /\ UNCHANGED <<conversation, consumer, record, subscribed, sockets, frames, channel, listening,
                   faults, asked>>

\* ... and clears what Redis has of the member, wherever its socket is.
RevokeList(i) ==
    /\ listener[i].op = "list"
    /\ LET todo == {c \in record : Principal[c] = listener[i].member} IN
       listener' = [listener EXCEPT ![i] =
                       IF todo = {} THEN Idle ELSE [op |-> "clear", todo |-> todo]]
    /\ UNCHANGED <<conversation, consumer, redis, sockets, frames, channel, listening, faults, asked>>

RevokeStored(i, c) ==
    /\ listener[i].op = "clear" /\ c \in listener[i].todo
    /\ Store(c, 0)
    /\ listener' = [listener EXCEPT ![i] =
                       IF @.todo = {c} THEN Idle
                       ELSE [op |-> "clear", todo |-> @.todo \ {c}]]
    /\ UNCHANGED <<conversation, consumer, record, status, sockets, frames, channel, listening,
                   faults, asked>>

\* An error of Redis is none of those that _listen_for_deliveries catches: the task ends
\* and nothing starts it again.
ListenerDies(i) ==
    /\ Fault
    /\ i \in listening
    /\ listening' = listening \ {i}
    /\ listener' = [listener EXCEPT ![i] = Idle]
    /\ channel' = [channel EXCEPT ![i] = <<>>]
    /\ UNCHANGED <<conversation, consumer, redis, sockets, frames>>

-----------------------------------------------------------------------------
(* An instance begins anew: its sockets and requests are gone, and what was *)
(* published for it in the meantime, with nobody there who would miss it.  *)

Startup(i) ==
    /\ listening' = listening \union {i}
    /\ listener' = [listener EXCEPT ![i] = Idle]
    /\ channel' = [channel EXCEPT ![i] = <<>>]

Ended(i) ==
    /\ socket' = [c \in Connection |-> IF Home[c] = i /\ Open(c) THEN "closed" ELSE socket[c]]
    /\ here' = {c \in here : Home[c] # i}
    /\ handler' = [c \in Connection |-> IF Home[c] = i THEN "idle" ELSE handler[c]]

\* It shuts down, and each of its sockets leaves Redis ...
Shutdown(i) ==
    /\ Fault
    /\ RemoveInstance(i) /\ Ended(i) /\ Startup(i)
    /\ UNCHANGED <<conversation, consumer, status, frames>>

\* ... or it dies, and they stay there until they lapse.
Die(i) ==
    /\ Fault
    /\ Ended(i) /\ Startup(i)
    /\ UNCHANGED <<conversation, consumer, redis, frames>>

-----------------------------------------------------------------------------

Publishing ==
    \/ Message \/ Close
    \/ \E m \in Leavers : Remove(m) \/ Depart(m) \/ Reactivate(m)

Consume ==
    \/ Take \/ ListDeparted \/ Cleared
    \/ \E c \in Connection : Clear(c) \/ Look(c) \/ Send(c)

Handle(c) ==
    \/ \E op \in {"subscribe", "unsubscribe", "typing"} : Ask(c, op) \/ Authorize(c, op)
    \/ Subscribe(c) \/ Unsubscribe(c) \/ TypeToNobody(c)
    \/ \E d \in Connection : Type(c, d)

Listen(i) ==
    \/ Hear(i) \/ Admit(i) \/ Enqueue(i) \/ Revoke(i) \/ RevokeAgain(i) \/ RevokeList(i)
    \/ \E c \in Connection : RevokeStored(i, c)

Failing ==
    \/ Crash \/ Reconnect
    \/ \E c \in Connection : Disconnect(c) \/ Expire(c)
    \/ \E i \in Instance : ListenerDies(i) \/ Shutdown(i) \/ Die(i)

RealtimeNext ==
    \/ Publishing \/ Consume \/ Failing
    \/ \E m \in Leavers : Learn(m)
    \/ \E c \in Connection : Register(c) \/ Handle(c)
    \/ \E i \in Instance : Listen(i)

RealtimeSpec == RealtimeInit /\ [][RealtimeNext]_realtimeVars

-----------------------------------------------------------------------------
(* Properties.                                                             *)

Events ==
    [type : {"message", "closed"}, member : {Everybody}]
    \union [type : {"removed", "departed", "reactivated"}, member : Member]

\* What is published to an instance, and what its listener makes of it.
Notices ==
    [op : {"deliver", "typing"}, member : {0}, to : Connection, frame : Nat]
    \union [op : {"revoke"}, member : Member, to : {0}, frame : {0}]
InHand ==
    Notices \union {Idle}
    \union [op : {"put"}, member : {0}, to : Connection, frame : Nat]
    \union [op : {"again", "list"}, member : Member, to : {0}, frame : {0}]
    \union [op : {"clear"}, todo : SUBSET Connection]

Stages == {"ready", "list", "clear", "look", "send"}
Places == [next : Nat \ {0}, stage : Stages, todo : SUBSET Connection, found : SUBSET Connection]

RealtimeTypeOK ==
    /\ history \in Seq(Events) /\ granted \subseteq Member /\ leaving \subseteq Member
    /\ consumer \in Places
    /\ record \subseteq Connection /\ subscribed \in [Connection -> Nat]
    /\ status \in [Member -> {"ACTIVE", "GONE"}]
    /\ socket \in [Connection -> {"none", "open", "closed"}] /\ here \subseteq Connection
    /\ handler \in [Connection -> {"idle", "subscribe", "unsubscribe", "typing",
                                  "subscribing", "unsubscribing", "broadcasting"}]
    /\ resync \subseteq Connection /\ shown \in [Connection -> Seq(Nat)]
    /\ channel \in [Instance -> Seq(Notices)] /\ listening \subseteq Instance
    /\ listener \in [Instance -> InHand]

Told(c) == {shown[c][k] : k \in DOMAIN shown[c]}

\* Of what was said after a member's departure and before his reactivation no socket of
\* his gets anything, although subscriptions are written after the revocation and a late
\* instance deletes them (events.py:113-115, main.py:79).
DepartedGetNothing ==
    \A c \in Connection : \A k \in Told(c) : ~Gone(Principal[c], k)

\* A removal takes effect on every socket that was subscribed before it, on whatever
\* instance, after repeated and interrupted attempts: only a subscription written while
\* it was applied, or later, can be there afterwards (registry.py:333-381).
RemovalClears ==
    \A c \in record : subscribed[c] # 0 =>
        \A k \in subscribed[c] + 1 .. consumer.next - 1 :
            /\ history[k] \notin {Event("removed", Principal[c]), Event("departed", Principal[c])}
            /\ history[k].type # "closed"

\* A socket sees messages in their order; the ones repeated after a crash come together.
InOrder ==
    \A c \in Connection :
        \A k \in 1 .. Len(shown[c]) - 1 : shown[c][k] <= shown[c][k + 1]

OnItsWay(c, k) ==
    \/ \E message \in {channel[Home[c]][n] : n \in DOMAIN channel[Home[c]]}
                     \union {listener[Home[c]]} :
          message.op \in {"deliver", "put"} /\ message.to = c /\ message.frame = k

\* A socket that was subscribed before a message and still is has been sent it, or will
\* be, or was told to catch up, also if the consumer began again in the middle.  Only a
\* listener that died, a lapsed record or a departure in between takes one away
\* (events.py:113-135, registry.py:151-170).
NothingLost ==
    \A c \in record : \A k \in 1 .. consumer.next - 1 :
        (/\ Open(c)
         /\ history[k].type = "message"
         /\ subscribed[c] \in 1 .. k - 1
         /\ Home[c] \in listening
         /\ IsActive(Principal[c]) /\ ~Gone(Principal[c], k))
        => k \in Told(c) \/ OnItsWay(c, k) \/ c \in resync
=============================================================================
