# Formal specification of the chat platform

TLA+ specifications of the services under `src/services`, checked with TLC and, where it
matters most, proved with TLAPS. The code is the reference: a definition translates the
handler it names, and `PROJECT.json` gives the lines of every one of them.

## 1. The system

The platform is a set of services, each with a PostgreSQL database of its own, that tell
each other what happened through RabbitMQ. The Python services (FastAPI, SQLAlchemy) run
every request in one READ COMMITTED transaction; a domain change and the event that tells
of it are written in that transaction (the outbox), a runner publishes the event, and
consumers apply it once, with a table of the events they have seen.

| component | state | operations | what makes it correct |
|---|---|---|---|
| messaging-service | messages, a counter per conversation, read states, reactions, broadcast lists; projections of members, conversations, blocks and media | send, edit, delete, react, mark, fan-out; apply projection events | dense history, one message per client key, all-or-nothing fan-out, who sends is who may |
| conversation-service | conversations, members with role and status, settings; projections of members, blocks, messages and reads | create, add, remove, leave, promote, demote, transfer, close, delete; authorize; apply events | one owner, the member limit, truthful events, departures end memberships, summaries that converge |
| outbox, broker, consumers | outbox rows, queues, processed events | publish, deliver, project, acknowledge | nothing committed is lost, nothing is applied twice |
| realtime-service | connections and subscriptions in a process, routing metadata in Redis, bounded queues | subscribe, deliver, invalidate, presence, typing | no delivery after a departure, order, nothing lost without a request to catch up |
| notification-service | notifications, deliveries with a claim, tokens | fan out, claim, send, finalize | a delivery is claimed by one worker and ends SENT, FAILED or CANCELLED |
| media-service | media, references, usage; an object store | initiate, complete, abort, reference, delete, clean up | usage matches the files, no referenced file is collected |
| identity-service | identities, devices, sessions, refresh credentials, prekeys, links, OTP and QR challenges; intents of registrations | log in, refresh, revoke, authorize, consume; register, accept an invitation | one use of everything that is good for one, nothing of a revoked device lives on, a registration ends once and everywhere |
| organization-service (Django) | organizations, members, roles, invitations, teams, outbox | the membership commands | an active owner always, capacity, invitations that lapse with their inviter |
| user-service | profiles, contacts, blocks | contact and block commands | symmetric answers about blocks |
| gateway-service | counters of requests | count, forward, try again | what is no GET is tried once; a limit limits and ends |

What is hard: statements of concurrent transactions interleave; a row lock protects only
what is read after it; clients repeat requests; a process dies between a confirm and a
commit; events are duplicated, overtaken and delayed; what another service has done stays
when the transaction around the call rolls back; and a service decides from a projection
that lags behind. The list of hazards, each at its line and with the properties that would
catch it, is in `PROJECT.json`.

## 2. The modules

| module | models | of |
|---|---|---|
| `MessageLog` | what a history promises: append, once per key, to several conversations at once | abstract specification |
| `Messaging` | `send`, called by `create` and by `fan_out_send` | messaging-service |
| `Conversation` | all operations on the members of a group, and the consumer of membership events | conversation-service |
| `EventRelay` | outbox runners, broker, idempotent consumers | messaging-service to conversation-service |
| `MessageLifecycle` | edit, delete and marks, the backfill, and `project_message` with the summaries made of it | messaging-service and conversation-service |
| `Notifications` | projections, fan-out, push tokens and delivery workers | notification-service |
| `SendAuthorization` | the commands, outboxes and projections behind `authorize` and `authorize_send` | organization-, conversation-, user- and messaging-service together |
| `RealtimeRegistry` | the consumer, Redis, instances with their sockets and channels | realtime-service |
| `MediaStore` | uploads, references, usage and cleanup over a store that no transaction undoes | media-service |
| `IdentitySessions` | devices, keys, sessions, credentials, links and challenges under row locks | identity-service |
| `Onboarding` | the five sagas that begin an account | identity-, user- and organization-service together |
| `Organization` | members, roles, invitations and a team of a tenant | organization-service |
| `DeliveryProofs` | theorems about `SendAuthorization` and `EventRelay` | |
| `MessagingProofs` | theorems about `Messaging` and `RealtimeRegistry` | |
| `OrganizationProofs` | theorems about `Organization` and `MediaStore` | |
| `...Proofs` | theorems about `Conversation`, `MessageLifecycle`, `Notifications`, `Onboarding`, `IdentitySessions` | |
| `MC...` | instances for TLC | |

**Messaging.** A worker is a request with its transaction. `rows` and `counter` are the
committed tables `messages` and `conversation_sequences`; `lock` is who holds the counter
row of a conversation, or its primary key while the first row is being inserted; the other
variables are local to a worker (`key`, `kind`, `reply`: the body; `seq`: the sequences it
has allocated and not committed). An action is one SQL statement of `send` with the Python
that follows it: `ReadNew`/`ReturnExisting`/`RefuseContent` (idempotency and content),
`LockCounter`/`NoCounter`/`CreateCounter`/`CounterCollision` (the `SELECT ... FOR UPDATE`
and the racing insert of a first row), `InsertMessage`/`InsertRejected` (the unique
indexes), `Commit`. `Fail` is any error, refusal or crash, and undoes the transaction. A
fan-out runs `send` for each recipient in one transaction and in the order the database
returns them, so two can deadlock; `DeadlockAbort` is PostgreSQL's detector. Content is
abstracted to what a message carries. The answer to a committed request may be lost; the
client then repeats it, which is `BeginSend` again with the same key.

**Conversation.** `conv`, `member` and `projection` are committed tables; `told` is the
last event of a group. Each handler locks the row of its conversation first
(`get_conversation`), so handlers of one group exclude each other and those without a call
to another service are one action, which includes the event they write. `group` and `add`
read the projection (or ask user-service) and insert later: `BeginGroup`/`CommitGroup`,
`BeginAdd`/`CommitAdd`, with `lock` in between for an add. `ConsumeMember` applies one
membership event; events come in any order and any number. It waits for the groups it
takes somebody out of. A group is of a workspace or personal (`Scope`); in a personal group
`add` compares contact ids with identities, which `Added` keeps.

**EventRelay.** Events are numbered by `created_at`. A runner takes the oldest pending row
with `SKIP LOCKED`, publishes and commits; one failed publish is counted and tried again at
once on the same connection, as in the code. Consumers look an event up, project it and
insert it into `processed_events` in one transaction, then acknowledge. RabbitMQ is external
and modelled by how the code uses it: durable queue, persistent messages, confirms,
redelivery of what was not acknowledged. `RelayFault` bounds crashes, lost confirms, outages and
nacks together.

**MessageLifecycle.** One conversation. `message` and `cursor` are tables of
messaging-service (`messages`, `conversation_read_states`), `preview` and `watermark` those
conversation-service keeps for its chat list. A request that changes a message locks its
row, so it is one action with its event, and takes a tick of real time; `Ahead` and
`DbAhead` are what the clocks of the instances and of the database add to it. `mark` locks
the row of the member too, except where there is none: `BeginFirst` has found none,
`EndFirst` inserts it or meets the unique index. The backfill reads rows (`StageMessages`,
`StageReads`) and commits their events later (`CommitStaged`); it is run by one operator, in
batches, and again at will. `outbox` is a set: events of it are projected in any order, and
the same snapshot may come any number of times. That nothing in it is lost or projected
twice is the business of `EventRelay` and assumed here, as dense sequences are of
`Messaging`. A summary is what `summaries` would answer: `Summary` of the projections,
`Truth` of the tables.

**Notifications.** Its variables are the tables of notification-service, with `claim` for
`claimed_at`: the worker that made the claim stands for its time, because a worker forgets a
row before it can claim it again. The three consumers run in one process, one callback at a
time, so a consumed event is one step (`Consume`, or `ConsumeAgain` when its id is in
`processed_events`); an event that cannot be handled yet goes back to the queue, which
changes nothing. Events come in any order, since they are published by several outboxes and
requeued. Mutes, blocks and preferences can be set at any time and no property is about
them: a fan-out finds any (`Fanout`). The delivery workers are processes of their own. Each of
their transactions is a step: `Claim`, `Load`, the call of the provider (`Send`), and
`_finalize`, which is two, as it reads the row without a lock (`Finalize`) and writes it at
its commit (`Write`). `FinalizeFails` is the answer that asks for a retry (section 4). A claim
becomes stale by `Expire` once its worker has lost it, by `ExpireInHand` while it still works
on it; the latter, crashes, outages and lost acknowledgements are faults and bounded.

**SendAuthorization.** Composes four services. `org`, `chat`, `roster`, `blocks`, `contacts`
and `hidden` are the tables of the three that own them; `known` and `barred` are the
projections of conversation-service, `pOrg`, `pChat`, `pRoster` and `pBlocks` those of
messaging-service. A command changes a table and stages its event in `log`; the row is
`pending` until its publication is committed. conversation-service and user-service publish
in batches (`Send`, `FailSend`, `CommitBatch`, `CrashBatch`), organization-service one row in a
transaction (`PublishOne`, `RetryOne`); one queue takes all (`queue`), and conversation-service
follows the other two with a queue of its own (`followed`). A row that a constraint refuses goes
back to the end of its queue (`Requeue`, `FollowLater`). `MaySend` is what `authorize` answers in a
workspace and `authorize_send` for a personal chat; `Entitled` is the same of the tables of the
services themselves. The lookup of a batch is merged into its first `Send`, with which it
commutes. `disordered` remembers that an event was overtaken by a later one of its producer: the
code has no versions, and nothing repairs a projection after that. A contact whose number is
changed is one forgotten and one saved. What conversation-service gets twice `EventRelay` covers.

**RealtimeRegistry.** One conversation of a workspace. An action is what a process does between
two awaits of the network. `history` is the queue of the consumer, `granted` what
conversation-service would answer; `record`, `subscribed` and `status` are in Redis, `socket`,
`here` and `handler` in the memory of an instance, `channel` and `listener` its Redis channel and the
task that reads it. `Take`, `ListDeparted`, `Look`, `Send`, `Clear` and `Cleared` are the consumer;
`Ask`, `Authorize` and `Subscribe` (or `Unsubscribe`, `Type`) a request of a client; `Hear`, `Admit`,
`Enqueue`, `Revoke` and its three followers the listening task. Faults: the consumer begins an event
again (`Crash`), loses the broker and removes an instance that is not its own (`Reconnect`), a
socket closes, a record lapses, a listening task dies for good, an instance shuts down or is
killed. A restart is one step; a killed instance leaves its records until they lapse. The queue
of a socket may be full whenever a frame is put, as frames of other conversations share it.

**MediaStore.** One account, whose row of usage is there. The API, the consumer and the cleanup runner
are processes of their own, and a worker is one transaction of any of them: nothing keeps two apart.
`tx` is a `MediaService`, which holds a copy of all tables. `Hydrate` and `HydrateRest` read them, in
the order of `_hydrate` (an event is looked up after the references were read); one method runs; `_persist`
writes all of them back. It does so by `session.merge`, which reads a row again and writes what
differs of it, column by column: `MergeMedia` and `MergeUsage` are that second reading where it comes before the
commit of another transaction and finds nothing to write, and otherwise it is at `Persist`, which is
the rest and the commit. References and revoked members are deleted and inserted again; a
deletion does not see what another transaction commits while it runs (`unseen`, `still`), and what both
insert violates a unique index (`Rollback`). `overtaken` remembers that another transaction has
changed the tables since the copy was read. `objects` and `uploads` are the store, which keeps what a
method did when `Rollback` undoes the rest; an object, or a part, is what was declared or something
else, and an abort or a completion of an upload that the store does not have raises. Only the adapter for
S3 is modelled: the local one is for development. `Put` and `PutPart` are the client and its presigned
URLs, which live until the medium is `expired`.

**IdentitySessions.** One identity. A worker is a request in its transaction, with the rows it
has locked; an action is a statement that takes a lock or a snapshot, and what the command
writes appears with its commit. A statement that selects several rows `FOR UPDATE` sees those of
its snapshot, and waits for one after another (`SelectSessions`, `LockSession`). A session or a
key that is inserted refers to its identity and device, so the insert waits for whoever holds
those rows (`Refers`). `Rollback` is an error, a refusal, a crash or a deadlock's victim; it takes
with it what the code records before it raises.

**Onboarding.** A personal registration, one of a company with a password, one of a company with
a code, an invitation by phone and one by mail. The first transaction leaves an identity and an
intent (`row`); the second (`tx`) locks the intent (`LockRow`), makes a profile, a company or a
membership in other services (`ProvisionProfile`, `ProvisionCompany`, `AcceptInvitation`), and activates
the identity, signs in and completes the intent in `End`. `GiveUp`, `RefuseInvitation` and
`RefuseDevice` leave it at any point, and what was done elsewhere stays. A link of an invitation
is a number (`token`), which `ResendInvitation` makes stale. Passwords and codes are taken as right.

**Organization.** One tenant. A request reads its caller's permissions (`Begin`) and runs its
command later, under the lock of the organization's row (`LockTenant`); a command is therefore one
action. `AcceptBound` is the call that `Onboarding` makes.

## 3. The runs

| run | instance | shows |
|---|---|---|
| `messaging` | 2 workers, 2 conversations, 3 client messages (a first one, a reply that is valid in one conversation only, a forward), 2 fan-outs to both conversations | `SequencesDense`, `OneMessagePerKey`, `BroadcastAllOrNothing`, refinement of `MessageLog`, `EveryRequestEnds` |
| `conversation` | 1 workspace group, 4 members, limit 3, 2 workers that add one member each, statuses ACTIVE and LEFT | `OneOwner`, `GroupWithinLimit`, `EventsTellRoster`, `OwnerKept`, `AdminsAnswerToOwner` |
| `relay` | 2 events, 2 runners, 2 consumers, 2 retries, 2 faults | `ProjectedOnce`, `PublishedIsKept`, `Settles` |
| `lifecycle` | a text and a media message of two members, 3 changes, sequence 1 may be marked, clocks that agree | `Converged`, `WatermarkTrails`, `TombstonesStay`, `CursorsGrow` |
| `notifications` | 1 member with 1 device, 1 group, 6 events (his creation, activation and departure, the group, his addition, a message) of which 4 are consumed, 2 workers, batches of 2, 1 fault of any kind | `OncePerConsumer`, `DepartedGetNothing`, `OutcomeTold`, `NeverResent`, `EveryDeliveryEnds` |
| `authorization` | 2 members who have left and come back before, a group, a direct chat and a personal chat, one saved contact, 3 commands, 1 fault | `AgreesUnlessInFlight`, `EveryEventApplies` |
| `authorization_member` | the same, with members who have never left, and no fault | violation of `MembersMaySend` |
| `realtime` | 2 members with a socket each on 2 instances, 2 events, 1 and 2 requests of a socket, 1 fault of any kind | `DepartedGetNothing`, `RemovalClears`, `InOrder`, `NothingLost` |
| `media` | a simple and a multipart upload of different sizes and two parts, a message that carries the first, 2 workers, 4 transactions | `OutcomesHold`, `OnlyOverlapsHarm` |
| `identity` | 2 devices, 2 workers, 4 commands | `OneLiveCredential`, `RevokedDeviceIsSilent`, `ChallengesOnce`, `ResetEndsAll` |
| `onboarding` | one address and one number in all five ways, with a second invitation by phone, 2 workers, 1 lapse | `EndsOnce`, `AccountsArePlaced` |
| `organization` | 2 users, 3 members, limit 2, 2 invitations, 4 requests of which 2 at once, roles OWNER and MANAGER, and a custom one that is made and given to nobody | `ActiveOwner`, `DepartedUnplaced`, `OnlyRejoinsExceed`, `InvitationsLapse` |

*Bounds.* Two workers and two conversations are the least in which transactions race for a
counter, for a key, and in opposite orders for two counters. The keys are few because a key
is used again by every repetition; the messages bound the state space (`Requests`,
`Broadcasts` with `made`), nothing else does. Four members and a limit of three let two
adds together pass the limit, and let an owner leave the organization while two admins
remain; one more member or worker adds no new kind of step. In `lifecycle`
`MaxTime` bounds the changes: three let an edit and a deletion of one message, or changes of
two, overtake each other and a snapshot; `MaxMark` bounds the sequences members mark. In
`relay` two faults let a crash follow an outage or a lost confirm, two retries make FAILED
reachable, two runners and consumers race for every row. In `notifications` four
events let two deliveries of a member (an invitation, a group or a message) exist when he
leaves, so that a batch is longer than a row; two workers can hold claims of the same row one
after the other, and one fault lets a worker die with a batch, or be late with it.
In `authorization` three commands are a chat that begins and two that change who may send in
it, so that the second can overtake the first, and contacts change only as long as a personal
chat has not been opened (`Unopened`); `MaxFaults` is below `OUTBOX_MAX_RETRIES`, after which
organization-service gives up. In `realtime` a member leaves by one of two events and comes back,
or a message follows, while the consumer is at most one event behind; the socket that cannot be
removed makes two requests, the other one. One fault suffices for each property to be at risk
(the mutant of `NothingLost` needs it). In `media` the
transactions that begin are bounded, and nothing else: four are an upload and its completion with two
others that overlap each other or them, such as a message that refers to it and the cleanup, the least in
which a referenced file is collected; the client and the clock do what they like. Four commands of `identity` are two ways to end or
continue the sessions that two others have begun. `MaxLapses` bounds what in `onboarding` expires,
is revoked or sent again; requests and retries are not bounded. `organization` has a
place less than members, so that a rejoin can exceed the limit; the requests bound the commands.
Symmetry is used where nothing tells the elements apart, and in no run with liveness. What is
proved holds for any size.

*Deadlock* is not checked where the bounds, or a saga whose intents have all expired, end the
behaviour: `authorization`, `realtime`, `media`, `identity`, `onboarding`, `organization`.

*Fairness.* Messaging: a request that can go on does (`WF` of `Step`), and a waiter whose
lock becomes free again and again gets it (`SF`), because PostgreSQL queues the waiters of a
row. Beginning and failing are not fair: clients need not send. EventRelay: runners and
consumers are loops, restarted when they die (`outbox_runner.py` catches everything and
sleeps), and the broker comes back; faults are not fair.
Notifications: a worker is restarted (`restart: unless-stopped`) and keeps polling, the
provider answers, and time passes; the consumers are owed nothing, as an event may stay in
its queue. A claim has room for every row there is in the instance, so no order of the
claims can keep a delivery waiting.
SendAuthorization: runners and consumers are loops that go on after every error; one weak fairness
of all of them together is less than the code gives, and enough because the commands are
bounded. The rest has no liveness: what a client does not repeat need not end.

## 4. Disagreements and what the models show

* **A member who has never left may send in no workspace conversation**
  (`authorization_member`). messaging-service creates the row it asks for when somebody leaves or comes
  back; `member.created` and `member.activated` it passes over, although its OPERATIONS.md:21 has
  the projection "required for workspace send authorization".

What follows is true of the models and is stated by no run of its own; each can be seen with TLC
by the change it names.

* *Conversation.* The owner of a personal group can lose the ownership without a transfer
  (`Scope` PERSONAL, `OwnerSteps("PERSONAL")`): `add` compares contact ids with identities (services.py:456), does not
  recognise that a contact is the owner, and sets his row to MEMBER (services.py:480). A departed
  member can keep a membership: the departure is applied between the read of the projection and the
  commit of an add (README.md:18 of the service says none is left).
* *EventRelay.* One outage can end an event as FAILED for good (one fault, ten retries): the
  retries are spent in a loop on the connection that is gone (messaging events.py:233).
* *MessageLifecycle.* With the database's clock ahead (`DbAhead` 2) a deletion can be lost to
  the chat list: creation is stamped by the database, edits and deletions by the instance, and
  the projection drops the smaller stamp. The backfill sends the same stamp again.
* *Notifications.* The three consumers share one table of event ids (repositories.py:445), and an event bound to two
  queues is applied by one of them: no notification of the invitation, or no row for the
  member. docs/event-contracts.md:43 wants ids that are unique for each consumer; `OncePerConsumer` holds of
  both, and a run that demands that every consumer a queue is bound to has applied what its queue is rid of
  (`acked[q] \subseteq {e \in EventIds : handled[q][e] > 0}`) fails. A retryable answer adds a delay to a time that is None (delivery_worker.py:160, called
  without a clock at :212): the exception ends the process and strands its batch as SENDING until it is
  stale, nothing is counted, and so an outage is retried without limit. `OutcomeTold` exempts
  rows that became stale in the hands of a live worker (`late`): without it a delivery can be
  announced both sent and failed.
* *SendAuthorization.* A suspended member goes on sending, and `conversation.deleted` changes
  nothing. Who is added to a conversation after it began never gets a row. The direct chat of a member who
  departed stays dead when he returns. A block that was overtaken by its own unblock is requeued
  for ever. The batches of the outboxes have no ORDER BY, and a failed row lets the later
  ones pass. A document has messaging-service ask conversation-service at every send
  (fullprojectdocumentation.md:528); the code does so for personal chats only.
* *RealtimeRegistry.* An instance that is late with a revocation sets a member to REMOVED after he
  was reactivated (main.py:61), and he gets nothing until somebody changes it. `resync_required`
  is never reset: a second overflow drops frames without a request to catch up. A listening
  task that met an error of Redis is not started again.
* *MediaStore.* Two transactions at once overwrite each other's rows (durable.py:171), and the API, the
  consumer and the cleanup are three processes. The service's docs/OPERATIONS.md:25 has the cleanup collect "unreferenced
  `READY` media past retention"; in the instance of the run it takes the file of a message: the cleanup has read
  the tables, the consumer commits the reference, the cleanup goes on. The usage and the references
  go wrong likewise (the invariants `Agrees(db)` and `Remembers(db)`, and the action property `[][\A m \in swept' \
  swept : ~InUse(m)]_mediaVars`, each fail). `OnlyOverlapsHarm` says that it takes such an overlap. An object of a
  simple upload can be put again after it was checked, and after it was deleted, as long as its URL lives:
  `OutcomesHold` excuses it. A simple upload, which has reserved nothing, releases what
  another has reserved.
* *IdentitySessions.* A refresh credential that is used again compromises its family and raises in
  the same transaction, so nothing is recorded (session_service.py:186), against
  fullprojectdocumentation.md:224 and :539 ("reuse of a rotated token revokes the family"); the same goes for
  failed attempts and EXPIRED of a code. `logout_all` ends the sessions of its
  snapshot and misses one that a context switch makes meanwhile (auth.py:186); a reset misses none, but only
  because the insert of a session waits for the row of its identity, to which it refers. A prekey that was consumed
  cannot be uploaded again: the whole upload fails. The link to verify an address that an
  acceptance by mail sends takes no lock of the identity (password.py, `invitation_password`), so two
  may be open; `ChallengesOnce` is about the other two ways.
* *Organization.* What may be delegated is decided by the permissions that were read before the
  lock (roles/services.py:11); `max_members` does not bind a rejoin, and may be set below the number of
  members. An invitation that is addressed to nobody asks what its acceptor may give, not its inviter.
* *Onboarding.* `identity.created` is told again whenever a registration is retried after a refused
  device (registration.py:332). A verified registration of a company that expired keeps its number and address for
  itself (registration.py:93,123). A member who is accepted while his intent expires keeps an
  identity that is PENDING (MEMBER-INVITATION-TESTING.md:39 knows of it). An invitation that has an
  address and a number and is sent again strands an acceptance by mail that was begun with the
  old link: its intent is unique for the invitation, so the new link is refused (409), and
  organization-service refuses the old one.
  An invitation of the model is by phone or by mail; that of one with both, whose code (`RequestCode`) starts
  an intent by mail over, is not modelled.

## 5. What is proved

The theorems hold for every value of the constants that satisfies the named assumptions
(`SendAssumption`, `ConversationAssumption`, `RelayAssumption`, `LifecycleAssumption`,
`NotificationsAssumption`, `KindAssumption`, `BoundAssumption`, `FoundersAssumption`,
`PrincipalAssumption`, `HomeAssumption`, `RequestsAssumption`, `MediaAssumption`): distinct
markers, well-typed inputs, finite sets where something is counted or put in a sequence.
`IdentitySessions` needs none.

* `MessagingProofs`. The properties of `Messaging` are not inductive: that a history is
  dense says nothing of the transactions in flight. The invariant adds that a worker with an
  allocated sequence holds the lock of that counter, that the sequence is the committed
  counter's (or 1, where no row is), that one past the insert has a key no committed row of
  that conversation has, and where in its loop a fan-out is. From it: `TypeCorrect`,
  `Dense`, `Idempotent`, `FanOutAtomic`, `RepliesEarlier`, and `Implements`, the refinement
  of `MessageLog` (only `Commit` changes the mapped state, and it is one `Append`).
* `MessagingProofs`, of `RealtimeRegistry`. Nothing is inductive without saying where a frame can be:
  shown by a socket, in the hand of its instance's listener, in the channel of that instance, or
  on the list of the consumer. `AddressInv` says that what waits for an instance is for its own
  sockets; `FrameInv` that no message is past the consumer's place or from a time when the member of
  that socket was gone; `OrderInv` that shown, in hand and channel are one sequence in the order
  of the events. They are enough for `InOrder` and, with `StatusInv` (a late instance never
  makes anybody active, so who has departed stays GONE until the consumer has come to his
  reactivation), for `DepartedGetNothing`. The consumer begins an event again after a crash,
  so what holds of the event at hand is said separately for each stage: `ClearInv` says that a
  subscription which a removal has still to clear is on its list, `DeliveryInv` that a socket
  that is owed the message is on the list, or has it. When the stage ends with an empty list, these
  become `RemovalClears` and `NothingLost` of one event more. `HistoryInv` and `PlaceInv` tie the stage to
  the type of the event. Theorems: `RealtimeInvariant`, `RealtimeTypeCorrect`, `DepartedHearNothing`
  (`DepartedGetNothing`), `RemovalsClear` (`RemovalClears`), `OrderIsKept` (`InOrder`), `NoMessageLost`
  (`NothingLost`). Nothing is assumed of the instances, which may be the consumer's own or not, die, and
  come back.
* `DeliveryProofs`, of `EventRelay`. `PublishedIsKept` needs that a runner past the confirm holds an
  event the broker still keeps, `ProjectedOnce` that effects and processed events agree, and both
  that no two transactions hold one row. An outage requeues what was in flight, for which
  `Unacked` of an event in a consumer's hands must be positive. Theorems: `RelayTypeCorrect`,
  `OnceOnly`, `NothingLost`.
* `DeliveryProofs`, of `SendAuthorization`. A *key* is something that services tell each other
  about: a membership of the tenant, the status of a chat, a founder's place in it, a pair of
  which one may block the other. `TablesInv` says that the table of the producer holds what
  the last event about a key says, or what was there at first; `ProjectionsInv` says the same of
  each projection and of the last event *applied*. It holds only while nothing is
  `disordered`, because a projection is overwritten by whatever comes. So what
  remains is order and loss: what is applied has no predecessor that is not, and what waits in a
  queue has its predecessors applied or before it (`QueueInv`, `FollowedInv`); and an event is
  pending, in a queue or applied, a batch's sent rows having arrived (`KeptInv`), whatever crashes
  or confirms are lost. `LogInv` adds that the events of a chat begin with its creation, without
  which a projection would refuse the others, and `OnceInv` that conversation-service has
  nothing twice. Where no event about a key is in flight both sides speak of the same last event
  (`Current`), from which `Agreement` compares `MaySend` with `Entitled`. Theorems:
  `TypeCorrect`, `SendingAgrees` (`AgreesUnlessInFlight`).
* `ConversationProofs`. `GroupWithinLimit` and `OwnerKept` depend on what a request read
  before it commits: the invariant says that an add in flight holds the lock of its group,
  that the members it counted and those it adds fit the limit, and that in a workspace group
  it adds nobody who is active. Handlers of one step share `OneStep`, from which the
  invariant follows once for all of them; a departure is `EndedOrKept` in each group.
  Theorems: `TypeCorrect`, `SingleOwner`, `LimitKept`, `EventsCurrent`, and the action
  properties `OwnerStays` and `AdminsSafe`, which are about workspace groups only: in a
  personal group both are wrong (section 4).
* `MessageLifecycleProofs`. With any clocks: `TypeCorrect`, `TombstonesPermanent`,
  `CursorsMonotone`, and `ReadsTrail` from `ReadInv`, which says that no read event, sent or
  staged, exceeds what has been read and that the last one is projected or in flight.
  `Converges` assumes `Synchronized` (section 4 shows it is needed). Its invariant
  `MessageInv` says of every event and preview that it is no newer than the row and agrees
  with it if it is as new (`Faithful`, `PreviewFaithful`), and that the newest event of a
  message is in flight or projected, unless a tombstone made it needless (`NewestTold`): a
  snapshot that was staged before an edit is harmless because its version is older than the
  row's, which needs that each change of a row is stamped later than the last.
* `NotificationsProofs`. `OutcomeTold` needs to know what workers may do to a row:
  `HoldInv` says that a worker has a row in its memory once, and that the row, unless the
  worker was late with it, is under its claim, SENDING or CANCELLED, and not stale, so that
  nobody else can take it. `DepartedGetNothing` and `OncePerConsumer` are conjuncts
  of the invariant as they stand. Theorems: `TypeCorrect`, `AppliedOnce`, `DepartedSafe`,
  `OutcomesTold`, and the action property `NothingResent`, which needs the type invariant and
  the guard of a claim.
* `OnboardingProofs`. An intent is in one request's hands (`Locked`), which is why a second
  retry cannot end it again. `AccountsArePlaced` speaks of active identities; what makes the
  activation safe is `WorkInv`, which says of each request what it has read and done: past
  the profile there is a profile, at the end a company, or a membership of the identity that
  its intent names. That a later intent does not name somebody else follows from `RowInv` (its own
  identity, or one with the number of the invitation) and `PhoneInv` (a number has one
  identity), and that a member has an accepted invitation is `RemoteInv`. Theorems:
  `TypeCorrect`, `SignsInOnce`, `AccountsPlaced`.
* `OrganizationProofs`. A command runs under the lock of its tenant and counts the owners that are
  active before it takes one away, so `ActiveOwner` is inductive once it is known that a tenant
  that was not provisioned has no members (`Unprovisioned`). `DepartedUnplaced` is a conjunct of the
  invariant as it stands: every command that ends a membership takes it out of its team, and
  every one that places a member looks at its status under the same lock. What a request has read
  before the lock is nowhere in the invariant; the two action properties say what it
  can do. Theorems: `TypeCorrect`, `OwnerRemains`, `DepartedLeaveTeams`, and `CapacityIsKept`
  (`OnlyRejoinsExceed`: beside a changed plan, only a return takes a tenant over its limit) and
  `InvitersMustStillMay` (`InvitationsLapse`).
* `OrganizationProofs`, of `MediaStore`, for any media, sizes, messages and workers, whose transactions
  overlap as they like. A copy that a worker holds may be written back at any later moment, so
  what holds of the tables must hold of every *version*, committed or in a copy (`VersionInv`): `Fits` says of one
  version what it tells of a medium's upload against what the store has, `Consistent` that no two versions disagree on
  how an upload in parts has ended, of which `StoreInv` is the store's side. While the store has an upload, there
  is no object, and every version has the row UPLOADING, or not at all, and has told nothing. An operation that asks the
  store first is therefore safe with any overlap: whoever ends the upload is the only one who does. From it:
  `OutcomesHold`. `TransactionInv` says that a copy is what is committed until its method has run, and then that it
  `Follows` what is committed, as long as nobody has overtaken it: its usage agrees with its own rows, its
  references are those of its processed events, and it forgets no row. That is all `OnlyOverlapsHarm` needs: a step
  that breaks one of them is a commit or a cleanup of a transaction of which this is not known. Bytes are counted as the
  cardinality of a set of octets, so that a sum over a set of media is a disjoint union (`BytesApart`, `BytesWithout`),
  and the cleanup, which handles several at once, subtracts what it has removed (`CleaningFollows`, `PurgeFollows`).
  Theorems: `MediaInvariant`, `MediaTypeCorrect`, `OutcomesAlwaysHold` (`OutcomesHold`), and the action property
  `OverlapsOnlyHarm` (`OnlyOverlapsHarm`).
* `IdentitySessionsProofs`. Nothing here is inductive without the row locks. `Held` says of an
  open transaction which rows it has and what it may rely on for that: a caller's session that is
  active, a prekey that is stored, a challenge that is pending, the credential a refresh presents and
  then its session, a device that is not revoked, and of one that ends sessions or links that what it
  has still to do, or has done, is all there is. `Exclusive` says that no two hold one row. A
  commit then has two parts: what it writes is what it holds, and what every other transaction
  relies on is therefore as it was. Rows that did not exist are not locked by a query; that a reset
  or the revocation of a device misses no session that is being made follows from `Refers`: an insert
  waits for whoever holds a row that its foreign keys name. `LiveInv` says without counting that an active
  session has one live credential, and `ChallengeInv` that what a session or a handed-out
  prekey was made from is spent. Theorems: `TypeCorrect`, `LiveCredentialIsOne` (`OneLiveCredential`),
  `RevokedStaysSilent` (`RevokedDeviceIsSilent`), `UsedOnce` (`ChallengesOnce`), and the action property
  `ResetLeavesNone` (`ResetEndsAll`).

Only model-checked:

* `EveryRequestEnds`, `Settles`, `EveryDeliveryEnds` and `EveryEventApplies`: liveness under fairness
  is out of the prover's reach;
* the violation of section 4.

Every other property of the passing runs is a theorem. The type invariants and the inductive
invariants are theorems too, and no properties of a run.

## 6. Not modelled, and what is left

Of the modelled services:

* messaging-service: history and search (they change nothing), the projection of media, and
  reactions. `add_reaction` reads its message without a lock and emits the content it has read
  (main.py:185); a model of it needs the notifications that are made of it.
* conversation-service: titles, list state and unread counters of other kinds. The creation of a
  direct chat of a workspace looks at a projection of blocks that lags behind like the others;
  no property is about whether such a chat may begin.
* realtime-service: presence, which is best effort by design (a time to live in Redis), and the
  expiry of typing.
* notification-service: reactions, mentions, invitations by phone, marks as read, and its outbox
  publisher, which nothing drives differently from that of `EventRelay`. Mutes, blocks and preferences
  are any at a fan-out.
* media-service: profile photos, the local adapter, and thumbnails, which nothing makes.
* identity-service: rate limits (counters in Redis, made like the gateway's), registration by a code alone
  (auth.py:109-131, which `REGISTRATION_POLICY` turns off), key backups, audit, the cleanup. Whether a
  password or a code is right is a guard that may hold.
* organization-service: the primary flag of a branch, audit, operators' read-only views.
* user-service: preferences, names, photos, what a search finds, the status of a user, and presence. Two
  choices of a profile photo at once write what each has changed of the row both have read
  (profile_photos.py:119): the photo of one may stay for the time of the other.
* gateway-service, a proxy: it repeats a request only if it is a GET or HEAD, and counts requests in
  Redis. A counter gets its expiry by a second call (rate_limit.py:33-35); if the first is the last
  thing a process does, the counter stays, and refuses what comes after the limit. The windows are
  fixed, not sliding (fullprojectdocumentation.md:176).

Not planned: the clients (`src/apps`) and deployment. `SendAuthorization` has user-service publish to the exchange
its code names by default (user.events), to which the consumers bind; docker-compose.yml:137 and
deploy/hostinger/docker-compose.yml:204 set `RABBITMQ_EXCHANGE` to organization.events for its outbox runner.
