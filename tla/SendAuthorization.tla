-------------------------- MODULE SendAuthorization --------------------------
(***************************************************************************)
(* Who may send in a conversation.                                         *)
(*                                                                         *)
(* In a workspace messaging-service decides alone, from projections of     *)
(* what three services tell: organization-service (who is a member),       *)
(* conversation-service (which conversations there are and who is in them) *)
(* and user-service (who has blocked whom).  Each has an outbox of its own,*)
(* and one queue takes all of them.                                        *)
(*                                                                         *)
(* In a personal chat, which a saved contact is enough to open, it asks    *)
(* conversation-service, and that asks user-service and looks at its own   *)
(* projection of the blocks.  conversation-service follows the other two.  *)
(***************************************************************************)
EXTENDS Integers, Sequences, FiniteSets, SequencesExt, FiniteSetsExt

CONSTANTS
    Member,
    Chat,
    Direct,         \* chats of two
    Personal,       \* ... and of no workspace
    Saved,          \* contacts saved before all this, as <<owner, whom>>
    Founders,       \* of a chat: whom conversation.created names
    Returned,       \* those who left and came back before all this
    None,
    MaxCommands,    \* commands that change something (bound)
    MaxFaults       \* failed publications, lost confirms and acks, crashes (bound)

ASSUME FoundersAssumption ==
    /\ None \notin Member \union {"ACTIVE", "CLOSED", "DELETED", "LEFT"}
    /\ IsFiniteSet(Chat)
    /\ Direct \subseteq Chat /\ Personal \subseteq Direct
    /\ Saved \subseteq Member \X Member
    /\ Founders \in [Chat -> SUBSET Member]
    /\ \A d \in Direct : Cardinality(Founders[d]) = 2
    /\ MaxCommands \in Nat /\ MaxFaults \in Nat

VARIABLES
    org, chat, roster, blocks,  \* the tables of the three services
    contacts, hidden,           \* user-service: who saved whom, who is not discoverable
    known, barred,              \* conversation-service: its projections of members and blocks
    followed,                   \* ... and the queue they come from
    log,                        \* events staged so far
    pending,                    \* those whose outbox row is PENDING
    late,                       \* organization-service: those that wait for another try
    open,                       \* publishing transactions of the other two
    queue,                      \* messaging.authorization
    processed,                  \* messaging-service: processed_events
    pOrg, pChat, pRoster, pBlocks,  \* ... and its projections
    commands, faults,
    disordered                  \* has an event been overtaken by a later one of its producer

book == <<contacts, hidden>>
tables == <<org, chat, roster, blocks, book, known, barred>>
outbox == <<log, pending, commands>>
publishing == <<late, open>>
projections == <<processed, pOrg, pChat, pRoster, pBlocks>>
vars == <<tables, followed, outbox, publishing, queue, projections, faults, disordered>>

Blocked(pairs, m, n) == <<m, n>> \in pairs \/ <<n, m>> \in pairs

Batching == {"conversation", "user"}
Idle == [rows |-> {}, sent |-> {}]

Init ==
    /\ org = [m \in Member |-> "ACTIVE"]
    /\ chat = [c \in Chat |-> "none"]
    /\ roster = [c \in Chat |-> [m \in Member |-> None]]
    /\ blocks = {}
    /\ contacts = Saved
    /\ hidden = {}
    /\ known = org
    /\ barred = {}
    /\ followed = <<>>
    /\ log = <<>>
    /\ pending = {}
    /\ late = {}
    /\ open = [p \in Batching |-> Idle]
    /\ queue = <<>>
    /\ processed = {}
    /\ pOrg = [m \in Member |-> IF m \in Returned THEN "ACTIVE" ELSE None]
    /\ pChat = chat
    /\ pRoster = roster
    /\ pBlocks = {}
    /\ commands = 0
    /\ faults = 0
    /\ disordered = FALSE

-----------------------------------------------------------------------------
(* The commands, each with the event that it stages.                       *)

Stage(events) ==
    /\ log' = log \o events
    /\ pending' = pending \union {Len(log) + n : n \in DOMAIN events}

Command ==
    /\ commands < MaxCommands
    /\ commands' = commands + 1
    /\ UNCHANGED <<barred, followed, publishing, queue, projections, faults, disordered>>

Told(kind, c, m, status) ==
    [from |-> "conversation", kind |-> kind, chat |-> c, who |-> m, status |-> status]
ToldByUser(kind, m, n) == [from |-> "user", kind |-> kind, pair |-> <<m, n>>]

Active(c) == {m \in Member : roster[c][m] = "ACTIVE"}

\* eligible: of those who have the number of a contact, whom its owner may see.
Eligible(m, n) == n \notin hidden /\ n # m /\ ~Blocked(blocks, m, n)

\* authorize_contact: the owner's contact, if it is somebody's number.
Resolves(m, n) == <<m, n>> \in contacts /\ Eligible(m, n)

\* blocked_between of conversation-service.
Barred(m, n) == Blocked(barred, m, n)

\* resolve_contact_identity.
Reaches(m, n) == Resolves(m, n) /\ ~Barred(m, n)

\* ensure_workspace_member_active, as far as conversation-service knows.
WorksHere(m) == known[m] = "ACTIVE"

\* personal_direct.  The lock on the pair lets the second of two that open it at once find
\* what the first has made.
MayOpen(c) == \E m, n \in Founders[c] : Reaches(m, n)

Found(c) ==
    /\ Command
    /\ chat[c] = "none"
    /\ IF c \in Personal THEN MayOpen(c) ELSE \A m \in Founders[c] : WorksHere(m)
    /\ chat' = [chat EXCEPT ![c] = "ACTIVE"]
    /\ roster' = [roster EXCEPT ![c] =
                      [m \in Member |-> IF m \in Founders[c] THEN "ACTIVE" ELSE None]]
    /\ Stage(<<Told("created", c, None, "ACTIVE")>>)
    /\ UNCHANGED <<org, blocks, book, known>>

\* A deleted group can be closed and a closed one deleted.
Close(c) ==
    /\ Command
    /\ c \notin Direct
    /\ chat[c] \notin {"none", "CLOSED"} /\ Active(c) # {}
    /\ chat' = [chat EXCEPT ![c] = "CLOSED"]
    /\ Stage(<<Told("closed", c, None, "CLOSED")>>)
    /\ UNCHANGED <<org, roster, blocks, book, known>>

Delete(c) ==
    /\ Command
    /\ c \notin Direct
    /\ chat[c] \notin {"none", "DELETED"} /\ Active(c) # {}
    /\ chat' = [chat EXCEPT ![c] = "DELETED"]
    /\ Stage(<<Told("deleted", c, None, "DELETED")>>)
    /\ UNCHANGED <<org, roster, blocks, book, known>>

\* Add, remove and leave have no regard to the status of the group.
AddMember(c, m) ==
    /\ Command
    /\ c \notin Direct
    /\ Active(c) # {} /\ m \notin Active(c)
    /\ WorksHere(m)
    /\ roster' = [roster EXCEPT ![c][m] = "ACTIVE"]
    /\ Stage(<<Told("member", c, m, "ACTIVE")>>)
    /\ UNCHANGED <<org, chat, blocks, book, known>>

\* Who leaves or departs is LEFT, who is taken out REMOVED: nothing tells them apart here.
RemoveMember(c, m) ==
    /\ Command
    /\ c \notin Direct
    /\ m \in Active(c) /\ Active(c) # {m}
    /\ roster' = [roster EXCEPT ![c][m] = "LEFT"]
    /\ Stage(<<Told("member", c, m, "LEFT")>>)
    /\ UNCHANGED <<org, chat, blocks, book, known>>

Depart(m) ==
    /\ Command
    /\ org[m] = "ACTIVE"
    /\ org' = [org EXCEPT ![m] = "LEFT"]
    /\ Stage(<<[from |-> "organization", who |-> m, status |-> "LEFT"]>>)
    /\ UNCHANGED <<chat, roster, blocks, book, known>>

Return(m) ==
    /\ Command
    /\ org[m] # "ACTIVE"
    /\ org' = [org EXCEPT ![m] = "ACTIVE"]
    /\ Stage(<<[from |-> "organization", who |-> m, status |-> "ACTIVE"]>>)
    /\ UNCHANGED <<chat, roster, blocks, book, known>>

Block(m, n) ==
    /\ Command
    /\ m # n /\ <<m, n>> \notin blocks
    /\ blocks' = blocks \union {<<m, n>>}
    /\ Stage(<<ToldByUser("blocked", m, n)>>)
    /\ UNCHANGED <<org, chat, roster, book, known>>

Unblock(m, n) ==
    /\ Command
    /\ <<m, n>> \in blocks
    /\ blocks' = blocks \ {<<m, n>>}
    /\ Stage(<<ToldByUser("unblocked", m, n)>>)
    /\ UNCHANGED <<org, chat, roster, book, known>>

\* Once it is open a chat asks the contacts nothing (bound).
Unopened == \E c \in Personal : chat[c] = "none"

\* The number of somebody, once for an owner.
SaveContact(m, n) ==
    /\ Command /\ Unopened
    /\ m # n /\ <<m, n>> \notin contacts
    /\ contacts' = contacts \union {<<m, n>>}
    /\ UNCHANGED <<org, chat, roster, blocks, hidden, known, log, pending>>

ForgetContact(m, n) ==
    /\ Command /\ Unopened
    /\ <<m, n>> \in contacts
    /\ contacts' = contacts \ {<<m, n>>}
    /\ UNCHANGED <<org, chat, roster, blocks, hidden, known, log, pending>>

\* update_privacy: what it stages nobody here listens to.
SetDiscoverable(m) ==
    /\ Command /\ Unopened
    /\ hidden' = IF m \in hidden THEN hidden \ {m} ELSE hidden \union {m}
    /\ UNCHANGED <<org, chat, roster, blocks, contacts, known, log, pending>>

\* conversation-service takes a departure or a return of the organization.  Only a
\* departure reaches the conversations.
FollowMember ==
    /\ followed # <<>> /\ log[Head(followed)].from = "organization"
    /\ LET e == log[Head(followed)]
           left == IF e.status = "ACTIVE" THEN {}
                   ELSE {c \in Chat \ Personal : e.who \in Active(c)}
       IN  /\ known' = [known EXCEPT ![e.who] = e.status]
           /\ roster' = [c \in Chat |->
                  IF c \in left THEN [roster[c] EXCEPT ![e.who] = e.status] ELSE roster[c]]
           /\ Stage(SetToSeq({Told("member", c, e.who, e.status) : c \in left}))
    /\ followed' = Tail(followed)
    /\ UNCHANGED <<org, chat, blocks, book, barred, commands, publishing, queue, projections,
                   faults, disordered>>

Fault ==
    /\ faults < MaxFaults
    /\ faults' = faults + 1

\* Is i behind a later event of its producer?
Overtaken(i, others) == \E j \in Range(others) : j > i /\ log[j].from = log[i].from

WithBlock(pairs, e) ==
    IF e.kind = "blocked" THEN pairs \union {e.pair} ELSE pairs \ {e.pair}

\* The unique constraint of either table of blocks refuses a row.
Collides(pairs, e) == e.from = "user" /\ e.kind = "blocked" /\ e.pair \in pairs

FollowBlock ==
    /\ followed # <<>> /\ log[Head(followed)].from = "user"
    /\ LET e == log[Head(followed)]
       IN  ~Collides(barred, e) /\ barred' = WithBlock(barred, e)
    /\ followed' = Tail(followed)
    /\ UNCHANGED <<org, chat, roster, blocks, book, known, outbox, publishing, queue,
                   projections, faults, disordered>>

\* The transaction fails and the event goes back to the queue, behind those that have been
\* delivered already.
FollowLater ==
    /\ followed # <<>>
    /\ LET i == Head(followed)
       IN  /\ IF Collides(barred, log[i]) THEN UNCHANGED faults ELSE Fault
           /\ followed' = Append(Tail(followed), i)
           /\ disordered' = (disordered \/ Overtaken(i, Tail(followed)))
    /\ UNCHANGED <<tables, outbox, publishing, queue, projections>>

-----------------------------------------------------------------------------
(* The outboxes.                                                           *)

Rows(p) == {i \in pending : log[i].from = p}

\* Of what arrives twice conversation-service takes the first.
Arrive(i) ==
    LET arrived == processed \union Range(queue)
    IN  /\ queue' = Append(queue, i)
        /\ followed' = IF log[i].from # "conversation" /\ i \notin arrived
                       THEN Append(followed, i) ELSE followed
        /\ disordered' = \/ disordered
                         \/ /\ i \notin arrived
                            /\ \E j \in 1..(i - 1) \ arrived : log[j].from = log[i].from

\* conversation-service and user-service lock all rows and send them one by one.
ToSend(p) == IF open[p] = Idle THEN Rows(p) ELSE open[p].rows
First(p) == {i \in ToSend(p) : \A j \in ToSend(p) : i <= j}

Send(p) ==
    /\ \E i \in First(p) :
          /\ open' = [open EXCEPT ![p] = [rows |-> ToSend(p) \ {i}, sent |-> @.sent \union {i}]]
          /\ Arrive(i)
    /\ UNCHANGED <<tables, outbox, late, projections, faults>>

\* Bug: the failure of a publication goes unnoticed.
FailSendUnnoticed(p) ==
    /\ Fault
    /\ \E i \in First(p) :
          open' = [open EXCEPT ![p] = [rows |-> ToSend(p) \ {i}, sent |-> @.sent \union {i}]]
    /\ UNCHANGED <<tables, followed, outbox, late, queue, projections, disordered>>

\* The row stays PENDING, whether the broker has the event or not, and the next is sent.
FailSend(p) ==
    /\ Fault
    /\ \E i \in First(p) :
          /\ open' = [open EXCEPT ![p].rows = ToSend(p) \ {i}]
          /\ Arrive(i) \/ UNCHANGED <<queue, followed, disordered>>
    /\ UNCHANGED <<tables, outbox, late, projections>>

\* A batch of which nothing could be sent is Idle and has nothing to commit.
CommitBatch(p) ==
    /\ open[p] # Idle /\ open[p].rows = {}
    /\ pending' = pending \ open[p].sent
    /\ open' = [open EXCEPT ![p] = Idle]
    /\ UNCHANGED <<tables, followed, log, commands, late, queue, projections, faults, disordered>>

CrashBatch(p) ==
    /\ Fault
    /\ open[p] # Idle
    /\ open' = [open EXCEPT ![p] = Idle]
    /\ UNCHANGED <<tables, followed, outbox, late, queue, projections, disordered>>

\* organization-service sends one row in a transaction, and a failed one later again.
Oldest(i) == \A j \in Rows("organization") \ late : i <= j

PublishOne ==
    /\ \E i \in Rows("organization") :
          /\ i \in late \/ Oldest(i)
          /\ Arrive(i)
          /\ pending' = pending \ {i}
          /\ late' = late \ {i}
    /\ UNCHANGED <<tables, log, commands, open, projections, faults>>

RetryOne ==
    /\ Fault
    /\ \E i \in Rows("organization") \ late :
          /\ Oldest(i)
          /\ Arrive(i) \/ UNCHANGED <<queue, followed, disordered>>
          /\ late' = late \union {i}
    /\ UNCHANGED <<tables, outbox, open, projections>>

-----------------------------------------------------------------------------
(* The consumer of messaging-service.                                      *)

ProjectChat(e) ==
    /\ pChat' = CASE e.kind = "created" -> [pChat EXCEPT ![e.chat] = "ACTIVE"]
                  [] e.kind = "closed" /\ pChat[e.chat] # "none" ->
                         [pChat EXCEPT ![e.chat] = "CLOSED"]
                  [] OTHER -> pChat
    /\ pRoster' = CASE e.kind = "created" ->
                         [pRoster EXCEPT ![e.chat] = [m \in Member |->
                             IF m \in Founders[e.chat] THEN "ACTIVE" ELSE None]]
                    [] e.kind = "member" /\ pRoster[e.chat][e.who] # None ->
                         [pRoster EXCEPT ![e.chat][e.who] = e.status]
                    [] OTHER -> pRoster
    /\ UNCHANGED <<pOrg, pBlocks>>

ProjectMember(e) ==
    /\ pOrg' = [pOrg EXCEPT ![e.who] = e.status]
    /\ UNCHANGED <<pChat, pRoster, pBlocks>>

ProjectBlock(e) ==
    /\ pBlocks' = WithBlock(pBlocks, e)
    /\ UNCHANGED <<pOrg, pChat, pRoster>>

\* Bug: no lookup of the event among those processed.
ApplyProjectionAgain(i) ==
    LET e == log[i]
    IN  /\ ~Collides(pBlocks, e)
        /\ CASE e.from = "conversation" -> ProjectChat(e)
             [] e.from = "organization" -> ProjectMember(e)
             [] OTHER -> ProjectBlock(e)
        /\ processed' = processed \union {i}

ApplyProjection(i) ==
    IF i \in processed THEN UNCHANGED projections
    ELSE LET e == log[i]
         IN  /\ ~Collides(pBlocks, e)
             /\ CASE e.from = "conversation" -> ProjectChat(e)
                  [] e.from = "organization" -> ProjectMember(e)
                  [] OTHER -> ProjectBlock(e)
             /\ processed' = processed \union {i}

\* The transaction commits; if its acknowledgement is lost the event is delivered again.
Consume ==
    /\ queue # <<>>
    /\ ApplyProjection(Head(queue))
    /\ \/ queue' = Tail(queue) /\ UNCHANGED faults
       \/ Fault /\ UNCHANGED queue
    /\ UNCHANGED <<tables, followed, outbox, publishing, disordered>>

Requeue ==
    /\ queue # <<>>
    /\ LET i == Head(queue)
       IN  /\ IF i \notin processed /\ Collides(pBlocks, log[i]) THEN UNCHANGED faults ELSE Fault
           /\ queue' = Append(Tail(queue), i)
           /\ disordered' = \/ disordered
                            \/ i \notin processed /\ Overtaken(i, Tail(queue))
    /\ UNCHANGED <<tables, followed, outbox, publishing, projections>>

-----------------------------------------------------------------------------
Commands ==
    \/ \E c \in Chat : Found(c) \/ Close(c) \/ Delete(c)
    \/ \E c \in Chat, m \in Member : AddMember(c, m) \/ RemoveMember(c, m)
    \/ \E m \in Member : Depart(m) \/ Return(m)
    \/ \E m, n \in Member :
          Block(m, n) \/ Unblock(m, n) \/ SaveContact(m, n) \/ ForgetContact(m, n)
    \/ \E m \in Member : SetDiscoverable(m)

Progress ==
    \/ \E p \in Batching : Send(p) \/ CommitBatch(p)
    \/ PublishOne
    \/ FollowMember \/ FollowBlock
    \/ Consume

Next ==
    \/ Commands
    \/ Progress
    \/ \E p \in Batching : FailSend(p) \/ CrashBatch(p)
    \/ RetryOne \/ FollowLater \/ Requeue

\* The runners and the consumers are loops that only their process' end stops: one of those
\* that can go on does.
Spec == Init /\ [][Next]_vars /\ WF_vars(Progress)

-----------------------------------------------------------------------------
(* Who may send, and who should.                                           *)

Peers(c, m) == {n \in Member \ {m} : roster[c][n] # None}

\* authorize_communication.
MayCommunicate(m, n) == ~Blocked(blocks, m, n)

\* authorize_send of conversation-service: nothing tells messaging-service of the chat, and
\* user-service is asked whether the two may communicate.
MaySendPersonal(c, m) ==
    /\ chat[c] = "ACTIVE" /\ roster[c][m] = "ACTIVE"
    /\ \A n \in Peers(c, m) : MayCommunicate(m, n) /\ ~Barred(m, n)

MaySendInWorkspace(c, m) ==
    /\ pOrg[m] = "ACTIVE"
    /\ pChat[c] = "ACTIVE"
    /\ pRoster[c][m] = "ACTIVE"
    /\ c \in Direct => \A n \in Member \ {m} :
           pRoster[c][n] = "ACTIVE" => ~Blocked(pBlocks, m, n)

MaySend(c, m) ==
    IF c \in Personal THEN MaySendPersonal(c, m) ELSE MaySendInWorkspace(c, m)

\* The same of the tables of the services themselves.
Entitled(c, m) ==
    /\ c \notin Personal => org[m] = "ACTIVE"
    /\ chat[c] = "ACTIVE"
    /\ roster[c][m] = "ACTIVE"
    /\ c \in Direct => \A n \in Member \ {m} :
           roster[c][n] = "ACTIVE" => ~Blocked(blocks, m, n)

InFlight(i) == i \in pending \/ i \in Range(queue) \/ i \in Range(followed)

\* Does event e bear on whether m may send in c?
About(e, c, m) ==
    CASE e.from = "conversation" -> e.chat = c /\ (c \in Direct \/ e.who \in {None, m})
      [] e.from = "organization" -> c \notin Personal /\ e.who = m
      [] OTHER -> c \in Direct /\ m \in Range(e.pair)

\* messaging-service learns of a membership when it ends or begins again.
HeardOf(m) ==
    m \in Returned \/ \E i \in DOMAIN log : log[i].from = "organization" /\ log[i].who = m

EventType ==
    [from : {"conversation"}, kind : {"created", "closed", "deleted", "member"}, chat : Chat,
     who : Member \union {None}, status : {"ACTIVE", "CLOSED", "DELETED", "LEFT"}]
    \union [from : {"organization"}, who : Member, status : {"ACTIVE", "LEFT"}]
    \union [from : {"user"}, kind : {"blocked", "unblocked"}, pair : Member \X Member]

TypeOK ==
    /\ org \in [Member -> {"ACTIVE", "LEFT"}]
    /\ known \in [Member -> {"ACTIVE", "LEFT"}]
    /\ chat \in [Chat -> {"none", "ACTIVE", "CLOSED", "DELETED"}]
    /\ roster \in [Chat -> [Member -> {None, "ACTIVE", "LEFT"}]]
    /\ \A pairs \in {blocks, barred, pBlocks, contacts} : pairs \subseteq Member \X Member
    /\ hidden \subseteq Member
    /\ log \in Seq(EventType)
    /\ pending \subseteq DOMAIN log /\ processed \subseteq DOMAIN log
    /\ late \subseteq Rows("organization")
    /\ queue \in Seq(DOMAIN log) /\ followed \in Seq(DOMAIN log)
    /\ open \in [Batching -> [rows : SUBSET Nat, sent : SUBSET Nat]]
    /\ \A p \in Batching : open[p].rows \union open[p].sent \subseteq Rows(p)
    /\ pOrg \in [Member -> {None, "ACTIVE", "LEFT"}]
    /\ pChat \in [Chat -> {"none", "ACTIVE", "CLOSED"}]
    /\ pRoster \in [Chat -> [Member -> {None, "ACTIVE", "LEFT"}]]
    /\ commands \in 0..MaxCommands /\ faults \in 0..MaxFaults /\ disordered \in BOOLEAN

\* A send of somebody who was in the chat when it began is allowed although he is not
\* entitled, or refused although he is, only while an event that bears on it is on its
\* way: crashes, repeated batches and lost acknowledgements leave no lasting
\* difference, as long as no event overtakes another (authorize, apply_projection).
\* The service tells messaging-service nothing of use of a group that is deleted.
AgreesUnlessInFlight ==
    \A c \in Chat, m \in Member :
        m \in Founders[c] /\ (c \in Personal \/ HeardOf(m)) /\ chat[c] # "DELETED" /\ ~disordered =>
            \/ MaySend(c, m) = Entitled(c, m)
            \/ \E i \in DOMAIN log : InFlight(i) /\ About(log[i], c, m)

\* docs/OPERATIONS.md of messaging-service: the consumer projects organization members,
\* "required for workspace send authorization".  Once all is told and applied, a founder
\* of an active chat who is a member may send.
MembersMaySend ==
    pending = {} /\ queue = <<>> /\ followed = <<>> =>
        \A c \in Chat : \A m \in Founders[c] : Entitled(c, m) => MaySend(c, m)

\* When the commands cease every event is applied in the end, whatever failed (unlimited
\* retries of the outboxes, requeueing of the consumer), or one has overtaken another.
EveryEventApplies == <>[](processed = DOMAIN log \/ disordered)
=============================================================================
