------------------------------ MODULE Messaging ------------------------------
(***************************************************************************)
(* The send path of messaging-service: app/services.py send, called by the *)
(* create handler of app/main.py for one conversation and by               *)
(* app/broadcast.py fan_out_send for all recipients of a personal          *)
(* broadcast list.  A worker is an API request with its own PostgreSQL     *)
(* transaction at READ COMMITTED: every statement sees what is committed   *)
(* when it runs, a row lock taken by SELECT FOR UPDATE or by an INSERT is   *)
(* held to the end of the transaction, and a failure anywhere undoes all   *)
(* of it.                                                                  *)
(*                                                                         *)
(* A refusal that only answers an error (authorize, media_attachment, a    *)
(* forward source that is gone) changes no state and is the action Fail.   *)
(***************************************************************************)
EXTENDS Naturals, FiniteSets

CONSTANTS
    Workers,            \* concurrent API requests
    Conversations,      \* conversation ids
    ClientKeys,         \* (sender_device_id, client_message_id) pairs of clients
    Requests,           \* the messages clients send, and send again
    Broadcasts,         \* fan_out_send calls, each with fresh uuid4 keys
    Recipients,         \* the conversations each of them is for
    NoWorker,           \* no transaction holds the row
    NoKey, NoConv,      \* an idle worker's key and conversation
    NoReply             \* reply_to_message_id is null

Keys == ClientKeys \union Broadcasts
Kinds == {"TEXT", "E2EE", "MEDIA", "FORWARD"}
MessageId == Conversations \X Nat
Request == [key : ClientKeys, conv : Conversations, kind : Kinds,
            reply : MessageId \union {NoReply}]

ASSUME SendAssumption ==
    /\ NoWorker \notin Workers
    /\ NoConv \notin Conversations
    /\ ClientKeys \intersect Broadcasts = {}
    /\ Requests \subseteq Request
    /\ Recipients \in [Broadcasts -> SUBSET Conversations]

VARIABLES
    rows,       \* table messages: the committed rows
    counter,    \* table conversation_sequences: next_sequence, 0 where no row is
    lock,       \* who holds the counter row of a conversation (or its key, inserting it)
    pc,         \* where a worker's handler is
    key,        \* body.client_message_id with the device of the principal
    kind,       \* the branch of send the body takes
    carries,    \* what the message is going to carry
    reply,      \* body.reply_to_message_id, as the (conversation, sequence) it names
    todo,       \* the conversations the transaction still has to send to
    cur,        \* the conversation send is working on
    seq,        \* the sequences the transaction has allocated, 0 where none
    made        \* the fan_out_send calls made so far

vars == <<rows, counter, lock, pc, key, kind, carries, reply, todo, cur, seq,
          made>>

Contents == {"text", "envelope", "attachment", "nothing"}
Row == [conv : Conversations, seq : Nat, key : Keys, kind : Kinds,
        reply : MessageId \union {NoReply}, carries : Contents]
PCs == {"idle", "read", "lock", "create", "insert", "commit"}

IdOf(r) == <<r.conv, r.seq>>
Ids == {IdOf(r) : r \in rows}
EntryOf(r) == [conv |-> r.conv, seq |-> r.seq, key |-> r.key]
HasKey(c, k) == \E r \in rows : r.conv = c /\ r.key = k
Allocated(w) == {c \in Conversations : seq[w][c] # 0}

Init ==
    /\ rows = {}
    /\ counter = [c \in Conversations |-> 0]
    /\ lock = [c \in Conversations |-> NoWorker]
    /\ pc = [w \in Workers |-> "idle"]
    /\ key = [w \in Workers |-> NoKey]
    /\ kind = [w \in Workers |-> "TEXT"]
    /\ carries = [w \in Workers |-> "nothing"]
    /\ reply = [w \in Workers |-> NoReply]
    /\ todo = [w \in Workers |-> {}]
    /\ cur = [w \in Workers |-> NoConv]
    /\ seq = [w \in Workers |-> [c \in Conversations |-> 0]]
    /\ made = {}

-----------------------------------------------------------------------------
(* The end of a transaction, committed or not: locks and local state go.   *)

EndTransaction(w) ==
    /\ lock' = [c \in Conversations |-> IF lock[c] = w THEN NoWorker ELSE lock[c]]
    /\ pc' = [pc EXCEPT ![w] = "idle"]
    /\ key' = [key EXCEPT ![w] = NoKey]
    /\ kind' = [kind EXCEPT ![w] = "TEXT"]
    /\ carries' = [carries EXCEPT ![w] = "nothing"]
    /\ reply' = [reply EXCEPT ![w] = NoReply]
    /\ todo' = [todo EXCEPT ![w] = {}]
    /\ cur' = [cur EXCEPT ![w] = NoConv]
    /\ seq' = [seq EXCEPT ![w] = [c \in Conversations |-> 0]]

Rollback(w) ==
    /\ EndTransaction(w)
    /\ UNCHANGED <<rows, counter, made>>

\* A request runs until it meets an error of its own, a broken connection, a
\* crash of the process or an authorization that is refused.
Fail(w) ==
    /\ pc[w] # "idle"
    /\ Rollback(w)

-----------------------------------------------------------------------------
(* POST /conversations/{id}/messages, first sent or repeated: the client   *)
(* keeps client_message_id over its retries.  A reply id that names no     *)
(* message is refused, by send or by the foreign key, and is left to Fail. *)
BeginSend(w, q) ==
    /\ pc[w] = "idle"
    /\ q.reply \in Ids \union {NoReply}
    /\ pc' = [pc EXCEPT ![w] = "read"]
    /\ key' = [key EXCEPT ![w] = q.key]
    /\ kind' = [kind EXCEPT ![w] = q.kind]
    /\ reply' = [reply EXCEPT ![w] = q.reply]
    /\ todo' = [todo EXCEPT ![w] = {q.conv}]
    /\ UNCHANGED <<rows, counter, lock, carries, cur, seq, made>>

\* POST /personal/broadcast-lists/{id}/messages, refused for an empty list.  Every
\* call makes new keys, so a call is made once and a repeated one is another call.
BeginBroadcast(w, b) ==
    /\ pc[w] = "idle"
    /\ b \notin made
    /\ Recipients[b] # {}
    /\ made' = made \union {b}
    /\ pc' = [pc EXCEPT ![w] = "read"]
    /\ key' = [key EXCEPT ![w] = b]
    /\ todo' = [todo EXCEPT ![w] = Recipients[b]]
    /\ UNCHANGED <<rows, counter, lock, kind, carries, reply, cur, seq>>

\* The branches of send are exclusive: if E2EE, elif forward, elif reply, elif media.
\* An E2EE or forwarded message stores its reply id as it is; a forward copies text
\* and attachment of the source, never its envelope; a reply must name a message of
\* this conversation and then never gets to media_attachment.
Content(w, c, d) ==
    \/ kind[w] = "E2EE" /\ d = "envelope"
    \/ /\ kind[w] = "FORWARD"
       /\ \E src \in rows :
             d = IF src.carries = "envelope" THEN "nothing" ELSE src.carries
    \/ /\ kind[w] \in {"TEXT", "MEDIA"}
       /\ reply[w] # NoReply => reply[w] \in Ids /\ reply[w][1] = c
       /\ d = CASE kind[w] = "TEXT" -> "text"
                [] kind[w] = "MEDIA" /\ reply[w] = NoReply -> "attachment"
                [] OTHER -> "nothing"

\* send up to the counter: the key was used before and its message is the answer ...
ReturnExisting(w, c) ==
    /\ pc[w] = "read"
    /\ c \in todo[w]
    /\ HasKey(c, key[w])
    /\ Rollback(w)

\* ... or it is new and the body is valid.  SQL gives the recipients in any order.
ReadNew(w, c) ==
    /\ pc[w] = "read"
    /\ c \in todo[w]
    /\ ~HasKey(c, key[w])
    /\ \E d \in Contents : Content(w, c, d) /\ carries' = [carries EXCEPT ![w] = d]
    /\ pc' = [pc EXCEPT ![w] = "lock"]
    /\ cur' = [cur EXCEPT ![w] = c]
    /\ todo' = [todo EXCEPT ![w] = @ \ {c}]
    /\ UNCHANGED <<rows, counter, lock, key, kind, reply, seq, made>>

\* REPLY_INVALID or FORWARD_INVALID.
RefuseContent(w, c) ==
    /\ pc[w] = "read"
    /\ c \in todo[w]
    /\ ~HasKey(c, key[w])
    /\ ~\E d \in Contents : Content(w, c, d)
    /\ Rollback(w)

\* Mutant: the SELECT without its FOR UPDATE.
LockCounterUnlocked(w) ==
    /\ pc[w] = "lock"
    /\ counter[cur[w]] # 0
    /\ seq' = [seq EXCEPT ![w][cur[w]] = counter[cur[w]]]
    /\ pc' = [pc EXCEPT ![w] = "insert"]
    /\ UNCHANGED <<rows, counter, lock, key, kind, carries, reply, todo, cur, made>>

\* SELECT ... FOR UPDATE of a counter row that is there: waits for the lock and
\* then reads the row as last committed.
LockCounter(w) ==
    /\ pc[w] = "lock"
    /\ counter[cur[w]] # 0
    /\ lock[cur[w]] = NoWorker
    /\ lock' = [lock EXCEPT ![cur[w]] = w]
    /\ seq' = [seq EXCEPT ![w][cur[w]] = counter[cur[w]]]
    /\ pc' = [pc EXCEPT ![w] = "insert"]
    /\ UNCHANGED <<rows, counter, key, kind, carries, reply, todo, cur, made>>

\* The same statement finds no committed row and waits for nobody.
NoCounter(w) ==
    /\ pc[w] = "lock"
    /\ counter[cur[w]] = 0
    /\ pc' = [pc EXCEPT ![w] = "create"]
    /\ UNCHANGED <<rows, counter, lock, key, kind, carries, reply, todo, cur, seq, made>>

\* Mutant: conversation_sequences without its primary key.
CreateCounterNoKey(w) ==
    /\ pc[w] = "create"
    /\ lock' = [lock EXCEPT ![cur[w]] = w]
    /\ seq' = [seq EXCEPT ![w][cur[w]] = 1]
    /\ pc' = [pc EXCEPT ![w] = "insert"]
    /\ UNCHANGED <<rows, counter, key, kind, carries, reply, todo, cur, made>>

\* INSERT of the first counter row: waits while another transaction is inserting
\* the same primary key.
CreateCounter(w) ==
    /\ pc[w] = "create"
    /\ lock[cur[w]] = NoWorker
    /\ counter[cur[w]] = 0
    /\ lock' = [lock EXCEPT ![cur[w]] = w]
    /\ seq' = [seq EXCEPT ![w][cur[w]] = 1]
    /\ pc' = [pc EXCEPT ![w] = "insert"]
    /\ UNCHANGED <<rows, counter, key, kind, carries, reply, todo, cur, made>>

\* The other transaction committed its row first: the insert violates the primary
\* key and this transaction is rolled back.
CounterCollision(w) ==
    /\ pc[w] = "create"
    /\ counter[cur[w]] # 0
    /\ Rollback(w)

\* Mutant: no unique index on the client message id.
InsertMessageNoIndex(w) ==
    /\ pc[w] = "insert"
    /\ cur' = [cur EXCEPT ![w] = NoConv]
    /\ pc' = [pc EXCEPT ![w] = IF todo[w] = {} THEN "commit" ELSE "read"]
    /\ UNCHANGED <<rows, counter, lock, key, kind, carries, reply, todo, seq, made>>

\* Mutant: a fan-out that commits inside its loop and then fails.
InsertMessageCommitsEach(w) ==
    /\ pc[w] = "insert"
    /\ ~HasKey(cur[w], key[w])
    /\ cur' = [cur EXCEPT ![w] = NoConv]
    /\ pc' = [pc EXCEPT ![w] = "commit"]
    /\ UNCHANGED <<rows, counter, lock, key, kind, carries, reply, todo, seq, made>>

\* INSERT of the message: the indexes message_idempotency and
\* personal_message_idempotency admit it.
InsertMessage(w) ==
    /\ pc[w] = "insert"
    /\ ~HasKey(cur[w], key[w])
    /\ cur' = [cur EXCEPT ![w] = NoConv]
    /\ pc' = [pc EXCEPT ![w] = IF todo[w] = {} THEN "commit" ELSE "read"]
    /\ UNCHANGED <<rows, counter, lock, key, kind, carries, reply, todo, seq, made>>

\* A concurrent retry of the same key committed between this request's read and
\* its lock: IntegrityError.
InsertRejected(w) ==
    /\ pc[w] = "insert"
    /\ HasKey(cur[w], key[w])
    /\ Rollback(w)

NewRows(w) ==
    {[conv |-> c, seq |-> seq[w][c], key |-> key[w], kind |-> kind[w],
      reply |-> reply[w], carries |-> carries[w]] : c \in Allocated(w)}

\* COMMIT of messages, counters and message.created.v1 events.  The answer may be
\* lost on its way: the client then repeats the request.
Commit(w) ==
    /\ pc[w] = "commit"
    /\ rows' = rows \union NewRows(w)
    /\ counter' = [c \in Conversations |->
                     IF seq[w][c] # 0 THEN seq[w][c] + 1 ELSE counter[c]]
    /\ EndTransaction(w)
    /\ UNCHANGED made

\* The deadlock detector of the database, for fan-outs that hold counters of each
\* other's recipients: w is on a cycle of the wait-for relation.
WaitsFor(v, w) ==
    /\ \/ pc[v] = "lock" /\ counter[cur[v]] # 0
       \/ pc[v] = "create" /\ counter[cur[v]] = 0
    /\ lock[cur[v]] = w

\* Mutant: waiting without a detector.
DeadlockAbortNever(w) == pc[w] = "waiting" /\ Rollback(w)

DeadlockAbort(w) ==
    /\ \E S \in SUBSET Workers :
          /\ w \in S
          /\ \A v \in S : (\E u \in S : WaitsFor(v, u)) /\ (\E u \in S : WaitsFor(u, v))
    /\ Rollback(w)

-----------------------------------------------------------------------------

Begin(w) ==
    \/ \E q \in Requests : BeginSend(w, q)
    \/ \E b \in Broadcasts : BeginBroadcast(w, b)

Read(w) ==
    \E c \in Conversations : ReturnExisting(w, c) \/ ReadNew(w, c) \/ RefuseContent(w, c)

Allocate(w) == LockCounter(w) \/ NoCounter(w) \/ CreateCounter(w) \/ CounterCollision(w)

Insert(w) == InsertMessage(w) \/ InsertRejected(w)

\* What a handler does next when nothing goes wrong outside it.
Step(w) == Read(w) \/ Allocate(w) \/ Insert(w) \/ Commit(w) \/ DeadlockAbort(w)

Next == \E w \in Workers : Begin(w) \/ Step(w) \/ Fail(w)

Spec == Init /\ [][Next]_vars

\* A request that can go on goes on; PostgreSQL queues the waiters of a row, so one
\* whose turn keeps coming gets it.
Fairness ==
    \A w \in Workers :
        /\ WF_vars(Step(w))
        /\ SF_vars(LockCounter(w))
        /\ SF_vars(CreateCounter(w))

FairSpec == Spec /\ Fairness

-----------------------------------------------------------------------------
(* Properties.                                                             *)

TypeOK ==
    /\ rows \subseteq Row
    /\ counter \in [Conversations -> Nat]
    /\ lock \in [Conversations -> Workers \union {NoWorker}]
    /\ pc \in [Workers -> PCs]
    /\ key \in [Workers -> Keys \union {NoKey}]
    /\ kind \in [Workers -> Kinds]
    /\ carries \in [Workers -> Contents]
    /\ reply \in [Workers -> MessageId \union {NoReply}]
    /\ todo \in [Workers -> SUBSET Conversations]
    /\ cur \in [Workers -> Conversations \union {NoConv}]
    /\ seq \in [Workers -> [Conversations -> Nat]]
    /\ made \subseteq Broadcasts

\* The history of a conversation has no hole and no two messages in one place: its
\* sequences are 1 .. next_sequence - 1, whatever transactions interleaved, failed
\* or raced to create the counter.  A client that pages with after_sequence
\* therefore never skips a message that is committed later.
SequencesDense ==
    /\ \A r \in rows : 1 <= r.seq /\ r.seq < counter[r.conv]
    /\ \A c \in Conversations : \A n \in 1 .. counter[c] :
          n < counter[c] => \E r \in rows : r.conv = c /\ r.seq = n
    /\ \A r, s \in rows : r.conv = s.conv /\ r.seq = s.seq => r = s

\* A client that repeats a request, even while the first is running, has at most one
\* message for its client_message_id.
OneMessagePerKey ==
    \A r, s \in rows : r.conv = s.conv /\ r.key = s.key => r = s

\* A broadcast that fails on one recipient, for a block, a refused conversation or a
\* deadlock, has sent to none of them.
BroadcastAllOrNothing ==
    \A b \in Broadcasts :
        {c \in Conversations : HasKey(c, b)} \in {{}, Recipients[b]}

\* A reply that send validates quotes an earlier message of its own conversation.
RepliesPointBack ==
    \A r \in rows : r.kind \in {"TEXT", "MEDIA"} /\ r.reply # NoReply =>
        \E s \in rows : IdOf(s) = r.reply /\ s.conv = r.conv /\ s.seq < r.seq

Log == INSTANCE MessageLog WITH
    history <- {EntryOf(r) : r \in rows},
    length <- [c \in Conversations |-> IF counter[c] = 0 THEN 0 ELSE counter[c] - 1]

\* The send path with its locks, indexes, failures and retries implements the
\* append-only, once-per-key history of MessageLog.
ImplementsLog == Log!Spec

\* No request waits for ever, on another or in a cycle of fan-outs.
EveryRequestEnds == \A w \in Workers : pc[w] # "idle" ~> pc[w] = "idle"
=============================================================================
