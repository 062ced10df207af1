-------------------------- MODULE MessageLifecycle --------------------------
(***************************************************************************)
(* What becomes of the messages of one conversation after they are sent:   *)
(* messaging-service edits and deletes them and keeps how far each member  *)
(* has read; conversation-service projects the events, which reach it in   *)
(* any order, to the preview and the unread count of its chat list.        *)
(*                                                                         *)
(* A version of a message is a time stamp: the clock of the database at    *)
(* its creation, that of the instance of the service which handles the     *)
(* request at an edit or deletion.  Each change takes a tick of real time, *)
(* and no two of a row are stamped in one.  Sequences are dense and events *)
(* are projected once: that is Messaging and EventRelay.  Reactions have   *)
(* no part in a summary.                                                   *)
(***************************************************************************)
EXTENDS Naturals, FiniteSets

CONSTANTS
    Length,         \* messages are 1 .. Length, by sequence
    Kind,           \* of a message: "TEXT", "E2EE" or "MEDIA"
    Sender,         \* of a message
    Members,
    Instances,      \* of messaging-service
    Ahead,          \* by how much the clock of an instance is ahead of real time
    DbAhead,        \* and that of the database
    Texts,
    Label,          \* of a media message without text: "Image", "Video", ...
    NoText,
    MaxTime,        \* bounds changes of messages
    MaxMark,        \* bounds the sequences members mark, which the code does not
    Workers,        \* requests that mark for the first time
    NoRow, Idle

Messages == 1 .. Length
Contents == Texts \union {NoText}

Message == [text : Contents, created : Nat, edited : Nat, deleted : Nat]
Cursor == [delivered : Nat, read : Nat]
Preview == [text : Contents \union {Label}, version : Nat, deleted : BOOLEAN]

ASSUME LifecycleAssumption ==
    /\ Length \in Nat /\ MaxTime \in Nat /\ MaxMark \in Nat
    /\ Kind \in [Messages -> {"TEXT", "E2EE", "MEDIA"}]
    /\ Sender \in [Messages -> Members]
    /\ Ahead \in [Instances -> Nat] /\ DbAhead \in Nat
    /\ NoText \notin Texts \union {Label}
    /\ NoRow \notin Message \union Cursor \union Preview

VARIABLES
    now,            \* ticks of real time
    message,        \* messages: text and time stamps, 0 where there is none
    cursor,         \* conversation_read_states of a member
    first,          \* the request of a worker that has found no row of its member
    staged,         \* events the backfill has read and not committed
    outbox,         \* events that are not projected yet
    preview,        \* conversation_message_projections
    watermark       \* conversation_read_projections, 0 where no row is

vars == <<now, message, cursor, first, staged, outbox, preview, watermark>>

MessageEvent ==
    [kind : {"created", "edited", "deleted"}, message : Messages, text : Contents,
     version : Nat]
ReadEvent == [kind : {"read"}, member : Members, sequence : Nat]

Exists(s) == message[s] # NoRow
Larger(x, y) == IF x < y THEN y ELSE x

Init ==
    /\ now = 1
    /\ message = [s \in Messages |-> NoRow]
    /\ cursor = [p \in Members |-> NoRow]
    /\ first = [w \in Workers |-> Idle]
    /\ staged = {}
    /\ outbox = {}
    /\ preview = [s \in Messages |-> NoRow]
    /\ watermark = [p \in Members |-> 0]

-----------------------------------------------------------------------------
(* Messages.                                                               *)

Version(row) ==
    IF row.deleted # 0 THEN row.deleted
    ELSE IF row.edited # 0 THEN row.edited ELSE row.created

\* event().
Event(kind, s, row) ==
    [kind |-> kind, message |-> s, text |-> row.text, version |-> Version(row)]

\* A row of messages is written and its event with it.
Write(kind, s, row) ==
    /\ now < MaxTime
    /\ now' = now + 1
    /\ message' = [message EXCEPT ![s] = row]
    /\ outbox' = outbox \union {Event(kind, s, row)}
    /\ UNCHANGED <<cursor, first, staged, preview, watermark>>

\* A media message may have a text, the text of an encrypted one is in its envelope.
Body(s) ==
    CASE Kind[s] = "TEXT" -> Texts
      [] Kind[s] = "E2EE" -> {NoText}
      [] Kind[s] = "MEDIA" -> Contents

Send(s, text) ==
    /\ ~Exists(s) /\ \A r \in 1 .. s - 1 : Exists(r)
    /\ text \in Body(s)
    /\ Write("created", s,
             [text |-> text, created |-> now + DbAhead, edited |-> 0, deleted |-> 0])

\* PATCH by the sender, on the locked row.
Edit(i, s, text) ==
    /\ Exists(s) /\ message[s].deleted = 0
    /\ Kind[s] \in {"TEXT", "E2EE"} /\ text \in Body(s)
    /\ Write("edited", s,
             [text |-> text, created |-> message[s].created, edited |-> now + Ahead[i],
              deleted |-> 0])

\* DELETE by the sender, which may be repeated.
Delete(i, s) ==
    /\ Exists(s)
    /\ Write("deleted", s,
             [text |-> NoText, created |-> message[s].created, edited |-> message[s].edited,
              deleted |-> now + Ahead[i]])

-----------------------------------------------------------------------------
(* mark(): the row of the member is locked, unless there is none yet.      *)

MarkDelivered(p, q) ==
    /\ cursor[p] # NoRow
    /\ cursor' = [cursor EXCEPT ![p].delivered = Larger(@, q)]
    /\ UNCHANGED <<now, message, first, staged, outbox, preview, watermark>>

\* The event carries the sequence of the request, whatever has been read before.
MarkRead(p, q) ==
    /\ cursor[p] # NoRow
    /\ q <= cursor[p].delivered
    /\ cursor' = [cursor EXCEPT ![p].read = Larger(@, q)]
    /\ outbox' = outbox \union {[kind |-> "read", member |-> p, sequence |-> q]}
    /\ UNCHANGED <<now, message, first, staged, preview, watermark>>

\* The first mark of a member can be a delivery only: nothing is delivered yet.
BeginFirst(w, p, q) ==
    /\ first[w] = Idle
    /\ cursor[p] = NoRow
    /\ first' = [first EXCEPT ![w] = [member |-> p, sequence |-> q]]
    /\ UNCHANGED <<now, message, cursor, staged, outbox, preview, watermark>>

\* Mutant: no unique index, the row found last is as good as any.
EndFirstTwice(w) ==
    /\ first[w] # Idle
    /\ cursor' = [cursor EXCEPT ![first[w].member] =
                    [delivered |-> first[w].sequence, read |-> 0]]
    /\ first' = [first EXCEPT ![w] = Idle]
    /\ UNCHANGED <<now, message, staged, outbox, preview, watermark>>

\* The row is inserted, or another request was first and this one fails.
EndFirst(w) ==
    /\ first[w] # Idle
    /\ cursor' = IF cursor[first[w].member] = NoRow
                 THEN [cursor EXCEPT ![first[w].member] =
                        [delivered |-> first[w].sequence, read |-> 0]]
                 ELSE cursor
    /\ first' = [first EXCEPT ![w] = Idle]
    /\ UNCHANGED <<now, message, staged, outbox, preview, watermark>>

-----------------------------------------------------------------------------
(* The backfill reads a batch of rows without a lock and commits their     *)
(* events later.  It may be started again at any time.                     *)

Snapshot(s) ==
    Event(IF message[s].deleted # 0 THEN "deleted"
          ELSE IF message[s].edited # 0 THEN "edited" ELSE "created", s, message[s])

StageMessages(S) ==
    /\ staged = {}
    /\ \A s \in S : Exists(s)
    /\ staged' = {Snapshot(s) : s \in S}
    /\ UNCHANGED <<now, message, cursor, first, outbox, preview, watermark>>

StageReads(P) ==
    /\ staged = {}
    /\ \A p \in P : cursor[p] # NoRow
    /\ staged' = {[kind |-> "read", member |-> p, sequence |-> cursor[p].read] : p \in P}
    /\ UNCHANGED <<now, message, cursor, first, outbox, preview, watermark>>

CommitStaged ==
    /\ staged # {}
    /\ outbox' = outbox \union staged
    /\ staged' = {}
    /\ UNCHANGED <<now, message, cursor, first, preview, watermark>>

-----------------------------------------------------------------------------
(* project_message().                                                      *)

\* Mutant: a tombstone is like any version.
StaleByVersion(e) ==
    preview[e.message] # NoRow /\ e.version < preview[e.message].version

\* Mutant: events are applied in the order they come in.
StaleIfDeleted(e) ==
    preview[e.message] # NoRow /\ preview[e.message].deleted

Stale(e) ==
    /\ preview[e.message] # NoRow
    /\ preview[e.message].deleted \/ e.version < preview[e.message].version

Project(e) ==
    /\ ~Stale(e)
    /\ preview' = [preview EXCEPT ![e.message] =
                    [text |-> IF e.text = NoText /\ Kind[e.message] = "MEDIA"
                              THEN Label ELSE e.text,
                     version |-> e.version,
                     deleted |-> e.kind = "deleted"]]
    /\ outbox' = outbox \ {e}
    /\ UNCHANGED <<now, message, cursor, first, staged, watermark>>

Ignore(e) ==
    /\ Stale(e)
    /\ outbox' = outbox \ {e}
    /\ UNCHANGED <<now, message, cursor, first, staged, preview, watermark>>

ProjectRead(e) ==
    /\ watermark' = [watermark EXCEPT ![e.member] = Larger(@, e.sequence)]
    /\ outbox' = outbox \ {e}
    /\ UNCHANGED <<now, message, cursor, first, staged, preview>>

-----------------------------------------------------------------------------

Change(s) ==
    \/ \E text \in Contents :
          Send(s, text) \/ \E i \in Instances : Edit(i, s, text)
    \/ \E i \in Instances : Delete(i, s)

Mark(p) ==
    \E q \in 1 .. MaxMark :
        \/ MarkDelivered(p, q)
        \/ MarkRead(p, q)
        \/ \E w \in Workers : BeginFirst(w, p, q)

Stage ==
    \/ \E S \in SUBSET Messages \ {{}} : StageMessages(S)
    \/ \E P \in SUBSET Members \ {{}} : StageReads(P)
    \/ CommitStaged

Consume ==
    \E e \in outbox :
        IF e.kind = "read" THEN ProjectRead(e) ELSE Project(e) \/ Ignore(e)

Next ==
    \/ \E s \in Messages : Change(s)
    \/ \E p \in Members : Mark(p)
    \/ \E w \in Workers : EndFirst(w)
    \/ Stage
    \/ Consume

Spec == Init /\ [][Next]_vars

-----------------------------------------------------------------------------
(* The chat list, as summaries() computes it of the projections, and as it *)
(* would be of the tables of messaging-service.                            *)

Shown == {s \in Messages : preview[s] # NoRow /\ ~preview[s].deleted}

Summary(p) ==
    [latest |-> {preview[s].text : s \in {t \in Shown : \A r \in Shown : r <= t}},
     unread |-> Cardinality({s \in Shown : Sender[s] # p /\ s > watermark[p]})]

Live == {s \in Messages : Exists(s) /\ message[s].deleted = 0}

ReadUpTo(p) == IF cursor[p] = NoRow THEN 0 ELSE cursor[p].read

Content(s) ==
    IF message[s].text = NoText /\ Kind[s] = "MEDIA" THEN Label ELSE message[s].text

Truth(p) ==
    [latest |-> {Content(s) : s \in {t \in Live : \A r \in Live : r <= t}},
     unread |-> Cardinality({s \in Live : Sender[s] # p /\ s > ReadUpTo(p)})]

-----------------------------------------------------------------------------
(* Properties.                                                             *)

TypeOK ==
    /\ now \in Nat \ {0}
    /\ message \in [Messages -> Message \union {NoRow}]
    /\ cursor \in [Members -> Cursor \union {NoRow}]
    /\ first \in [Workers -> [member : Members, sequence : Nat] \union {Idle}]
    /\ staged \subseteq MessageEvent \union ReadEvent
    /\ outbox \subseteq MessageEvent \union ReadEvent
    /\ preview \in [Messages -> Preview \union {NoRow}]
    /\ watermark \in [Members -> Nat]

\* Release notes, 7079fc4003ca: "projection identity, timestamps, tombstones and
\* monotonic read watermarks converge": once all events are projected every chat list
\* shows what the messages and read states say, in whatever order edits, deletions and
\* old snapshots came in.
Converged ==
    outbox = {} => \A p \in Members : Summary(p) = Truth(p)

\* chat_projection.py:57: "Tombstones are permanent; late create/edit events cannot
\* revive a deleted message", whatever the clocks say.
TombstonesStay ==
    [][\A s \in Messages : preview[s] # NoRow /\ preview[s].deleted =>
            preview'[s] = preview[s]]_vars

\* How far a member has received and read only grows, although two devices may mark
\* for the first time at once.
CursorsGrow ==
    [][\A p \in Members : cursor[p] # NoRow =>
            /\ cursor'[p] # NoRow
            /\ cursor'[p].delivered >= cursor[p].delivered
            /\ cursor'[p].read >= cursor[p].read]_vars

\* conversation-service never takes for read what messaging-service does not.
WatermarkTrails ==
    \A p \in Members : watermark[p] <= ReadUpTo(p)
=============================================================================
