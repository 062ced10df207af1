----------------------- MODULE MessageLifecycleProofs -----------------------
(***************************************************************************)
(* Proofs about MessageLifecycle, for any number of messages, members,     *)
(* instances and requests.  What is said of read states and tombstones     *)
(* holds with any clocks, that chat lists converge with clocks that agree. *)
(***************************************************************************)
EXTENDS MessageLifecycle, TLAPS

-----------------------------------------------------------------------------
(* What a change of a message writes.                                      *)

KindOf(row) ==
    IF row.deleted # 0 THEN "deleted" ELSE IF row.edited # 0 THEN "edited" ELSE "created"

\* The time of a change, as all clocks that agree tell it.
Stamp == now + DbAhead
Synchronized == \A i \in Instances : Ahead[i] = DbAhead

\* A change writes a row and its event; no deletion is undone; with clocks that agree
\* the version is the time of the change.
Changed(s, row) ==
    /\ Write(KindOf(row), s, row)
    /\ Exists(s) /\ message[s].deleted # 0 => row.deleted # 0
    /\ Synchronized => Version(row) = Stamp

\* The text of a message is a text or none.
LEMMA BodyContents == \A s \in Messages : Body(s) \subseteq Contents
BY LifecycleAssumption DEF Body, Contents

\* Every request that changes a message does so.
LEMMA ChangeWrites ==
    ASSUME TypeOK, NEW s \in Messages, Change(s)
    PROVE  \E row \in Message : Changed(s, row)
<1> USE LifecycleAssumption
<1>0. now \in Nat \ {0} /\ DbAhead \in Nat
  BY DEF TypeOK
<1>1. ASSUME NEW text \in Contents, Send(s, text)
      PROVE  \E row \in Message : Changed(s, row)
  <2> DEFINE row ==
        [text |-> text, created |-> now + DbAhead, edited |-> 0, deleted |-> 0]
  <2>1. row \in Message
    BY <1>0 DEF Message
  <2>2. KindOf(row) = "created" /\ Version(row) = Stamp
    BY DEF KindOf, Version, Stamp
  <2>3. Write("created", s, row) /\ ~Exists(s)
    BY <1>1 DEF Send
  <2> QED
    BY <2>1, <2>2, <2>3 DEF Changed
<1>2. ASSUME NEW i \in Instances, NEW text \in Contents, Edit(i, s, text)
      PROVE  \E row \in Message : Changed(s, row)
  <2> DEFINE row == [text |-> text, created |-> message[s].created,
                     edited |-> now + Ahead[i], deleted |-> 0]
  <2>1. message[s] \in Message /\ message[s].deleted = 0 /\ Ahead[i] \in Nat
    BY <1>2 DEF Edit, Exists, TypeOK
  <2>2. /\ row \in Message
        /\ row.deleted = 0 /\ row.edited = now + Ahead[i] /\ row.edited # 0
    <3>1. now + Ahead[i] \in Nat /\ now + Ahead[i] # 0
      BY <1>0, <2>1
    <3>2. message[s].created \in Nat /\ message[s].deleted \in Nat
      BY <2>1 DEF Message
    <3> QED
      BY <3>1, <3>2, <2>1 DEF Message
  <2>3. KindOf(row) = "edited" /\ (Synchronized => Version(row) = Stamp)
    BY <2>2 DEF KindOf, Version, Stamp, Synchronized
  <2>4. Write("edited", s, row)
    BY <1>2 DEF Edit
  <2> QED
    BY <2>1, <2>2, <2>3, <2>4 DEF Changed
<1>3. ASSUME NEW i \in Instances, Delete(i, s)
      PROVE  \E row \in Message : Changed(s, row)
  <2> DEFINE row == [text |-> NoText, created |-> message[s].created,
                     edited |-> message[s].edited, deleted |-> now + Ahead[i]]
  <2>1. message[s] \in Message /\ Ahead[i] \in Nat
    BY <1>3 DEF Delete, Exists, TypeOK
  <2>2. row \in Message /\ row.deleted = now + Ahead[i] /\ row.deleted # 0
    <3>1. now + Ahead[i] \in Nat /\ now + Ahead[i] # 0
      BY <1>0, <2>1
    <3>2. message[s].created \in Nat /\ message[s].edited \in Nat
      BY <2>1 DEF Message
    <3> QED
      BY <3>1, <3>2 DEF Message, Contents
  <2>3. KindOf(row) = "deleted" /\ (Synchronized => Version(row) = Stamp)
    BY <2>2 DEF KindOf, Version, Stamp, Synchronized
  <2>4. Write("deleted", s, row)
    BY <1>3 DEF Delete
  <2> QED
    BY <2>2, <2>3, <2>4 DEF Changed
<1> QED
  BY <1>1, <1>2, <1>3 DEF Change

\* The event of a row is a message event.
LEMMA EventTypes ==
    ASSUME NEW s \in Messages, NEW row \in Message
    PROVE  /\ Version(row) \in Nat
           /\ Event(KindOf(row), s, row) \in MessageEvent
           /\ Event(KindOf(row), s, row)
                = [kind |-> KindOf(row), message |-> s, text |-> row.text,
                   version |-> Version(row)]
BY DEF Version, Event, KindOf, Message, MessageEvent

\* A snapshot is the event of the row as it is.
LEMMA Snapshots == \A s : Snapshot(s) = Event(KindOf(message[s]), s, message[s])
BY DEF Snapshot, KindOf

\* Message events and read events are told apart by their kind.
LEMMA EventKinds ==
    /\ \A e \in MessageEvent : e.kind # "read" /\ e.message \in Messages
                               /\ e.version \in Nat /\ e.text \in Contents
    /\ \A e \in ReadEvent : e.kind = "read" /\ e.member \in Members /\ e.sequence \in Nat
    /\ \A p \in Members, q \in Nat :
          [kind |-> "read", member |-> p, sequence |-> q] \in ReadEvent
BY DEF MessageEvent, ReadEvent

-----------------------------------------------------------------------------
(* Types.                                                                  *)

\* Every step keeps the types.
LEMMA StepTypes == TypeOK /\ [Next]_vars => TypeOK'
<1> SUFFICES ASSUME TypeOK, [Next]_vars PROVE TypeOK'
  OBVIOUS
<1> USE LifecycleAssumption
<1>1. ASSUME NEW s \in Messages, Change(s) PROVE TypeOK'
  <2>1. PICK row \in Message : Changed(s, row)
    BY <1>1, ChangeWrites
  <2>2. Event(KindOf(row), s, row) \in MessageEvent
    BY EventTypes
  <2> QED
    BY <2>1, <2>2 DEF Changed, Write, TypeOK
<1>2. ASSUME NEW p \in Members, Mark(p) PROVE TypeOK'
  <2> SUFFICES ASSUME NEW q \in 1 .. MaxMark,
                      \/ MarkDelivered(p, q)
                      \/ MarkRead(p, q)
                      \/ \E w \in Workers : BeginFirst(w, p, q)
               PROVE  TypeOK'
    BY <1>2 DEF Mark
  <2>0. q \in Nat
    OBVIOUS
  <2>1. CASE MarkDelivered(p, q)
    <3>1. [cursor[p] EXCEPT !.delivered = Larger(@, q)] \in Cursor
      BY <2>0, <2>1 DEF MarkDelivered, TypeOK, Cursor, Larger
    <3> QED
      BY <2>1, <3>1 DEF MarkDelivered, TypeOK
  <2>2. CASE MarkRead(p, q)
    <3>1. [cursor[p] EXCEPT !.read = Larger(@, q)] \in Cursor
      BY <2>0, <2>2 DEF MarkRead, TypeOK, Cursor, Larger
    <3>2. [kind |-> "read", member |-> p, sequence |-> q] \in ReadEvent
      BY <2>0, EventKinds
    <3> QED
      BY <2>2, <3>1, <3>2 DEF MarkRead, TypeOK
  <2>3. ASSUME NEW w \in Workers, BeginFirst(w, p, q) PROVE TypeOK'
    BY <2>0, <2>3 DEF BeginFirst, TypeOK
  <2> QED
    BY <2>1, <2>2, <2>3
<1>3. ASSUME NEW w \in Workers, EndFirst(w) PROVE TypeOK'
  <2>1. [delivered |-> first[w].sequence, read |-> 0] \in Cursor
    BY <1>3 DEF EndFirst, TypeOK, Cursor
  <2> QED
    BY <1>3, <2>1 DEF EndFirst, TypeOK
<1>4. CASE Stage
  <2>1. ASSUME NEW S \in SUBSET Messages, StageMessages(S) PROVE TypeOK'
    <3>1. \A s \in S : Snapshot(s) \in MessageEvent
      BY <2>1, Snapshots, EventTypes DEF StageMessages, Exists, TypeOK
    <3> QED
      BY <2>1, <3>1 DEF StageMessages, TypeOK
  <2>2. ASSUME NEW P \in SUBSET Members, StageReads(P) PROVE TypeOK'
    <3>1. \A p \in P : [kind |-> "read", member |-> p, sequence |-> cursor[p].read]
                         \in ReadEvent
      BY <2>2, EventKinds DEF StageReads, TypeOK, Cursor
    <3> QED
      BY <2>2, <3>1 DEF StageReads, TypeOK
  <2>3. CASE CommitStaged
    BY <2>3 DEF CommitStaged, TypeOK
  <2> QED
    BY <1>4, <2>1, <2>2, <2>3 DEF Stage
<1>5. CASE Consume
  <2>1. PICK e \in outbox :
            IF e.kind = "read" THEN ProjectRead(e) ELSE Project(e) \/ Ignore(e)
    BY <1>5 DEF Consume
  <2>2. CASE e.kind = "read"
    <3>1. e.member \in Members /\ e.sequence \in Nat /\ ProjectRead(e)
      BY <2>1, <2>2, EventKinds DEF TypeOK
    <3> QED
      BY <3>1 DEF ProjectRead, TypeOK, Larger
  <2>3. CASE e.kind # "read"
    <3>1. e.message \in Messages /\ e.version \in Nat /\ e.text \in Contents
      BY <2>3, EventKinds DEF TypeOK
    <3>2. CASE Project(e)
      BY <3>1, <3>2 DEF Project, TypeOK, Preview
    <3>3. CASE Ignore(e)
      BY <3>3 DEF Ignore, TypeOK
    <3> QED
      BY <2>1, <2>3, <3>2, <3>3
  <2> QED
    BY <2>2, <2>3
<1>6. CASE UNCHANGED vars
  BY <1>6 DEF vars, TypeOK
<1> QED
  BY <1>1, <1>2, <1>3, <1>4, <1>5, <1>6 DEF Next

\* Tables, events and projections stay well-typed, with any clocks.
THEOREM TypeCorrect == Spec => []TypeOK
<1>1. Init => TypeOK
  BY DEF Init, TypeOK
<1> QED
  BY <1>1, StepTypes, PTL DEF Spec

-----------------------------------------------------------------------------
(* Tombstones and cursors, with any clocks.                                *)

\* Steps other than a projection leave the previews alone.
LEMMA PreviewSteps ==
    ASSUME [Next]_vars, preview' # preview
    PROVE  \E e \in outbox : e.kind # "read" /\ Project(e)
<1>1. ASSUME NEW s \in Messages, Change(s) PROVE FALSE
  BY <1>1 DEF Change, Send, Edit, Delete, Write
<1>2. ASSUME NEW p \in Members, Mark(p) PROVE FALSE
  BY <1>2 DEF Mark, MarkDelivered, MarkRead, BeginFirst
<1>3. ASSUME NEW w \in Workers, EndFirst(w) PROVE FALSE
  BY <1>3 DEF EndFirst
<1>4. ~Stage
  BY DEF Stage, StageMessages, StageReads, CommitStaged
<1>5. ASSUME NEW e \in outbox, ProjectRead(e) \/ Ignore(e) PROVE FALSE
  BY <1>5 DEF ProjectRead, Ignore
<1>6. ~UNCHANGED vars
  BY DEF vars
<1> QED
  BY <1>1, <1>2, <1>3, <1>4, <1>5, <1>6 DEF Next, Consume

\* A deleted message stays deleted on the chat list.
THEOREM TombstonesPermanent == Spec => TombstonesStay
<1> DEFINE Stay == \A s \in Messages : preview[s] # NoRow /\ preview[s].deleted =>
                        preview'[s] = preview[s]
<1>1. ASSUME TypeOK, [Next]_vars PROVE Stay
  <2> SUFFICES ASSUME NEW s \in Messages, preview[s] # NoRow, preview[s].deleted,
                      NEW e \in outbox, e.kind # "read", Project(e)
               PROVE  preview'[s] = preview[s]
    BY <1>1, PreviewSteps
  <2>1. e.message # s
    BY DEF Project, Stale
  <2> QED
    BY <1>1, <2>1 DEF Project, TypeOK
<1> QED
  BY <1>1, TypeCorrect, PTL DEF Spec, TombstonesStay

\* Only marks change the read state of a member.
LEMMA CursorSteps ==
    ASSUME [Next]_vars, cursor' # cursor
    PROVE  \/ \E p \in Members, q \in 1 .. MaxMark : MarkDelivered(p, q) \/ MarkRead(p, q)
           \/ \E w \in Workers : EndFirst(w)
<1>1. ASSUME NEW s \in Messages, Change(s) PROVE FALSE
  BY <1>1 DEF Change, Send, Edit, Delete, Write
<1>2. ASSUME NEW p \in Members, NEW w \in Workers, NEW q, BeginFirst(w, p, q) PROVE FALSE
  BY <1>2 DEF BeginFirst
<1>4. ~Stage
  BY DEF Stage, StageMessages, StageReads, CommitStaged
<1>5. ~Consume
  BY DEF Consume, ProjectRead, Project, Ignore
<1>6. ~UNCHANGED vars
  BY DEF vars
<1> QED
  BY <1>1, <1>2, <1>4, <1>5, <1>6 DEF Next, Mark

\* Marks of one step and the race for the first row keep what was received and read.
LEMMA CursorGrows ==
    ASSUME TypeOK, [Next]_vars, NEW p \in Members, cursor[p] # NoRow
    PROVE  /\ cursor'[p] # NoRow
           /\ cursor'[p] \in Cursor
           /\ cursor'[p].delivered >= cursor[p].delivered
           /\ cursor'[p].read >= cursor[p].read
<1>0. cursor[p] \in Cursor
  BY DEF TypeOK
<1>a. PICK d \in Nat, r \in Nat : cursor[p] = [delivered |-> d, read |-> r]
  BY <1>0 DEF Cursor
<1>b. cursor'[p] \in Cursor => cursor'[p] # NoRow
  BY LifecycleAssumption
<1>1. CASE cursor'[p] = cursor[p]
  BY <1>0, <1>1, <1>a DEF Cursor
<1>2. ASSUME NEW q \in Nat, MarkDelivered(p, q) PROVE
         cursor'[p] = [delivered |-> Larger(d, q), read |-> r]
  BY <1>2, <1>a DEF MarkDelivered, TypeOK
<1>3. ASSUME NEW q \in Nat, MarkRead(p, q) PROVE
         cursor'[p] = [delivered |-> d, read |-> Larger(r, q)]
  BY <1>3, <1>a DEF MarkRead, TypeOK
<1>4. ASSUME NEW o \in Members, NEW q, MarkDelivered(o, q) \/ MarkRead(o, q), o # p
      PROVE  cursor'[p] = cursor[p]
  BY <1>4 DEF MarkDelivered, MarkRead, TypeOK
<1>5. ASSUME NEW w \in Workers, EndFirst(w) PROVE cursor'[p] = cursor[p]
  BY <1>5 DEF EndFirst, TypeOK
<1>6. \/ cursor'[p] = cursor[p]
      \/ \E q \in Nat : cursor'[p] = [delivered |-> Larger(d, q), read |-> r]
      \/ \E q \in Nat : cursor'[p] = [delivered |-> d, read |-> Larger(r, q)]
  BY CursorSteps, <1>2, <1>3, <1>4, <1>5
<1>7. ASSUME NEW q \in Nat, cursor'[p] = [delivered |-> Larger(d, q), read |-> r]
      PROVE  cursor'[p] \in Cursor /\ cursor'[p].delivered >= d /\ cursor'[p].read >= r
  BY <1>7 DEF Larger, Cursor
<1>8. ASSUME NEW q \in Nat, cursor'[p] = [delivered |-> d, read |-> Larger(r, q)]
      PROVE  cursor'[p] \in Cursor /\ cursor'[p].delivered >= d /\ cursor'[p].read >= r
  BY <1>8 DEF Larger, Cursor
<1>9. cursor[p].delivered = d /\ cursor[p].read = r
  BY <1>a
<1> QED
  BY <1>b, <1>1, <1>6, <1>7, <1>8, <1>9

\* Read states never go back.
THEOREM CursorsMonotone == Spec => CursorsGrow
<1> DEFINE Grow == \A p \in Members : cursor[p] # NoRow =>
                     /\ cursor'[p] # NoRow
                     /\ cursor'[p].delivered >= cursor[p].delivered
                     /\ cursor'[p].read >= cursor[p].read
<1>1. ASSUME TypeOK, [Next]_vars PROVE Grow
  BY <1>1, CursorGrows
<1> QED
  BY <1>1, TypeCorrect, PTL DEF Spec, CursorsGrow

-----------------------------------------------------------------------------
(* How far members have read, with any clocks.                             *)

ReadOf(p, q) == [kind |-> "read", member |-> p, sequence |-> q]

\* Nothing tells more of a member than he has read, and if the projection does not
\* tell all of it an event in flight does.
ReadInv ==
    /\ \A e \in outbox \union staged : e.kind = "read" => e.sequence <= ReadUpTo(e.member)
    /\ \A p \in Members :
          /\ watermark[p] <= ReadUpTo(p)
          /\ ReadUpTo(p) = watermark[p] \/ ReadOf(p, ReadUpTo(p)) \in outbox

\* What a member has read only grows, from 0 where there is no row.
LEMMA ReadGrows ==
    ASSUME TypeOK, [Next]_vars, NEW p \in Members
    PROVE  ReadUpTo(p) \in Nat /\ ReadUpTo(p)' \in Nat /\ ReadUpTo(p)' >= ReadUpTo(p)
<1>1. ReadUpTo(p) \in Nat /\ ReadUpTo(p)' \in Nat
  <2>1. cursor[p] \in Cursor \union {NoRow} /\ cursor'[p] \in Cursor \union {NoRow}
    BY StepTypes DEF TypeOK
  <2> QED
    BY <2>1 DEF ReadUpTo, Cursor
<1>2. CASE cursor[p] = NoRow
  BY <1>1, <1>2 DEF ReadUpTo
<1>3. CASE cursor[p] # NoRow
  <2>1. cursor'[p] # NoRow /\ cursor'[p].read >= cursor[p].read
    BY <1>3, CursorGrows
  <2>2. ReadUpTo(p) = cursor[p].read /\ ReadUpTo(p)' = cursor'[p].read
    BY <1>3, <2>1 DEF ReadUpTo
  <2> QED
    BY <1>1, <2>1, <2>2
<1> QED
  BY <1>1, <1>2, <1>3

\* A step that changes no read state and tells of none in any other way keeps this.
LEMMA ReadKept ==
    ASSUME TypeOK, ReadInv, [Next]_vars, cursor' = cursor, watermark' = watermark,
           \A e \in (outbox \union staged)' : e.kind = "read" =>
                e \in outbox \union staged \/ e = ReadOf(e.member, ReadUpTo(e.member)),
           \A e \in outbox : e.kind = "read" => e \in outbox'
    PROVE  ReadInv'
<1>1. \A p : ReadUpTo(p)' = ReadUpTo(p)
  BY DEF ReadUpTo
<1>2. \A e \in (outbox \union staged)' : e.kind = "read" => e.member \in Members
  BY StepTypes, EventKinds DEF TypeOK
<1>3. ASSUME NEW e \in (outbox \union staged)', e.kind = "read"
      PROVE  e.sequence <= ReadUpTo(e.member)'
  <2>1. CASE e \in outbox \union staged
    BY <1>1, <1>3, <2>1 DEF ReadInv
  <2>2. CASE e = ReadOf(e.member, ReadUpTo(e.member))
    <3>1. e.sequence = ReadUpTo(e.member)
      BY <2>2 DEF ReadOf
    <3>2. ReadUpTo(e.member) \in Nat
      BY <1>2, <1>3, ReadGrows
    <3> QED
      BY <1>1, <3>1, <3>2
  <2> QED
    BY <1>3, <2>1, <2>2
<1>4. ASSUME NEW p \in Members
      PROVE  /\ watermark'[p] <= ReadUpTo(p)'
             /\ ReadUpTo(p)' = watermark'[p] \/ ReadOf(p, ReadUpTo(p)') \in outbox'
  BY <1>1 DEF ReadInv, ReadOf
<1> QED
  BY <1>3, <1>4 DEF ReadInv

\* Every step does.
LEMMA StepReadInv == TypeOK /\ ReadInv /\ [Next]_vars => ReadInv'
<1> SUFFICES ASSUME TypeOK, ReadInv, [Next]_vars PROVE ReadInv'
  OBVIOUS
<1>1. ASSUME NEW s \in Messages, Change(s) PROVE ReadInv'
  <2>1. PICK row \in Message : Changed(s, row)
    BY <1>1, ChangeWrites
  <2>2. Event(KindOf(row), s, row).kind # "read"
    BY EventTypes, EventKinds
  <2> QED
    BY <2>1, <2>2, ReadKept DEF Changed, Write
<1>2. ASSUME NEW p \in Members, NEW q \in 1 .. MaxMark, MarkDelivered(p, q) PROVE ReadInv'
  <2>0. q \in Nat
    OBVIOUS
  <2>1. ASSUME NEW o \in Members PROVE ReadUpTo(o)' = ReadUpTo(o)
    <3>1. CASE o # p
      BY <1>2, <3>1 DEF MarkDelivered, ReadUpTo, TypeOK
    <3>2. CASE o = p
      <4>1. /\ cursor[p] \in Cursor /\ cursor[p] # NoRow
            /\ cursor'[p] = [cursor[p] EXCEPT !.delivered = Larger(@, q)]
        BY <1>2 DEF MarkDelivered, TypeOK
      <4>2. cursor'[p] \in Cursor /\ cursor'[p].read = cursor[p].read
        BY <2>0, <4>1 DEF Cursor, Larger
      <4> QED
        BY <3>2, <4>1, <4>2, LifecycleAssumption DEF ReadUpTo
    <3> QED
      BY <3>1, <3>2
  <2>2. \A e \in outbox \union staged : e.kind = "read" => e.member \in Members
    BY EventKinds DEF TypeOK
  <2> QED
    BY <1>2, <2>1, <2>2 DEF MarkDelivered, ReadInv
<1>3. ASSUME NEW p \in Members, NEW q \in 1 .. MaxMark, MarkRead(p, q) PROVE ReadInv'
  <2>0. q \in Nat
    OBVIOUS
  <2>1. /\ outbox' = outbox \union {ReadOf(p, q)}
        /\ staged' = staged /\ watermark' = watermark
    BY <1>3 DEF MarkRead, ReadOf
  <2>2. \A o \in Members : o # p => ReadUpTo(o)' = ReadUpTo(o)
    BY <1>3 DEF MarkRead, ReadUpTo, TypeOK
  <2>3. ReadUpTo(p)' = Larger(ReadUpTo(p), q)
    <3>1. cursor[p] \in Cursor /\ cursor'[p] = [cursor[p] EXCEPT !.read = Larger(@, q)]
      BY <1>3 DEF MarkRead, TypeOK
    <3>2. cursor'[p] \in Cursor /\ cursor'[p].read = Larger(cursor[p].read, q)
      BY <2>0, <3>1 DEF Cursor, Larger
    <3> QED
      BY <3>1, <3>2, LifecycleAssumption DEF ReadUpTo
  <2>4. ReadUpTo(p) \in Nat /\ ReadUpTo(p)' >= q /\ ReadUpTo(p)' >= ReadUpTo(p)
        /\ ReadUpTo(p)' \in {ReadUpTo(p), q}
    BY <2>0, <2>3, ReadGrows DEF Larger
  <2>5. ASSUME NEW e \in (outbox \union staged)', e.kind = "read"
        PROVE  e.sequence <= ReadUpTo(e.member)'
    <3>1. CASE e = ReadOf(p, q)
      BY <2>4, <3>1 DEF ReadOf
    <3>2. CASE e \in outbox \union staged
      <4>1. e.member \in Members /\ e.sequence \in Nat /\ e.sequence <= ReadUpTo(e.member)
        BY <2>5, <3>2, EventKinds DEF TypeOK, ReadInv
      <4>2. ReadUpTo(e.member) \in Nat /\ ReadUpTo(e.member)' \in Nat
            /\ ReadUpTo(e.member)' >= ReadUpTo(e.member)
        BY <4>1, ReadGrows
      <4> QED
        BY <4>1, <4>2
    <3> QED
      BY <2>1, <3>1, <3>2
  <2>6. ASSUME NEW o \in Members
        PROVE  /\ watermark'[o] <= ReadUpTo(o)'
               /\ ReadUpTo(o)' = watermark'[o] \/ ReadOf(o, ReadUpTo(o)') \in outbox'
    <3>1. CASE o # p
      BY <2>1, <2>2, <3>1 DEF ReadInv
    <3>2. CASE o = p
      <4>1. watermark[p] \in Nat /\ watermark[p] <= ReadUpTo(p) /\ ReadUpTo(p)' \in Nat
        BY ReadGrows DEF TypeOK, ReadInv
      <4>2. watermark'[p] <= ReadUpTo(p)'
        BY <2>1, <2>4, <4>1
      <4>3. CASE ReadUpTo(p)' = q
        BY <2>1, <3>2, <4>2, <4>3
      <4>4. CASE ReadUpTo(p)' = ReadUpTo(p)
        BY <2>1, <3>2, <4>2, <4>4 DEF ReadInv
      <4> QED
        BY <2>4, <4>3, <4>4
    <3> QED
      BY <3>1, <3>2
  <2> QED
    BY <2>5, <2>6 DEF ReadInv
<1>4. ASSUME NEW p \in Members, NEW q, NEW w \in Workers, BeginFirst(w, p, q) PROVE ReadInv'
  BY <1>4, ReadKept DEF BeginFirst
<1>5. ASSUME NEW w \in Workers, EndFirst(w) PROVE ReadInv'
  <2>1. \A o \in Members : ReadUpTo(o)' = ReadUpTo(o)
    BY <1>5 DEF EndFirst, ReadUpTo, TypeOK
  <2>2. \A e \in outbox \union staged : e.kind = "read" => e.member \in Members
    BY EventKinds DEF TypeOK
  <2> QED
    BY <1>5, <2>1, <2>2 DEF EndFirst, ReadInv
<1>6. CASE Stage
  <2>1. ASSUME NEW S \in SUBSET Messages, StageMessages(S) PROVE ReadInv'
    <3>1. \A s \in S : Snapshot(s).kind # "read"
      BY <2>1, Snapshots, EventTypes, EventKinds DEF StageMessages, Exists, TypeOK
    <3> QED
      BY <2>1, <3>1, ReadKept DEF StageMessages
  <2>2. ASSUME NEW P \in SUBSET Members, StageReads(P) PROVE ReadInv'
    <3>1. \A e \in staged' : e = ReadOf(e.member, ReadUpTo(e.member))
      BY <2>2 DEF StageReads, ReadOf, ReadUpTo
    <3> QED
      BY <2>2, <3>1, ReadKept DEF StageReads
  <2>3. CASE CommitStaged
    BY <2>3, ReadKept DEF CommitStaged
  <2> QED
    BY <1>6, <2>1, <2>2, <2>3 DEF Stage
<1>7. CASE Consume
  <2>1. PICK e \in outbox :
            IF e.kind = "read" THEN ProjectRead(e) ELSE Project(e) \/ Ignore(e)
    BY <1>7 DEF Consume
  <2>2. CASE e.kind # "read"
    BY <2>1, <2>2, ReadKept DEF Project, Ignore
  <2>3. CASE e.kind = "read"
    <3> DEFINE p == e.member
    <3>1. /\ p \in Members /\ e.sequence \in Nat
          /\ e.sequence <= ReadUpTo(p)
          /\ e = ReadOf(p, e.sequence)
      BY <2>1, <2>3, EventKinds DEF TypeOK, ReadInv, ReadOf, ReadEvent, MessageEvent
    <3>2. /\ watermark' = [watermark EXCEPT ![p] = Larger(@, e.sequence)]
          /\ outbox' = outbox \ {e}
          /\ UNCHANGED <<cursor, staged>>
      BY <2>1, <2>3 DEF ProjectRead
    <3>3. \A o : ReadUpTo(o)' = ReadUpTo(o)
      BY <3>2 DEF ReadUpTo
    <3>4. ASSUME NEW o \in Members
          PROVE  /\ watermark'[o] <= ReadUpTo(o)
                 /\ ReadUpTo(o) = watermark'[o] \/ ReadOf(o, ReadUpTo(o)) \in outbox'
      <4>0. /\ watermark[o] \in Nat /\ ReadUpTo(o) \in Nat /\ watermark[o] <= ReadUpTo(o)
            /\ ReadUpTo(o) = watermark[o] \/ ReadOf(o, ReadUpTo(o)) \in outbox
        BY ReadGrows DEF TypeOK, ReadInv
      <4>1. CASE o # p
        <5>1. watermark'[o] = watermark[o]
          BY <3>2, <4>1 DEF TypeOK
        <5>2. ReadOf(o, ReadUpTo(o)) # e
          BY <4>1 DEF ReadOf
        <5> QED
          BY <3>2, <4>0, <5>1, <5>2
      <4>2. CASE o = p
        <5>1. watermark'[o] = Larger(watermark[o], e.sequence)
          BY <3>1, <3>2, <4>2 DEF TypeOK
        <5>2. CASE e.sequence = ReadUpTo(o)
          BY <3>1, <4>0, <5>1, <5>2 DEF Larger
        <5>3. CASE e.sequence # ReadUpTo(o)
          <6>1. ReadOf(o, ReadUpTo(o)) # e
            BY <5>3 DEF ReadOf
          <6> QED
            BY <3>1, <3>2, <4>0, <4>2, <5>1, <5>3, <6>1 DEF Larger
        <5> QED
          BY <5>2, <5>3
      <4> QED
        BY <4>1, <4>2
    <3> QED
      BY <3>2, <3>3, <3>4 DEF ReadInv
  <2> QED
    BY <2>2, <2>3
<1>8. CASE UNCHANGED vars
  BY <1>8, ReadKept DEF vars
<1> QED
  BY <1>1, <1>2, <1>3, <1>4, <1>5, <1>6, <1>7, <1>8 DEF Next, Mark

\* Read states and what the events and the chat list tell of them agree.
THEOREM ReadsTold == Spec => []ReadInv
<1>1. Init => ReadInv
  BY DEF Init, ReadInv, ReadUpTo
<1> QED
  BY <1>1, StepReadInv, TypeCorrect, PTL DEF Spec

\* No chat list counts as read what its member has not read.
THEOREM ReadsTrail == Spec => []WatermarkTrails
<1>1. ReadInv => WatermarkTrails
  BY DEF ReadInv, WatermarkTrails
<1> QED
  BY <1>1, ReadsTold, PTL

-----------------------------------------------------------------------------
(* Convergence, with clocks that agree.                                    *)

\* An event is no newer than the row, and one of its age says what the row says.
Faithful(e) ==
    LET row == message[e.message]
    IN  /\ Exists(e.message)
        /\ e.version <= Version(row)
        /\ e.version = Version(row) => e = Snapshot(e.message)
        /\ e.kind = "deleted" => row.deleted # 0

\* So is a preview.
PreviewFaithful(s) ==
    LET row == message[s]
    IN  /\ Exists(s)
        /\ preview[s].version <= Version(row)
        /\ preview[s].version = Version(row) =>
                preview[s].text = Content(s) /\ preview[s].deleted = (row.deleted # 0)
        /\ preview[s].deleted => row.deleted # 0

\* The newest event of a message is in flight, or the preview needs it no more.
NewestTold(s) ==
    \/ Snapshot(s) \in outbox
    \/ /\ preview[s] # NoRow
       /\ preview[s].deleted \/ preview[s].version = Version(message[s])

MessageInv ==
    /\ \A s \in Messages : Exists(s) => Version(message[s]) < Stamp
    /\ \A e \in outbox \union staged : e.kind # "read" => Faithful(e)
    /\ \A s \in Messages : preview[s] # NoRow => PreviewFaithful(s)
    /\ \A s \in Messages : Exists(s) => NewestTold(s)

\* A step that changes no message or preview, and adds only snapshots, keeps this.
LEMMA MessageKept ==
    ASSUME TypeOK, MessageInv, UNCHANGED <<now, message, preview>>,
           \A e \in (outbox \union staged)' : e.kind # "read" =>
                \/ e \in outbox \union staged
                \/ e.message \in Messages /\ Exists(e.message) /\ e = Snapshot(e.message),
           \A e \in outbox : e.kind # "read" => e \in outbox'
    PROVE  MessageInv'
<1>1. /\ \A s : Exists(s)' = Exists(s)
      /\ \A s : Snapshot(s)' = Snapshot(s)
      /\ Stamp' = Stamp
      /\ \A s : Content(s)' = Content(s)
  BY DEF Exists, Snapshot, Event, Version, Stamp, Content
<1>2. ASSUME NEW s \in Messages, Exists(s)
      PROVE  /\ Snapshot(s).kind # "read" /\ Snapshot(s).message = s
             /\ Snapshot(s).version = Version(message[s]) /\ Version(message[s]) \in Nat
             /\ Snapshot(s).kind = "deleted" => message[s].deleted # 0
  <2>1. message[s] \in Message
    BY <1>2 DEF Exists, TypeOK
  <2>2. /\ Version(message[s]) \in Nat
        /\ Snapshot(s) = [kind |-> KindOf(message[s]), message |-> s,
                          text |-> message[s].text, version |-> Version(message[s])]
    BY <2>1, Snapshots, EventTypes
  <2> QED
    BY <2>2 DEF KindOf
<1>3. ASSUME NEW e \in (outbox \union staged)', e.kind # "read" PROVE Faithful(e)'
  <2>1. Faithful(e)
    <3>1. CASE e \in outbox \union staged
      BY <1>3, <3>1 DEF MessageInv
    <3>2. CASE e.message \in Messages /\ Exists(e.message) /\ e = Snapshot(e.message)
      BY <1>2, <3>2 DEF Faithful
    <3> QED
      BY <1>3, <3>1, <3>2
  <2> QED
    BY <1>1, <2>1 DEF Faithful
<1>4. ASSUME NEW s \in Messages, preview'[s] # NoRow PROVE PreviewFaithful(s)'
  BY <1>1, <1>4 DEF MessageInv, PreviewFaithful
<1>5. ASSUME NEW s \in Messages, Exists(s) PROVE NewestTold(s)'
  BY <1>1, <1>2, <1>5 DEF MessageInv, NewestTold
<1>6. \A s \in Messages : Exists(s)' => Version(message'[s]) < Stamp'
  BY <1>1 DEF MessageInv
<1> QED
  BY <1>1, <1>3, <1>4, <1>5, <1>6 DEF MessageInv

\* A change makes all that was told of the message old.
LEMMA ChangeKeeps ==
    ASSUME Synchronized, TypeOK, MessageInv, NEW s \in Messages, Change(s)
    PROVE  MessageInv'
<1>1. PICK row \in Message : Changed(s, row)
  BY ChangeWrites
<1>2. /\ now' = now + 1 /\ message' = [message EXCEPT ![s] = row]
      /\ outbox' = outbox \union {Event(KindOf(row), s, row)}
      /\ staged' = staged /\ preview' = preview
      /\ Version(row) = Stamp
      /\ Exists(s) /\ message[s].deleted # 0 => row.deleted # 0
  BY <1>1 DEF Changed, Write
<1>3. Stamp \in Nat /\ Stamp' = Stamp + 1 /\ row # NoRow
  BY <1>2, LifecycleAssumption DEF Stamp, TypeOK
<1>4. message'[s] = row /\ \A r \in Messages : r # s => message'[r] = message[r]
  BY <1>2 DEF TypeOK
<1>5. /\ Exists(s)' /\ Snapshot(s)' = Event(KindOf(row), s, row)
      /\ \A r \in Messages : r # s =>
            Exists(r)' = Exists(r) /\ Snapshot(r)' = Snapshot(r) /\ Content(r)' = Content(r)
  BY <1>3, <1>4 DEF Exists, Snapshot, KindOf, Content, Event, Version
<1>6. \A r \in Messages : Exists(r) => Version(message[r]) \in Nat
  BY EventTypes DEF TypeOK, Exists
<1>7. ASSUME NEW r \in Messages, Exists(r)' PROVE Version(message'[r]) < Stamp'
  <2>1. CASE r = s
    BY <1>2, <1>3, <1>4, <2>1
  <2>2. CASE r # s
    <3>1. Version(message[r]) < Stamp /\ Version(message[r]) \in Nat
      BY <1>5, <1>6, <1>7, <2>2 DEF MessageInv
    <3> QED
      BY <1>3, <1>4, <2>2, <3>1
  <2> QED
    BY <2>1, <2>2
<1>8. ASSUME NEW e \in (outbox \union staged)', e.kind # "read" PROVE Faithful(e)'
  <2>1. CASE e = Event(KindOf(row), s, row)
    <3>1. e.message = s /\ e.version = Version(row) /\ e.kind = KindOf(row)
      BY <2>1, EventTypes
    <3> QED
      BY <1>2, <1>3, <1>4, <1>5, <2>1, <3>1 DEF Faithful, KindOf
  <2>2. CASE e \in outbox \union staged
    <3>1. e.message \in Messages /\ e.version \in Nat /\ Faithful(e)
      BY <1>8, <2>2, EventKinds DEF TypeOK, MessageInv
    <3>2. CASE e.message = s
      <4>1. Version(message[s]) \in Nat /\ e.version <= Version(message[s])
            /\ Version(message[s]) < Stamp /\ e.kind = "deleted" => row.deleted # 0
        BY <1>2, <1>6, <3>1, <3>2 DEF Faithful, MessageInv
      <4>2. e.version < Version(row)
        BY <1>2, <1>3, <1>6, <3>1, <3>2, <4>1 DEF Faithful, MessageInv
      <4>3. e.kind = "deleted" => row.deleted # 0
        BY <1>2, <3>1, <3>2 DEF Faithful
      <4>4. e.version <= Version(row) /\ e.version # Version(row)
        BY <1>2, <1>3, <3>1, <4>2
      <4> QED
        BY <1>4, <1>5, <3>2, <4>3, <4>4 DEF Faithful
    <3>3. CASE e.message # s
      BY <1>4, <1>5, <3>1, <3>3 DEF Faithful
    <3> QED
      BY <3>2, <3>3
  <2> QED
    BY <1>2, <1>8, <2>1, <2>2
<1>9. ASSUME NEW r \in Messages, preview'[r] # NoRow PROVE PreviewFaithful(r)'
  <2>1. PreviewFaithful(r) /\ preview'[r] = preview[r] /\ preview[r] \in Preview
    BY <1>2, <1>9 DEF MessageInv, TypeOK
  <2>2. CASE r = s
    <3>1. /\ preview[r].version <= Version(message[s]) /\ Version(message[s]) < Stamp
          /\ preview[r].version \in Nat /\ Version(message[s]) \in Nat
      BY <1>6, <2>1, <2>2 DEF PreviewFaithful, MessageInv, Preview
    <3>2. preview[r].version <= Version(row) /\ preview[r].version # Version(row)
      BY <1>2, <1>3, <3>1
    <3>3. preview[r].deleted => row.deleted # 0
      BY <1>2, <2>1, <2>2 DEF PreviewFaithful
    <3> QED
      BY <1>4, <1>5, <2>1, <2>2, <3>2, <3>3 DEF PreviewFaithful
  <2>3. CASE r # s
    BY <1>4, <1>5, <2>1, <2>3 DEF PreviewFaithful
  <2> QED
    BY <2>2, <2>3
<1>10. ASSUME NEW r \in Messages, Exists(r)' PROVE NewestTold(r)'
  <2>1. CASE r = s
    BY <1>2, <1>5, <2>1 DEF NewestTold
  <2>2. CASE r # s
    <3>1. NewestTold(r)
      BY <1>5, <1>10, <2>2 DEF MessageInv
    <3> QED
      BY <1>2, <1>4, <1>5, <2>2, <3>1 DEF NewestTold
  <2> QED
    BY <2>1, <2>2
<1> QED
  BY <1>7, <1>8, <1>9, <1>10 DEF MessageInv

\* An event which is projected is as true of the preview as it was.
LEMMA ProjectKeeps ==
    ASSUME TypeOK, MessageInv, NEW e \in outbox, e.kind # "read", Project(e)
    PROVE  MessageInv'
<1> DEFINE s == e.message
<1>1. /\ s \in Messages /\ e.version \in Nat /\ Faithful(e)
  BY EventKinds DEF TypeOK, MessageInv
<1>2. /\ ~Stale(e) /\ outbox' = outbox \ {e}
      /\ UNCHANGED <<now, message, staged>>
      /\ preview'[s] = [text |-> IF e.text = NoText /\ Kind[s] = "MEDIA"
                                 THEN Label ELSE e.text,
                        version |-> e.version, deleted |-> e.kind = "deleted"]
      /\ \A r \in Messages : r # s => preview'[r] = preview[r]
  BY <1>1 DEF Project, TypeOK
<1>3. /\ \A r : Exists(r)' = Exists(r)
      /\ \A r : Snapshot(r)' = Snapshot(r)
      /\ Stamp' = Stamp
      /\ \A r : Content(r)' = Content(r)
  BY <1>2 DEF Exists, Snapshot, Event, Version, Stamp, Content
<1>4. message[s] \in Message
  BY <1>1 DEF Faithful, Exists, TypeOK
<1>5. /\ Snapshot(s).kind = KindOf(message[s]) /\ Snapshot(s).text = message[s].text
      /\ Snapshot(s).version = Version(message[s]) /\ Snapshot(s).message = s
      /\ Version(message[s]) \in Nat
  BY <1>1, <1>4, Snapshots, EventTypes
<1>6. PreviewFaithful(s)'
  <2>1. e = Snapshot(s) => /\ e.text = message[s].text
                           /\ (e.kind = "deleted") = (message[s].deleted # 0)
    BY <1>5 DEF KindOf
  <2>2. e = Snapshot(s) => /\ preview'[s].text = Content(s)
                           /\ preview'[s].deleted = (message[s].deleted # 0)
    BY <1>2, <2>1 DEF Content
  <2>3. preview'[s].version = e.version /\ preview'[s].deleted = (e.kind = "deleted")
    BY <1>2
  <2> QED
    BY <1>1, <1>2, <1>3, <2>2, <2>3 DEF Faithful, PreviewFaithful
<1>7. NewestTold(s)'
  <2>0. preview'[s] # NoRow /\ preview'[s].version = e.version
    <3>1. preview'[s] \in Preview
      BY <1>1, <1>2, EventKinds DEF Preview, TypeOK
    <3> QED
      BY <1>2, <3>1, LifecycleAssumption
  <2>1. CASE e = Snapshot(s)
    BY <1>2, <1>5, <2>0, <2>1 DEF NewestTold
  <2>2. CASE e # Snapshot(s) /\ Snapshot(s) \in outbox
    BY <1>2, <1>3, <2>2 DEF NewestTold
  <2>3. CASE Snapshot(s) \notin outbox
    <3>1. /\ preview[s] # NoRow
          /\ preview[s].deleted \/ preview[s].version = Version(message[s])
      BY <1>1, <2>3 DEF MessageInv, NewestTold, Faithful
    <3>2. ~preview[s].deleted /\ ~(e.version < Version(message[s]))
      BY <1>2, <3>1 DEF Stale
    <3>3. e.version = Version(message[s])
      BY <1>1, <1>5, <3>2 DEF Faithful
    <3> QED
      BY <1>2, <2>0, <3>3 DEF NewestTold
  <2> QED
    BY <2>1, <2>2, <2>3
<1>8. ASSUME NEW r \in Messages, r # s, Exists(r) PROVE NewestTold(r)'
  <2>1. Snapshot(r).message = r
    BY Snapshots DEF Event
  <2> QED
    BY <1>2, <1>3, <1>8, <2>1 DEF MessageInv, NewestTold
<1>9. ASSUME NEW r \in Messages, r # s, preview'[r] # NoRow PROVE PreviewFaithful(r)'
  BY <1>2, <1>3, <1>9 DEF MessageInv, PreviewFaithful
<1>10. ASSUME NEW f \in (outbox \union staged)', f.kind # "read" PROVE Faithful(f)'
  BY <1>2, <1>3, <1>10 DEF MessageInv, Faithful
<1>11. \A r \in Messages : Exists(r)' => Version(message'[r]) < Stamp'
  BY <1>2, <1>3 DEF MessageInv
<1> QED
  BY <1>3, <1>6, <1>7, <1>8, <1>9, <1>10, <1>11 DEF MessageInv

\* Of an event which is ignored the preview has no need.
LEMMA IgnoreKeeps ==
    ASSUME TypeOK, MessageInv, NEW e \in outbox, e.kind # "read", Ignore(e)
    PROVE  MessageInv'
<1>1. e.message \in Messages /\ e.version \in Nat /\ Faithful(e)
  BY EventKinds DEF TypeOK, MessageInv
<1>2. /\ preview[e.message] # NoRow
      /\ preview[e.message].deleted \/ e.version < preview[e.message].version
      /\ outbox' = outbox \ {e}
      /\ UNCHANGED <<now, message, staged, preview>>
  BY DEF Ignore, Stale
<1>3. /\ \A r : Exists(r)' = Exists(r)
      /\ \A r : Snapshot(r)' = Snapshot(r)
      /\ Stamp' = Stamp
      /\ \A r : Content(r)' = Content(r)
  BY <1>2 DEF Exists, Snapshot, Event, Version, Stamp, Content
<1>4. ASSUME NEW r \in Messages, Exists(r) PROVE NewestTold(r)'
  <2>1. message[r] \in Message
    BY <1>4 DEF Exists, TypeOK
  <2>2. /\ Snapshot(r).message = r /\ Snapshot(r).version = Version(message[r])
        /\ Version(message[r]) \in Nat
    BY <2>1, Snapshots, EventTypes
  <2>3. CASE e = Snapshot(r)
    <3>1. preview[r] # NoRow /\ preview[r] \in Preview /\ PreviewFaithful(r)
      BY <1>2, <2>2, <2>3 DEF TypeOK, MessageInv
    <3>2. preview[r].version <= Version(message[r]) /\ preview[r].version \in Nat
      BY <3>1 DEF PreviewFaithful, Preview
    <3>3. preview[r].deleted
      BY <1>2, <2>2, <2>3, <3>2
    <3> QED
      BY <1>2, <3>1, <3>3 DEF NewestTold
  <2>4. CASE e # Snapshot(r)
    BY <1>2, <1>3, <1>4, <2>4 DEF MessageInv, NewestTold
  <2> QED
    BY <2>3, <2>4
<1>5. ASSUME NEW r \in Messages, preview'[r] # NoRow PROVE PreviewFaithful(r)'
  BY <1>2, <1>3, <1>5 DEF MessageInv, PreviewFaithful
<1>6. ASSUME NEW f \in (outbox \union staged)', f.kind # "read" PROVE Faithful(f)'
  BY <1>2, <1>3, <1>6 DEF MessageInv, Faithful
<1>7. \A r \in Messages : Exists(r)' => Version(message'[r]) < Stamp'
  BY <1>2, <1>3 DEF MessageInv
<1> QED
  BY <1>3, <1>4, <1>5, <1>6, <1>7 DEF MessageInv

\* Every step keeps what is told of messages true.
LEMMA StepMessageInv ==
    ASSUME Synchronized, TypeOK, MessageInv, [Next]_vars
    PROVE  MessageInv'
<1>1. ASSUME NEW s \in Messages, Change(s) PROVE MessageInv'
  BY <1>1, ChangeKeeps
<1>2. ASSUME NEW p \in Members, NEW q \in 1 .. MaxMark, MarkDelivered(p, q)
      PROVE  MessageInv'
  BY <1>2, MessageKept DEF MarkDelivered
<1>3. ASSUME NEW p \in Members, NEW q \in 1 .. MaxMark, MarkRead(p, q)
      PROVE  MessageInv'
  BY <1>3, MessageKept DEF MarkRead
<1>4. ASSUME NEW p \in Members, NEW q, NEW w \in Workers, BeginFirst(w, p, q)
      PROVE  MessageInv'
  BY <1>4, MessageKept DEF BeginFirst
<1>5. ASSUME NEW w \in Workers, EndFirst(w) PROVE MessageInv'
  BY <1>5, MessageKept DEF EndFirst
<1>6. CASE Stage
  <2>1. ASSUME NEW S \in SUBSET Messages, StageMessages(S) PROVE MessageInv'
    <3>1. \A s \in S : Exists(s) /\ Snapshot(s).message = s
      BY <2>1, Snapshots DEF StageMessages, Event
    <3> QED
      BY <2>1, <3>1, MessageKept DEF StageMessages
  <2>2. ASSUME NEW P \in SUBSET Members, StageReads(P) PROVE MessageInv'
    BY <2>2, MessageKept DEF StageReads
  <2>3. CASE CommitStaged
    BY <2>3, MessageKept DEF CommitStaged
  <2> QED
    BY <1>6, <2>1, <2>2, <2>3 DEF Stage
<1>7. CASE Consume
  <2>1. PICK e \in outbox :
            IF e.kind = "read" THEN ProjectRead(e) ELSE Project(e) \/ Ignore(e)
    BY <1>7 DEF Consume
  <2>2. CASE e.kind = "read"
    BY <2>1, <2>2, MessageKept DEF ProjectRead
  <2>3. CASE e.kind # "read"
    BY <2>1, <2>3, ProjectKeeps, IgnoreKeeps
  <2> QED
    BY <2>2, <2>3
<1>8. CASE UNCHANGED vars
  BY <1>8, MessageKept DEF vars
<1> QED
  BY <1>1, <1>2, <1>3, <1>4, <1>5, <1>6, <1>7, <1>8 DEF Next, Mark

\* When nothing is in flight the chat lists are those the tables tell.
LEMMA NothingInFlight == TypeOK /\ MessageInv /\ ReadInv => Converged
<1> SUFFICES ASSUME TypeOK, MessageInv, ReadInv, outbox = {}, NEW p \in Members
             PROVE  Summary(p) = Truth(p)
  BY DEF Converged
<1>1. ASSUME NEW s \in Messages PROVE s \in Shown <=> s \in Live
  <2>1. s \in Shown => s \in Live
    <3>1. ASSUME s \in Shown PROVE Exists(s) /\ message[s].deleted = 0
      <4>1. preview[s] # NoRow /\ ~preview[s].deleted /\ PreviewFaithful(s)
        BY <3>1 DEF Shown, MessageInv
      <4>2. Exists(s) /\ NewestTold(s)
        BY <4>1 DEF PreviewFaithful, MessageInv
      <4>3. preview[s].version = Version(message[s])
        BY <4>1, <4>2 DEF NewestTold
      <4> QED
        BY <4>1, <4>2, <4>3 DEF PreviewFaithful
    <3> QED
      BY <3>1 DEF Live
  <2>2. s \in Live => s \in Shown
    BY DEF Live, Shown, MessageInv, NewestTold, PreviewFaithful
  <2> QED
    BY <2>1, <2>2
<1>2. Shown = Live
  BY <1>1 DEF Shown, Live
<1>3. ASSUME NEW s \in Shown PROVE preview[s].text = Content(s)
  <2>1. s \in Messages /\ preview[s] # NoRow /\ ~preview[s].deleted
    BY DEF Shown
  <2> QED
    BY <2>1 DEF MessageInv, NewestTold, PreviewFaithful
<1>4. watermark[p] = ReadUpTo(p)
  BY DEF ReadInv
<1>5. {preview[s].text : s \in {t \in Shown : \A r \in Shown : r <= t}}
        = {Content(s) : s \in {t \in Live : \A r \in Live : r <= t}}
  BY <1>2, <1>3
<1> QED
  BY <1>2, <1>4, <1>5 DEF Summary, Truth

\* With clocks that agree, and whatever the order in which edits, deletions, marks and
\* old snapshots are projected, chat lists converge.
THEOREM Converges == ASSUME Synchronized PROVE Spec => []Converged
<1>1. Init => MessageInv
  BY DEF Init, MessageInv, Exists
<1>2. TypeOK /\ MessageInv /\ [Next]_vars => MessageInv'
  BY StepMessageInv
<1> QED
  BY <1>1, <1>2, NothingInFlight, TypeCorrect, ReadsTold, PTL DEF Spec

=============================================================================
