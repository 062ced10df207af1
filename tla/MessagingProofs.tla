--------------------------- MODULE MessagingProofs ---------------------------
(***************************************************************************)
(* Proofs about Messaging, for any number of workers, conversations, keys  *)
(* and fan-outs, and about RealtimeRegistry, which takes what is sent to   *)
(* the sockets, for any number of those, of members and of instances.      *)
(***************************************************************************)
EXTENDS Messaging, RealtimeRegistry, SequenceTheorems, TLAPS

-----------------------------------------------------------------------------
(* The inductive invariant.                                                *)

NextSequence(c) == IF counter[c] = 0 THEN 1 ELSE counter[c]

\* Who allocated a sequence of c holds the counter row of c, and so the sequence is
\* still the next one.
LockInv ==
    \A w \in Workers, c \in Conversations :
        /\ lock[c] = w <=> seq[w][c] # 0
        /\ seq[w][c] # 0 => seq[w][c] = NextSequence(c)

\* What is known at each point of the handler.
PCInv ==
    \A w \in Workers :
        /\ pc[w] = "idle" => \A c \in Conversations : seq[w][c] = 0
        /\ pc[w] # "idle" => key[w] \in Keys
        /\ pc[w] \in {"idle", "read", "commit"} => cur[w] = NoConv
        /\ pc[w] \in {"lock", "create"} => cur[w] \in Conversations /\ seq[w][cur[w]] = 0
        /\ pc[w] = "insert" => cur[w] \in Conversations /\ seq[w][cur[w]] # 0
        /\ pc[w] = "commit" => todo[w] = {} /\ \E c \in Conversations : seq[w][c] # 0
        /\ \A c \in todo[w] : c # cur[w] /\ seq[w][c] = 0

\* The unique index was asked about every message a transaction inserted, and the
\* lock on the counter keeps the answer true.
InsertInv ==
    \A w \in Workers, c \in Conversations :
        seq[w][c] # 0 /\ c # cur[w] => ~HasKey(c, key[w])

\* A running fan-out is the only one with its keys, has committed nothing, and its
\* recipients are those it has done, is doing and has to do.
BroadcastInv ==
    /\ \A r \in rows : r.key \in Broadcasts => r.key \in made
    /\ \A w \in Workers : pc[w] # "idle" /\ key[w] \in Broadcasts =>
        /\ key[w] \in made
        /\ \A c \in Conversations : ~HasKey(c, key[w])
        /\ \A c \in Conversations :
              c \in Recipients[key[w]] <=> c \in todo[w] \/ c = cur[w] \/ seq[w][c] # 0
        /\ \A v \in Workers : v # w /\ pc[v] # "idle" => key[v] # key[w]

\* A reply names a committed message, and once send has validated it one of the
\* conversation it works on.
ReplyInv ==
    \A w \in Workers : reply[w] # NoReply =>
        /\ \E s \in rows : IdOf(s) = reply[w]
        /\ kind[w] \in {"TEXT", "MEDIA"} =>
              \A c \in Conversations : c = cur[w] \/ seq[w][c] # 0 => reply[w][1] = c

IInv ==
    /\ TypeOK
    /\ LockInv
    /\ PCInv
    /\ InsertInv
    /\ BroadcastInv
    /\ ReplyInv
    /\ SequencesDense
    /\ OneMessagePerKey
    /\ BroadcastAllOrNothing
    /\ RepliesPointBack

-----------------------------------------------------------------------------
(* Initial states and steps.                                               *)

LEMMA InitIInv == Init => IInv
<1> SUFFICES ASSUME Init PROVE IInv
  OBVIOUS
<1> USE SendAssumption DEF Init
<1>1. TypeOK
  BY DEF TypeOK, Kinds, Contents, PCs
<1>2. LockInv /\ PCInv /\ InsertInv
  BY DEF LockInv, PCInv, InsertInv, NextSequence
<1>3. BroadcastInv /\ ReplyInv
  BY DEF BroadcastInv, ReplyInv
<1>4. SequencesDense
  BY DEF SequencesDense
<1>5. OneMessagePerKey /\ BroadcastAllOrNothing /\ RepliesPointBack
  BY DEF OneMessagePerKey, BroadcastAllOrNothing, RepliesPointBack, HasKey
<1> QED
  BY <1>1, <1>2, <1>3, <1>4, <1>5 DEF IInv

\* Whatever ends a transaction without commit leaves the tables as they were and the
\* worker with no lock and no sequence.
LEMMA RollbackStep ==
  ASSUME IInv, NEW w \in Workers, Rollback(w)
  PROVE  IInv'
<1> USE SendAssumption DEF Rollback, EndTransaction
<1>1. TypeOK'
  BY DEF IInv, TypeOK, Kinds, Contents, PCs
<1>2. LockInv'
  BY DEF IInv, TypeOK, LockInv, NextSequence
<1>3. PCInv'
  BY DEF IInv, TypeOK, PCInv
<1>4. InsertInv'
  BY DEF IInv, TypeOK, InsertInv, HasKey
<1>5. BroadcastInv'
  BY DEF IInv, TypeOK, BroadcastInv, HasKey
<1>6. ReplyInv'
  BY DEF IInv, TypeOK, ReplyInv, IdOf
<1>7. SequencesDense' /\ OneMessagePerKey'
  BY DEF IInv, SequencesDense, OneMessagePerKey
<1>8. BroadcastAllOrNothing' /\ RepliesPointBack'
  BY DEF IInv, BroadcastAllOrNothing, HasKey, RepliesPointBack, IdOf
<1> QED
  BY <1>1, <1>2, <1>3, <1>4, <1>5, <1>6, <1>7, <1>8 DEF IInv

LEMMA BeginSendStep ==
  ASSUME IInv, NEW w \in Workers, NEW q \in Requests, BeginSend(w, q)
  PROVE  IInv'
<1> USE SendAssumption DEF BeginSend
<1>q. q \in Request
  OBVIOUS
<1>1. TypeOK'
  BY <1>q DEF IInv, TypeOK, Request, Keys, PCs
<1>2. LockInv'
  BY DEF IInv, TypeOK, LockInv, NextSequence
<1>3. PCInv'
  BY <1>q DEF IInv, TypeOK, PCInv, Request, Keys, PCs
<1>4. InsertInv'
  BY DEF IInv, TypeOK, InsertInv, PCInv, HasKey
<1>5. BroadcastInv'
  BY <1>q DEF IInv, TypeOK, BroadcastInv, HasKey, Request
<1>6. ReplyInv'
  <2>1. q.reply # NoReply => \E s \in rows : IdOf(s) = q.reply
    BY DEF Ids
  <2>2. \A c \in Conversations : c # cur[w] /\ seq[w][c] = 0
    BY DEF IInv, TypeOK, PCInv
  <2> QED
    BY <1>q, <2>1, <2>2 DEF IInv, TypeOK, ReplyInv, IdOf, Request
<1>7. SequencesDense' /\ OneMessagePerKey'
  BY DEF IInv, SequencesDense, OneMessagePerKey
<1>8. BroadcastAllOrNothing' /\ RepliesPointBack'
  BY DEF IInv, BroadcastAllOrNothing, HasKey, RepliesPointBack, IdOf
<1> QED
  BY <1>1, <1>2, <1>3, <1>4, <1>5, <1>6, <1>7, <1>8 DEF IInv

LEMMA BeginBroadcastStep ==
  ASSUME IInv, NEW w \in Workers, NEW b \in Broadcasts, BeginBroadcast(w, b)
  PROVE  IInv'
<1> USE SendAssumption DEF BeginBroadcast
<1>1. TypeOK'
  BY DEF IInv, TypeOK, Keys, PCs
<1>2. LockInv'
  BY DEF IInv, TypeOK, LockInv, NextSequence
<1>3. PCInv'
  BY DEF IInv, TypeOK, PCInv, Keys, PCs
<1>4. InsertInv'
  BY DEF IInv, TypeOK, InsertInv, PCInv, HasKey
<1>5. BroadcastInv'
  BY DEF IInv, TypeOK, BroadcastInv, PCInv, HasKey
<1>6. ReplyInv'
  BY DEF IInv, TypeOK, ReplyInv, PCInv, IdOf
<1>7. SequencesDense' /\ OneMessagePerKey'
  BY DEF IInv, SequencesDense, OneMessagePerKey
<1>8. BroadcastAllOrNothing' /\ RepliesPointBack'
  BY DEF IInv, BroadcastAllOrNothing, HasKey, RepliesPointBack, IdOf
<1> QED
  BY <1>1, <1>2, <1>3, <1>4, <1>5, <1>6, <1>7, <1>8 DEF IInv

LEMMA ReadNewStep ==
  ASSUME IInv, NEW w \in Workers, NEW c \in Conversations, ReadNew(w, c)
  PROVE  IInv'
<1> USE SendAssumption DEF ReadNew
<1>1. TypeOK'
  BY DEF IInv, TypeOK, PCs
<1>2. LockInv'
  BY DEF IInv, TypeOK, LockInv, NextSequence
<1>3. PCInv'
  BY DEF IInv, TypeOK, PCInv, PCs
<1>4. InsertInv'
  BY DEF IInv, TypeOK, InsertInv, PCInv, HasKey
<1>5. BroadcastInv'
  BY DEF IInv, TypeOK, BroadcastInv, PCInv, HasKey
<1>6. ReplyInv'
  BY DEF IInv, TypeOK, ReplyInv, PCInv, Content, Ids, IdOf
<1>7. SequencesDense' /\ OneMessagePerKey'
  BY DEF IInv, SequencesDense, OneMessagePerKey
<1>8. BroadcastAllOrNothing' /\ RepliesPointBack'
  BY DEF IInv, BroadcastAllOrNothing, HasKey, RepliesPointBack, IdOf
<1> QED
  BY <1>1, <1>2, <1>3, <1>4, <1>5, <1>6, <1>7, <1>8 DEF IInv

LEMMA LockCounterStep ==
  ASSUME IInv, NEW w \in Workers, LockCounter(w)
  PROVE  IInv'
<1> USE SendAssumption DEF LockCounter
<1>c. cur[w] \in Conversations /\ seq[w][cur[w]] = 0
  BY DEF IInv, PCInv
<1>1. TypeOK'
  BY <1>c DEF IInv, TypeOK, PCs
<1>2. LockInv'
  BY <1>c DEF IInv, TypeOK, LockInv, NextSequence
<1>3. PCInv'
  BY <1>c DEF IInv, TypeOK, PCInv, PCs
<1>4. InsertInv'
  BY <1>c DEF IInv, TypeOK, InsertInv, HasKey
<1>5. BroadcastInv'
  BY <1>c DEF IInv, TypeOK, BroadcastInv, HasKey
<1>6. ReplyInv'
  BY <1>c DEF IInv, TypeOK, ReplyInv, IdOf
<1>7. SequencesDense' /\ OneMessagePerKey'
  BY DEF IInv, SequencesDense, OneMessagePerKey
<1>8. BroadcastAllOrNothing' /\ RepliesPointBack'
  BY DEF IInv, BroadcastAllOrNothing, HasKey, RepliesPointBack, IdOf
<1> QED
  BY <1>1, <1>2, <1>3, <1>4, <1>5, <1>6, <1>7, <1>8 DEF IInv

LEMMA NoCounterStep ==
  ASSUME IInv, NEW w \in Workers, NoCounter(w)
  PROVE  IInv'
<1> USE SendAssumption DEF NoCounter
<1>1. TypeOK' /\ PCInv'
  BY DEF IInv, TypeOK, PCInv, PCs
<1>2. LockInv' /\ InsertInv'
  BY DEF IInv, LockInv, InsertInv, NextSequence, HasKey
<1>3. BroadcastInv' /\ ReplyInv'
  BY DEF IInv, TypeOK, BroadcastInv, ReplyInv, HasKey, IdOf
<1>4. SequencesDense' /\ OneMessagePerKey'
  BY DEF IInv, SequencesDense, OneMessagePerKey
<1>5. BroadcastAllOrNothing' /\ RepliesPointBack'
  BY DEF IInv, BroadcastAllOrNothing, HasKey, RepliesPointBack, IdOf
<1> QED
  BY <1>1, <1>2, <1>3, <1>4, <1>5 DEF IInv

LEMMA CreateCounterStep ==
  ASSUME IInv, NEW w \in Workers, CreateCounter(w)
  PROVE  IInv'
<1> USE SendAssumption DEF CreateCounter
<1>c. cur[w] \in Conversations /\ seq[w][cur[w]] = 0
  BY DEF IInv, PCInv
<1>1. TypeOK'
  BY <1>c DEF IInv, TypeOK, PCs
<1>2. LockInv'
  BY <1>c DEF IInv, TypeOK, LockInv, NextSequence
<1>3. PCInv'
  BY <1>c DEF IInv, TypeOK, PCInv, PCs
<1>4. InsertInv'
  BY <1>c DEF IInv, TypeOK, InsertInv, HasKey
<1>5. BroadcastInv'
  BY <1>c DEF IInv, TypeOK, BroadcastInv, HasKey
<1>6. ReplyInv'
  BY <1>c DEF IInv, TypeOK, ReplyInv, IdOf
<1>7. SequencesDense' /\ OneMessagePerKey'
  BY DEF IInv, SequencesDense, OneMessagePerKey
<1>8. BroadcastAllOrNothing' /\ RepliesPointBack'
  BY DEF IInv, BroadcastAllOrNothing, HasKey, RepliesPointBack, IdOf
<1> QED
  BY <1>1, <1>2, <1>3, <1>4, <1>5, <1>6, <1>7, <1>8 DEF IInv

LEMMA InsertMessageStep ==
  ASSUME IInv, NEW w \in Workers, InsertMessage(w)
  PROVE  IInv'
<1> USE SendAssumption DEF InsertMessage
<1>c. cur[w] \in Conversations /\ seq[w][cur[w]] # 0
  BY DEF IInv, PCInv
<1>1. TypeOK'
  BY DEF IInv, TypeOK, PCs
<1>2. LockInv'
  BY DEF IInv, LockInv, NextSequence
<1>3. PCInv'
  BY <1>c DEF IInv, TypeOK, PCInv, PCs
<1>4. InsertInv'
  BY <1>c DEF IInv, TypeOK, InsertInv, HasKey
<1>5. BroadcastInv'
  BY <1>c DEF IInv, TypeOK, BroadcastInv, HasKey
<1>6. ReplyInv'
  BY <1>c DEF IInv, TypeOK, ReplyInv, IdOf
<1>7. SequencesDense' /\ OneMessagePerKey'
  BY DEF IInv, SequencesDense, OneMessagePerKey
<1>8. BroadcastAllOrNothing' /\ RepliesPointBack'
  BY DEF IInv, BroadcastAllOrNothing, HasKey, RepliesPointBack, IdOf
<1> QED
  BY <1>1, <1>2, <1>3, <1>4, <1>5, <1>6, <1>7, <1>8 DEF IInv

\* The rows of a commit are one for each sequence the transaction holds: the next of
\* its conversation, of a key the conversation does not have.
LEMMA CommitStep ==
  ASSUME IInv, NEW w \in Workers, Commit(w)
  PROVE  IInv'
<1> USE SendAssumption DEF Commit, EndTransaction
<1>p. /\ key[w] \in Keys /\ kind[w] \in Kinds /\ carries[w] \in Contents
      /\ reply[w] \in MessageId \union {NoReply}
      /\ \A c \in Conversations : seq[w][c] \in Nat
  BY DEF IInv, TypeOK, PCInv
<1>n. /\ \A n \in NewRows(w) :
            /\ n \in Row
            /\ seq[w][n.conv] # 0 /\ n.seq = seq[w][n.conv] /\ n.key = key[w]
            /\ n.kind = kind[w] /\ n.reply = reply[w]
      /\ \A c \in Conversations : seq[w][c] # 0 => \E n \in NewRows(w) : n.conv = c
  <2>1. ASSUME NEW n \in NewRows(w)
        PROVE  /\ n \in Row
               /\ seq[w][n.conv] # 0 /\ n.seq = seq[w][n.conv] /\ n.key = key[w]
               /\ n.kind = kind[w] /\ n.reply = reply[w]
    <3>1. PICK c \in Allocated(w) :
            n = [conv |-> c, seq |-> seq[w][c], key |-> key[w], kind |-> kind[w],
                 reply |-> reply[w], carries |-> carries[w]]
      BY DEF NewRows
    <3>2. c \in Conversations /\ seq[w][c] # 0
      BY DEF Allocated
    <3>3. n \in Row
      BY <1>p, <3>1, <3>2 DEF Row
    <3> QED
      BY <3>1, <3>2, <3>3
  <2>2. ASSUME NEW c \in Conversations, seq[w][c] # 0
        PROVE  \E n \in NewRows(w) : n.conv = c
    <3> DEFINE n == [conv |-> c, seq |-> seq[w][c], key |-> key[w], kind |-> kind[w],
                     reply |-> reply[w], carries |-> carries[w]]
    <3>1. c \in Allocated(w)
      BY <2>2 DEF Allocated
    <3>2. n \in NewRows(w)
      BY <3>1 DEF NewRows
    <3>3. n.conv = c
      OBVIOUS
    <3> HIDE DEF n
    <3> QED
      BY <3>2, <3>3
  <2> QED
    BY <2>1, <2>2
<1>u. \A m, n \in NewRows(w) : m.conv = n.conv => m = n
  BY DEF NewRows, Allocated
<1>k. \A n \in NewRows(w) : ~HasKey(n.conv, n.key)
  BY <1>n DEF IInv, PCInv, InsertInv, Row
<1>s. \A n \in NewRows(w) : n.seq = NextSequence(n.conv)
  BY <1>n DEF IInv, LockInv, Row
<1>r. \A r \in rows : r \in Row
  BY DEF IInv, TypeOK
<1>d. \A c \in Conversations :
        counter[c] \in Nat /\ (counter'[c] = IF seq[w][c] # 0 THEN seq[w][c] + 1 ELSE counter[c])
  BY DEF IInv, TypeOK
<1>1. TypeOK'
  BY <1>n DEF IInv, TypeOK, PCs, Kinds, Contents
<1>2. LockInv'
  BY DEF IInv, TypeOK, LockInv, NextSequence
<1>3. PCInv'
  BY DEF IInv, TypeOK, PCInv, PCs
<1>4. InsertInv'
  <2> SUFFICES ASSUME NEW v \in Workers, NEW c \in Conversations,
                      seq'[v][c] # 0, c # cur'[v]
               PROVE  ~HasKey(c, key[v])' 
    BY DEF InsertInv
  <2>1. v # w /\ seq[v][c] # 0 /\ c # cur[v] /\ key'[v] = key[v]
    BY DEF IInv, TypeOK
  <2>2. seq[w][c] = 0
    BY <2>1 DEF IInv, LockInv
  <2> QED
    BY <1>n, <2>1, <2>2 DEF IInv, InsertInv, HasKey
<1>5. BroadcastInv'
  BY <1>n DEF IInv, TypeOK, BroadcastInv, HasKey, PCInv
<1>6. ReplyInv'
  BY DEF IInv, TypeOK, ReplyInv, IdOf
<1>7. SequencesDense'
  BY <1>n, <1>u, <1>s, <1>r, <1>d DEF IInv, SequencesDense, NextSequence, Row
<1>8. OneMessagePerKey'
  BY <1>n, <1>u, <1>k, <1>r DEF IInv, OneMessagePerKey, HasKey
<1>9. BroadcastAllOrNothing'
  <2> SUFFICES ASSUME NEW b \in Broadcasts
               PROVE  {c \in Conversations : HasKey(c, b)'} \in {{}, Recipients[b]}
    BY DEF BroadcastAllOrNothing
  <2>1. rows' = rows \union NewRows(w)
    OBVIOUS
  <2>2. CASE key[w] # b
    <3>1. \A c \in Conversations : HasKey(c, b)' <=> HasKey(c, b)
      BY <1>n, <2>1, <2>2 DEF HasKey
    <3> QED
      BY <3>1 DEF IInv, BroadcastAllOrNothing
  <2>3. CASE key[w] = b
    <3>1. \A c \in Conversations : HasKey(c, b)' <=> seq[w][c] # 0
      BY <1>n, <2>1, <2>3 DEF IInv, BroadcastInv, HasKey
    <3>2. todo[w] = {} /\ cur[w] = NoConv
      BY DEF IInv, PCInv
    <3>3. \A c \in Conversations : c \in Recipients[b] <=> seq[w][c] # 0
      BY <2>3, <3>2, SendAssumption DEF IInv, BroadcastInv
    <3>4. {c \in Conversations : HasKey(c, b)'} = Recipients[b]
      BY <3>1, <3>3, SendAssumption
    <3> QED
      BY <3>4
  <2> QED
    BY <2>2, <2>3
<1>10. RepliesPointBack'
  <2>1. \A r \in NewRows(w) : r.kind \in {"TEXT", "MEDIA"} /\ r.reply # NoReply =>
          \E s \in rows : IdOf(s) = r.reply /\ s.conv = r.conv /\ s.seq < r.seq
    <3> SUFFICES ASSUME NEW r \in NewRows(w), r.kind \in {"TEXT", "MEDIA"},
                        r.reply # NoReply
                 PROVE  \E s \in rows :
                           IdOf(s) = r.reply /\ s.conv = r.conv /\ s.seq < r.seq
      OBVIOUS
    <3>1. r.conv \in Conversations /\ seq[w][r.conv] # 0 /\ r.reply = reply[w]
      BY <1>n DEF Row
    <3>2. PICK s \in rows : IdOf(s) = reply[w]
      BY <1>n, <3>1 DEF IInv, ReplyInv
    <3>3. reply[w][1] = r.conv
      BY <1>n, <3>1 DEF IInv, ReplyInv
    <3>4. s.conv = r.conv
      BY <3>2, <3>3 DEF IdOf
    <3>5. s.seq < counter[s.conv] /\ 1 <= s.seq
      BY DEF IInv, SequencesDense
    <3>6. r.seq = NextSequence(r.conv)
      BY <1>s
    <3>7. s.seq < r.seq
      BY <1>d, <1>r, <3>1, <3>4, <3>5, <3>6 DEF NextSequence, Row
    <3> QED
      BY <3>1, <3>2, <3>4, <3>7
  <2>2. rows' = rows \union NewRows(w)
    OBVIOUS
  <2> QED
    BY <2>1, <2>2 DEF IInv, RepliesPointBack, IdOf
<1> QED
  BY <1>1, <1>2, <1>3, <1>4, <1>5, <1>6, <1>7, <1>8, <1>9, <1>10 DEF IInv

-----------------------------------------------------------------------------
(* The theorems.                                                           *)

LEMMA StepIInv == IInv /\ [Next]_vars => IInv'
<1> SUFFICES ASSUME IInv, [Next]_vars
             PROVE  IInv'
  OBVIOUS
<1>1. CASE UNCHANGED vars
  <2> USE <1>1 DEF vars, IInv
  <2>1. TypeOK' /\ LockInv' /\ PCInv' /\ InsertInv'
    BY DEF TypeOK, LockInv, PCInv, InsertInv, NextSequence, HasKey
  <2>2. BroadcastInv' /\ ReplyInv'
    BY DEF BroadcastInv, ReplyInv, HasKey, IdOf
  <2>3. SequencesDense' /\ OneMessagePerKey'
    BY DEF SequencesDense, OneMessagePerKey
  <2>4. BroadcastAllOrNothing' /\ RepliesPointBack'
    BY DEF BroadcastAllOrNothing, HasKey, RepliesPointBack, IdOf
  <2> QED
    BY <2>1, <2>2, <2>3, <2>4
<1>2. ASSUME NEW w \in Workers, Begin(w)
      PROVE  IInv'
  BY <1>2, BeginSendStep, BeginBroadcastStep DEF Begin
<1>3. ASSUME NEW w \in Workers, Read(w)
      PROVE  IInv'
  BY <1>3, ReadNewStep, RollbackStep DEF Read, ReturnExisting, RefuseContent
<1>4. ASSUME NEW w \in Workers, Allocate(w)
      PROVE  IInv'
  BY <1>4, LockCounterStep, NoCounterStep, CreateCounterStep, RollbackStep
     DEF Allocate, CounterCollision
<1>5. ASSUME NEW w \in Workers, Insert(w)
      PROVE  IInv'
  BY <1>5, InsertMessageStep, RollbackStep DEF Insert, InsertRejected
<1>6. ASSUME NEW w \in Workers, Commit(w) \/ DeadlockAbort(w) \/ Fail(w)
      PROVE  IInv'
  BY <1>6, CommitStep, RollbackStep DEF DeadlockAbort, Fail
<1> QED
  BY <1>1, <1>2, <1>3, <1>4, <1>5, <1>6 DEF Next, Step

\* The inductive invariant holds in every reachable state of the send path.
THEOREM Inductive == Spec => []IInv
<1> QED
  BY InitIInv, StepIInv, PTL DEF Spec

\* Type correctness: in particular a sequence is a number whenever a message is
\* inserted with it, and a committed row is a complete one.
THEOREM TypeCorrect == Spec => []TypeOK
<1>1. IInv => TypeOK
  BY DEF IInv
<1> QED
  BY <1>1, Inductive, PTL

\* services.py send 246-256: for any number of concurrent requests, failing or not,
\* the sequences of a conversation are 1 .. next_sequence - 1, each of one message.
THEOREM Dense == Spec => []SequencesDense
<1>1. IInv => SequencesDense
  BY DEF IInv
<1> QED
  BY <1>1, Inductive, PTL

\* services.py send 193-202 and the index message_idempotency: repeating a request,
\* concurrently or later, never makes a second message.
THEOREM Idempotent == Spec => []OneMessagePerKey
<1>1. IInv => OneMessagePerKey
  BY DEF IInv
<1> QED
  BY <1>1, Inductive, PTL

\* broadcast.py fan_out_send 75-122: a broadcast reaches all its recipients or none.
THEOREM FanOutAtomic == Spec => []BroadcastAllOrNothing
<1>1. IInv => BroadcastAllOrNothing
  BY DEF IInv
<1> QED
  BY <1>1, Inductive, PTL

\* services.py send 230-239: a validated reply quotes an earlier message of its own
\* conversation, although the target is read before the counter is locked.
THEOREM RepliesEarlier == Spec => []RepliesPointBack
<1>1. IInv => RepliesPointBack
  BY DEF IInv
<1> QED
  BY <1>1, Inductive, PTL

-----------------------------------------------------------------------------
(* Messaging implements MessageLog: a commit appends, all else stutters.   *)

\* A step that leaves the tables alone leaves the log alone.
LEMMA TablesStutter ==
  ASSUME UNCHANGED <<rows, counter>>
  PROVE  UNCHANGED Log!vars
BY DEF Log!vars

LEMMA InitLog == Init => Log!Init
BY DEF Init, Log!Init

\* The rows of a commit are, for the log, one entry at the end of each conversation
\* the transaction wrote to.
LEMMA CommitAppends ==
  ASSUME IInv, NEW w \in Workers, Commit(w)
  PROVE  Log!Next
<1> DEFINE S == Allocated(w)
           len == [c \in Conversations |-> IF counter[c] = 0 THEN 0 ELSE counter[c] - 1]
           new == {[conv |-> c, seq |-> len[c] + 1, key |-> key[w]] : c \in S}
<1>1. key[w] \in Keys /\ S # {} /\ S \in SUBSET Conversations
  BY DEF Commit, IInv, PCInv, Allocated
<1>2. \A c \in S : /\ seq[w][c] = len[c] + 1
                  /\ ~HasKey(c, key[w])
  <2> TAKE c \in S
  <2>1. c \in Conversations /\ seq[w][c] # 0
    BY DEF Allocated
  <2>2. c # cur[w]
    BY <2>1, SendAssumption DEF Commit, IInv, PCInv
  <2>3. seq[w][c] = NextSequence(c) /\ counter[c] \in Nat
    BY <2>1 DEF IInv, LockInv, TypeOK
  <2>4. ~HasKey(c, key[w])
    BY <2>1, <2>2 DEF IInv, InsertInv
  <2> QED
    BY <2>1, <2>3, <2>4 DEF NextSequence
<1>3. {EntryOf(n) : n \in NewRows(w)} = new
  <2> DEFINE row(c) == [conv |-> c, seq |-> seq[w][c], key |-> key[w], kind |-> kind[w],
                        reply |-> reply[w], carries |-> carries[w]]
  <2>1. \A c \in S : EntryOf(row(c)) = [conv |-> c, seq |-> len[c] + 1, key |-> key[w]]
    BY <1>2 DEF EntryOf
  <2>2. NewRows(w) = {row(c) : c \in S}
    BY DEF NewRows
  <2> HIDE DEF S, len, row
  <2>3. {EntryOf(n) : n \in {row(c) : c \in S}} = {EntryOf(row(c)) : c \in S}
    OBVIOUS
  <2> QED
    BY <2>1, <2>2, <2>3
<1>4. {EntryOf(r) : r \in rows'} = {EntryOf(r) : r \in rows} \union new
  BY <1>3 DEF Commit
<1>5. [c \in Conversations |-> IF counter'[c] = 0 THEN 0 ELSE counter'[c] - 1]
      = [c \in Conversations |-> IF c \in S THEN len[c] + 1 ELSE len[c]]
  <2> SUFFICES ASSUME NEW c \in Conversations
               PROVE  (IF counter'[c] = 0 THEN 0 ELSE counter'[c] - 1)
                      = (IF c \in S THEN len[c] + 1 ELSE len[c])
    OBVIOUS
  <2>1. counter'[c] = IF seq[w][c] # 0 THEN seq[w][c] + 1 ELSE counter[c]
    BY DEF Commit
  <2>2. counter[c] \in Nat /\ seq[w][c] \in Nat
    BY DEF IInv, TypeOK
  <2>3. c \in S <=> seq[w][c] # 0
    BY DEF Allocated
  <2>4. len[c] = IF counter[c] = 0 THEN 0 ELSE counter[c] - 1
    OBVIOUS
  <2>5. c \in S => seq[w][c] = len[c] + 1
    BY <1>2
  <2> HIDE DEF S, len
  <2>6. CASE c \in S
    BY <2>1, <2>2, <2>3, <2>5, <2>6
  <2>7. CASE c \notin S
    BY <2>1, <2>2, <2>3, <2>4, <2>7
  <2> QED
    BY <2>6, <2>7
<1>6. \A c \in S : ~\E e \in {EntryOf(r) : r \in rows} : e.conv = c /\ e.key = key[w]
  <2>1. \A r : EntryOf(r).conv = r.conv /\ EntryOf(r).key = r.key
    BY DEF EntryOf
  <2>2. \A c \in S : ~HasKey(c, key[w])
    BY <1>2
  <2> HIDE DEF S
  <2> QED
    BY <2>1, <2>2 DEF HasKey
<1>7. Log!Append(key[w], S)
  BY <1>1, <1>4, <1>5, <1>6 DEF Log!Append, Log!HasKey
<1> HIDE DEF S
<1> QED
  BY <1>1, <1>7 DEF Log!Next, Log!Append

LEMMA StepLog == IInv /\ [Next]_vars => [Log!Next]_(Log!vars)
<1> SUFFICES ASSUME IInv, [Next]_vars
             PROVE  [Log!Next]_(Log!vars)
  OBVIOUS
<1>1. CASE UNCHANGED vars
  BY <1>1, TablesStutter DEF vars
<1>2. ASSUME NEW w \in Workers, Begin(w) \/ Read(w) \/ Allocate(w) \/ Insert(w)
      PROVE  UNCHANGED <<rows, counter>>
  BY <1>2 DEF Begin, BeginSend, BeginBroadcast, Read, ReturnExisting, ReadNew,
              RefuseContent, Allocate, LockCounter, NoCounter, CreateCounter,
              CounterCollision, Insert, InsertMessage, InsertRejected, Rollback
<1>3. ASSUME NEW w \in Workers, DeadlockAbort(w) \/ Fail(w)
      PROVE  UNCHANGED <<rows, counter>>
  BY <1>3 DEF DeadlockAbort, Fail, Rollback
<1>4. ASSUME NEW w \in Workers, Commit(w)
      PROVE  Log!Next
  BY <1>4, CommitAppends
<1> QED
  BY <1>1, <1>2, <1>3, <1>4, TablesStutter DEF Next, Step

\* The locks, unique indexes, retries and rollbacks of the send path implement the
\* append-only, once-per-key history: the tables change only as MessageLog allows.
THEOREM Implements == Spec => ImplementsLog
<1> QED
  BY Inductive, InitLog, StepLog, PTL DEF Spec, ImplementsLog, Log!Spec
-----------------------------------------------------------------------------
(* RealtimeRegistry: the inductive invariant.                              *)

\* The consumer is at an event that was published, or after the last; what it does is
\* what an event of that type asks for.
PlaceInv ==
    /\ consumer.next \in 1 .. Len(history) + 1
    /\ ~At("ready") => consumer.next <= Len(history)
    /\ At("look") \/ At("send") => Current.type = "message"
    /\ At("list") => Current.type = "departed"
    /\ At("clear") => Current.type \in {"removed", "closed", "departed"}

\* Only who has departed is reactivated.
HistoryInv ==
    \A r \in DOMAIN history :
        history[r].type = "reactivated" => Gone(history[r].member, r)

\* Late instances make nobody active, so who has departed is not.
StatusInv ==
    /\ \A m \in Member : Gone(m, consumer.next) => status[m] = "GONE"
    /\ At("list") \/ At("clear") =>
          (Current.type = "departed" => status[Current.member] = "GONE")

\* No request is handled, and nothing subscribed, for a socket that is not there yet.
SocketInv ==
    \A c \in Connection : socket[c] = "none" => handler[c] = "idle" /\ subscribed[c] = 0

\* A notice that has, or will have, a message for a socket.
Carries(notice, c) ==
    notice.op \in {"deliver", "put"} /\ notice.to = c /\ notice.frame # Typing

\* A message that was published before the consumer's place, of which its member was not gone.
Sent(c, k) == k <= consumer.next /\ ~Gone(Principal[c], k)

\* What waits for an instance is for its own sockets.
AddressInv ==
    \A i \in Instance :
        /\ \A n \in DOMAIN channel[i] :
              /\ channel[i][n].op \in {"deliver", "typing"} => Home[channel[i][n].to] = i
              /\ channel[i][n].op = "typing" => channel[i][n].frame = Typing
        /\ listener[i].op \in {"deliver", "typing", "put"} => Home[listener[i].to] = i
        /\ listener[i].op = "typing" => listener[i].frame = Typing

FrameInv ==
    \A c \in Connection :
        /\ \A n \in DOMAIN shown[c] : Sent(c, shown[c][n])
        /\ Carries(listener[Home[c]], c) => Sent(c, listener[Home[c]].frame)
        /\ \A n \in DOMAIN channel[Home[c]] :
              Carries(channel[Home[c]][n], c) => Sent(c, channel[Home[c]][n].frame)

\* What is shown, in hand and in the channel is in the order of the history.
OrderInv ==
    \A c \in Connection :
        /\ \A n1, n2 \in DOMAIN shown[c] : n1 < n2 => shown[c][n1] <= shown[c][n2]
        /\ Carries(listener[Home[c]], c) =>
              \A n \in DOMAIN shown[c] : shown[c][n] <= listener[Home[c]].frame
        /\ \A n \in DOMAIN channel[Home[c]] : Carries(channel[Home[c]][n], c) =>
              /\ \A n1 \in DOMAIN shown[c] : shown[c][n1] <= channel[Home[c]][n].frame
              /\ Carries(listener[Home[c]], c) =>
                    listener[Home[c]].frame <= channel[Home[c]][n].frame
              /\ \A n2 \in DOMAIN channel[Home[c]] :
                    n < n2 /\ Carries(channel[Home[c]][n2], c) =>
                    channel[Home[c]][n].frame <= channel[Home[c]][n2].frame

FramesInv == AddressInv /\ FrameInv /\ OrderInv

\* What a removal has still to clear is on its list.
ClearInv ==
    At("clear") => \A c \in record :
        Concerns(c) /\ subscribed[c] \in 1 .. consumer.next - 1 => c \in consumer.todo

\* Subscribed before the k-th event, on an instance that listens, and active.
Owed(c, k) ==
    /\ Open(c) /\ subscribed[c] \in 1 .. k - 1
    /\ Home[c] \in listening /\ IsActive(Principal[c])

Delivered(c, k) == k \in Told(c) \/ OnItsWay(c, k) \/ c \in resync

\* The message at hand: who is owed it is on the list, or has it.
DeliveryInv ==
    \A c \in record : Owed(c, consumer.next) =>
        /\ At("look") => c \in consumer.todo \union consumer.found
        /\ At("send") => c \in consumer.todo \/ Delivered(c, consumer.next)

RealtimeInv ==
    /\ RealtimeTypeOK /\ PlaceInv /\ HistoryInv /\ StatusInv /\ SocketInv
    /\ FramesInv
    /\ RemovalClears /\ ClearInv /\ NothingLost /\ DeliveryInv

-----------------------------------------------------------------------------
(* Types.                                                                  *)

LEMMA RealtimeTypeInit == RealtimeInit => RealtimeTypeOK
<1> SUFFICES ASSUME RealtimeInit PROVE RealtimeTypeOK
  OBVIOUS
<1>1. consumer \in Places
  BY DEF RealtimeInit, Places, Stages
<1>2. /\ <<>> \in Seq(Events) /\ <<>> \in Seq(Nat) /\ <<>> \in Seq(Notices)
      /\ Idle \in InHand
  BY EmptySeq DEF InHand
<1> QED
  BY <1>1, <1>2 DEF RealtimeInit, RealtimeTypeOK

\* What two conjuncts of Tell do to the channels.
LEMMA ToldTypes ==
  ASSUME RealtimeTypeOK, NEW notice \in Notices, NEW I \in SUBSET Instance, Tell(notice, I)
  PROVE  channel' \in [Instance -> Seq(Notices)]
  BY DEF RealtimeTypeOK, Tell

LEMMA PublishTypes ==
  ASSUME RealtimeTypeOK, NEW event \in Events, Publish(event),
         granted' \subseteq Member, leaving' \subseteq Member
  PROVE  RealtimeTypeOK'
  BY DEF RealtimeTypeOK, Publish, redis, sockets, frames, channels

LEMMA PublishingTypes == RealtimeTypeOK /\ Publishing => RealtimeTypeOK'
<1> SUFFICES ASSUME RealtimeTypeOK, Publishing PROVE RealtimeTypeOK'
  OBVIOUS
<1> USE PrincipalAssumption DEF Events, Event
<1>0. granted \subseteq Member /\ leaving \subseteq Member
  BY DEF RealtimeTypeOK
<1>1. CASE Message
  BY <1>0, <1>1, PublishTypes DEF Message
<1>2. CASE Close
  BY <1>0, <1>2, PublishTypes DEF Close
<1>3. ASSUME NEW m \in Leavers, Remove(m) PROVE RealtimeTypeOK'
  BY <1>0, <1>3, PublishTypes DEF Remove
<1>4. ASSUME NEW m \in Leavers, Depart(m) PROVE RealtimeTypeOK'
  BY <1>0, <1>4, PublishTypes DEF Depart
<1>5. ASSUME NEW m \in Leavers, Reactivate(m) PROVE RealtimeTypeOK'
  BY <1>0, <1>5, PublishTypes DEF Reactivate
<1> QED
  BY <1>1, <1>2, <1>3, <1>4, <1>5 DEF Publishing

\* Of the steps of the consumer, all change a stage or finish.
LEMMA FinishIs ==
  ASSUME consumer \in Places, Finish
  PROVE  /\ consumer' \in Places
         /\ consumer' = [next |-> consumer.next + 1, stage |-> "ready", todo |-> {}, found |-> {}]
  BY DEF Finish, Places, Stages

LEMMA ContinueIs ==
  ASSUME consumer \in Places, NEW stage \in Stages, NEW rest \in SUBSET Connection,
         NEW found \in SUBSET Connection, Continue(stage, rest, found)
  PROVE  /\ consumer' \in Places
         /\ consumer' = [next |-> consumer.next, stage |-> stage, todo |-> rest, found |-> found]
<1>1. consumer = [next |-> consumer.next, stage |-> consumer.stage, todo |-> consumer.todo,
                  found |-> consumer.found]
  BY DEF Places
<1>2. consumer' = [next |-> consumer.next, stage |-> stage, todo |-> rest, found |-> found]
  BY <1>1 DEF Continue
<1> QED
  BY <1>2 DEF Places

\* What List makes of an event, by its type.
LEMMA ListIs ==
  ASSUME consumer \in Places, record \subseteq Connection, List
  PROVE  /\ consumer' \in Places
         /\ LET rest == {c \in record : Concerns(c)} IN
            IF Current.type # "message"
            THEN consumer' = [next |-> consumer.next, stage |-> "clear", todo |-> rest,
                              found |-> {}]
            ELSE IF rest = {}
            THEN consumer' = [next |-> consumer.next + 1, stage |-> "ready", todo |-> {},
                              found |-> {}]
            ELSE consumer' = [next |-> consumer.next, stage |-> "look", todo |-> rest,
                              found |-> {}]
<1> DEFINE rest == {c \in record : Concerns(c)}
<1>1. rest \in SUBSET Connection /\ {} \in SUBSET Connection /\ {"clear", "look"} \subseteq Stages
  BY DEF Stages
<1>2. CASE Current.type # "message"
  <2>1. Continue("clear", rest, {})
    BY <1>2 DEF List
  <2> QED
    BY <1>1, <1>2, <2>1, ContinueIs
<1>3. CASE Current.type = "message" /\ rest = {}
  <2>1. Finish
    BY <1>3 DEF List
  <2> QED
    BY <1>3, <2>1, FinishIs
<1>4. CASE Current.type = "message" /\ rest # {}
  <2>1. Continue("look", rest, {})
    BY <1>4 DEF List
  <2> QED
    BY <1>1, <1>4, <2>1, ContinueIs
<1> QED
  BY <1>2, <1>3, <1>4

\* Take, by the type of the event.
LEMMA TakeIs ==
  ASSUME RealtimeTypeOK, Take
  PROVE  /\ consumer.next \in DOMAIN history /\ Current \in Events /\ At("ready")
         /\ \/ /\ Current.type = "reactivated"
               /\ status' = [status EXCEPT ![Current.member] = "ACTIVE"] /\ Finish
            \/ /\ Current.type = "departed"
               /\ status' = [status EXCEPT ![Current.member] = "GONE"]
               /\ Continue("list", {}, {})
            \/ /\ Current.type \notin {"reactivated", "departed"}
               /\ status' = status /\ List
<1>1. consumer.next \in DOMAIN history /\ Current \in Events /\ At("ready")
  BY DEF Take, RealtimeTypeOK, Places, Current
<1>2. CASE Current.type = "reactivated"
  BY <1>1, <1>2, Zenon DEF Take
<1>3. CASE Current.type = "departed"
  <2>1. Current.type # "reactivated"
    BY <1>3
  <2> QED
    BY <1>1, <1>3, <2>1, Zenon DEF Take
<1>4. CASE Current.type \notin {"reactivated", "departed"}
  <2>1. Current.type # "reactivated" /\ Current.type # "departed"
    BY <1>4
  <2> QED
    BY <1>1, <1>4, <2>1, Zenon DEF Take
<1> QED
  BY <1>2, <1>3, <1>4

\* The others change consumer to a record, or finish.
LEMMA ClearIs ==
  ASSUME RealtimeTypeOK, NEW c \in Connection, Clear(c)
  PROVE  /\ consumer' \in Places
         /\ consumer' = [next |-> consumer.next, stage |-> "clear", todo |-> consumer.todo \ {c},
                         found |-> {}]
  BY ContinueIs DEF Clear, RealtimeTypeOK, Places, Stages

Found(c) ==
    consumer.found \union (IF IsActive(Principal[c]) /\ subscribed[c] # 0 THEN {c} ELSE {})

LEMMA LookIs ==
  ASSUME RealtimeTypeOK, NEW c \in Connection, Look(c)
  PROVE  /\ consumer' \in Places
         /\ \/ /\ consumer.todo # {c}
               /\ consumer' = [next |-> consumer.next, stage |-> "look",
                               todo |-> consumer.todo \ {c}, found |-> Found(c)]
            \/ /\ consumer.todo = {c} /\ Found(c) = {}
               /\ consumer' = [next |-> consumer.next + 1, stage |-> "ready", todo |-> {},
                               found |-> {}]
            \/ /\ consumer.todo = {c} /\ Found(c) # {}
               /\ consumer' = [next |-> consumer.next, stage |-> "send", todo |-> Found(c),
                               found |-> {}]
<1>1. /\ consumer \in Places /\ {"look", "send"} \subseteq Stages
      /\ consumer.todo \ {c} \in SUBSET Connection /\ Found(c) \in SUBSET Connection
      /\ {} \in SUBSET Connection
  BY DEF RealtimeTypeOK, Places, Stages, Found
<1>2. CASE consumer.todo # {c}
  <2>1. Continue("look", consumer.todo \ {c}, Found(c))
    BY <1>2 DEF Look, Found
  <2> QED
    BY <1>1, <1>2, <2>1, ContinueIs
<1>3. CASE consumer.todo = {c} /\ Found(c) = {}
  <2>1. Finish
    BY <1>3 DEF Look, Found
  <2> QED
    BY <1>1, <1>3, <2>1, FinishIs
<1>4. CASE consumer.todo = {c} /\ Found(c) # {}
  <2>1. Continue("send", Found(c), {})
    BY <1>4 DEF Look, Found
  <2> QED
    BY <1>1, <1>4, <2>1, ContinueIs
<1> QED
  BY <1>2, <1>3, <1>4

LEMMA SendIs ==
  ASSUME RealtimeTypeOK, NEW c \in Connection, Send(c)
  PROVE  /\ consumer' \in Places
         /\ \/ /\ consumer.todo = {c}
               /\ consumer' = [next |-> consumer.next + 1, stage |-> "ready", todo |-> {},
                               found |-> {}]
            \/ /\ consumer.todo # {c}
               /\ consumer' = [next |-> consumer.next, stage |-> "send",
                               todo |-> consumer.todo \ {c}, found |-> {}]
<1>1. /\ consumer \in Places /\ "send" \in Stages
      /\ consumer.todo \ {c} \in SUBSET Connection /\ {} \in SUBSET Connection
  BY DEF RealtimeTypeOK, Places, Stages
<1>2. CASE consumer.todo = {c}
  <2>1. Finish
    BY <1>2 DEF Send
  <2> QED
    BY <1>1, <1>2, <2>1, FinishIs
<1>3. CASE consumer.todo # {c}
  <2>1. Continue("send", consumer.todo \ {c}, {})
    BY <1>3 DEF Send
  <2> QED
    BY <1>1, <1>3, <2>1, ContinueIs
<1> QED
  BY <1>2, <1>3

LEMMA ConsumeTypes == RealtimeTypeOK /\ PlaceInv /\ Consume => RealtimeTypeOK'
<1> SUFFICES ASSUME RealtimeTypeOK, PlaceInv, Consume PROVE RealtimeTypeOK'
  OBVIOUS
<1> USE DEF conversation, redis, sockets, frames, channels
<1>0. consumer \in Places /\ record \subseteq Connection /\ {} \in SUBSET Connection
  BY DEF RealtimeTypeOK
<1>1. CASE Take
  <2>1. consumer' \in Places /\ status' \in [Member -> {"ACTIVE", "GONE"}]
    <3>1. Finish => consumer' \in Places
      BY <1>0, FinishIs
    <3>2. Continue("list", {}, {}) => consumer' \in Places
      BY <1>0, ContinueIs DEF Stages
    <3>3. List => consumer' \in Places
      BY <1>0, ListIs
    <3> QED
      BY <1>1, <3>1, <3>2, <3>3, TakeIs DEF RealtimeTypeOK
  <2> QED
    BY <1>1, <2>1 DEF Take, RealtimeTypeOK
<1>2. CASE ListDeparted
  BY <1>0, <1>2, ListIs DEF ListDeparted, RealtimeTypeOK
<1>3. CASE Cleared
  <2>1. consumer' \in Places
    BY <1>0, <1>3, FinishIs DEF Cleared
  <2>2. Current \in Events
    BY <1>3 DEF Cleared, PlaceInv, At, RealtimeTypeOK, Current
  <2>3. CASE Current.type = "departed"
    <3>1. [op |-> "revoke", member |-> Current.member, to |-> 0, frame |-> 0] \in Notices
      BY <2>2, <2>3 DEF Events, Notices
    <3>2. channel' \in [Instance -> Seq(Notices)]
      BY <1>3, <2>3, <3>1, ToldTypes DEF Cleared
    <3> QED
      BY <1>3, <2>1, <3>2 DEF Cleared, RealtimeTypeOK
  <2>4. CASE Current.type # "departed"
    BY <1>3, <2>1, <2>4 DEF Cleared, RealtimeTypeOK
  <2> QED
    BY <2>3, <2>4
<1>4. ASSUME NEW c \in Connection, Clear(c) PROVE RealtimeTypeOK'
  BY <1>4, ClearIs DEF Clear, Store, RealtimeTypeOK
<1>5. ASSUME NEW c \in Connection, Look(c) PROVE RealtimeTypeOK'
  <2>1. consumer' \in Places
    BY <1>5, LookIs
  <2> QED
    BY <1>5, <2>1 DEF Look, RealtimeTypeOK
<1>6. ASSUME NEW c \in Connection, Send(c) PROVE RealtimeTypeOK'
  <2>1. [op |-> "deliver", member |-> 0, to |-> c, frame |-> consumer.next] \in Notices
    BY DEF RealtimeTypeOK, Notices, Places
  <2>2. {Home[c]} \in SUBSET Instance
    BY HomeAssumption
  <2>3. channel' \in [Instance -> Seq(Notices)]
    BY <1>6, <2>1, <2>2, ToldTypes DEF Send, RealtimeTypeOK
  <2>4. consumer' \in Places
    BY <1>6, SendIs
  <2> QED
    BY <1>6, <2>3, <2>4 DEF Send, RealtimeTypeOK
<1> QED
  BY <1>1, <1>2, <1>3, <1>4, <1>5, <1>6 DEF Consume

LEMMA StoreTypes ==
  ASSUME RealtimeTypeOK
  PROVE  /\ \A c \in Connection, n \in Nat : Store(c, n) => subscribed' \in [Connection -> Nat]
         /\ \A cs : Unrecorded(cs) =>
               record' \subseteq Connection /\ subscribed' \in [Connection -> Nat]
<1>1. ASSUME NEW c \in Connection, NEW n \in Nat, Store(c, n)
      PROVE  subscribed' \in [Connection -> Nat]
  BY <1>1 DEF RealtimeTypeOK, Store
<1>2. ASSUME NEW cs, Unrecorded(cs)
      PROVE  record' \subseteq Connection /\ subscribed' \in [Connection -> Nat]
  <2>1. \A c \in Connection : (IF c \in cs THEN 0 ELSE subscribed[c]) \in Nat
    BY DEF RealtimeTypeOK
  <2> QED
    BY <1>2, <2>1 DEF RealtimeTypeOK, Unrecorded
<1> QED
  BY <1>1, <1>2

LEMMA PutTypes ==
  ASSUME RealtimeTypeOK, NEW c \in Connection, NEW frame \in Nat, Put(c, frame)
  PROVE  resync' \subseteq Connection /\ shown' \in [Connection -> Seq(Nat)]
<1>1. CASE shown' = [shown EXCEPT ![c] = Append(@, frame)] /\ UNCHANGED resync
  BY <1>1 DEF RealtimeTypeOK
<1>2. CASE UNCHANGED shown /\ resync' \subseteq resync \union {c}
  BY <1>2 DEF RealtimeTypeOK
<1> QED
  BY <1>1, <1>2 DEF Put

LEMMA HandleTypes ==
  ASSUME RealtimeTypeOK, NEW c \in Connection, Register(c) \/ Handle(c)
  PROVE  RealtimeTypeOK'
<1> USE DEF conversation, redis, sockets, frames, channels
<1>1. CASE Register(c)
  BY <1>1 DEF Register, Recorded, RealtimeTypeOK
<1>2. ASSUME Removed(c), handler' \in [Connection -> {"idle", "subscribe", "unsubscribe", "typing",
                                  "subscribing", "unsubscribing", "broadcasting"}]
      PROVE  RealtimeTypeOK'
  BY <1>2, StoreTypes DEF Removed, RealtimeTypeOK
<1>3. ASSUME NEW op \in {"subscribe", "unsubscribe", "typing"}, Ask(c, op) PROVE RealtimeTypeOK'
  BY <1>2, <1>3 DEF Ask, RealtimeTypeOK
<1>4. ASSUME NEW op \in {"subscribe", "unsubscribe", "typing"}, Authorize(c, op)
      PROVE  RealtimeTypeOK'
  <2>1. Granted(op) \in {"subscribing", "unsubscribing", "broadcasting"}
    BY DEF Granted
  <2> QED
    BY <1>2, <1>4, <2>1 DEF Authorize, RealtimeTypeOK
<1>5. CASE Subscribe(c) \/ Unsubscribe(c)
  <2>1. consumer.next \in Nat
    BY DEF RealtimeTypeOK, Places
  <2>2. subscribed' \in [Connection -> Nat]
    BY <1>5, <2>1, StoreTypes DEF Subscribe, Unsubscribe
  <2> QED
    BY <1>5, <2>2 DEF Subscribe, Unsubscribe, RealtimeTypeOK
<1>6. CASE TypeToNobody(c)
  BY <1>2, <1>6 DEF TypeToNobody, RealtimeTypeOK
<1>7. ASSUME NEW d \in Connection, Type(c, d) PROVE RealtimeTypeOK'
  <2>1. CASE Home[d] # Home[c]
    <3>1. [op |-> "typing", member |-> 0, to |-> d, frame |-> Typing] \in Notices
      BY DEF Notices, Typing
    <3>2. {Home[d]} \in SUBSET Instance
      BY HomeAssumption
    <3>3. channel' \in [Instance -> Seq(Notices)]
      BY <1>7, <2>1, <3>1, <3>2, ToldTypes DEF Type
    <3> QED
      BY <1>7, <2>1, <3>3 DEF Type, RealtimeTypeOK
  <2>2. CASE Home[d] = Home[c]
    <3>1. CASE d \in here
      BY <1>7, <2>2, <3>1, PutTypes DEF Type, RealtimeTypeOK, Typing
    <3>2. CASE d \notin here
      BY <1>7, <2>2, <3>2 DEF Type, RealtimeTypeOK
    <3> QED
      BY <3>1, <3>2
  <2> QED
    BY <2>1, <2>2
<1> QED
  BY <1>1, <1>3, <1>4, <1>5, <1>6, <1>7 DEF Handle

\* What a listener has, by its op.
LEMMA ListenerTypes ==
  ASSUME RealtimeTypeOK, NEW i \in Instance
  PROVE  /\ listener[i] = Idle \/ listener[i].op # "none"
         /\ listener[i].op \in {"deliver", "typing", "put"} =>
               /\ listener[i] \in [op : {"deliver", "typing", "put"}, member : {0},
                                   to : Connection, frame : Nat]
               /\ listener[i].to \in Connection /\ listener[i].frame \in Nat
               /\ [listener[i] EXCEPT !.op = "put"] \in InHand
               /\ [listener[i] EXCEPT !.op = "put"].op = "put"
               /\ [listener[i] EXCEPT !.op = "put"].to = listener[i].to
               /\ [listener[i] EXCEPT !.op = "put"].frame = listener[i].frame
         /\ listener[i].op \in {"revoke", "again", "list"} =>
               /\ listener[i].member \in Member
               /\ \A op \in {"again", "list"} :
                     /\ [listener[i] EXCEPT !.op = op] \in InHand
                     /\ [listener[i] EXCEPT !.op = op].op = op
<1>1. listener[i] \in InHand
  BY DEF RealtimeTypeOK
<1> QED
  BY <1>1 DEF InHand, Notices, Idle

LEMMA ListenTypes ==
  ASSUME RealtimeTypeOK, NEW i \in Instance, Listen(i)
  PROVE  RealtimeTypeOK'
<1> USE DEF conversation, redis, sockets, frames, channels
<1>0. Idle \in InHand /\ Notices \subseteq InHand
  BY DEF InHand
<1>1. CASE Hear(i)
  <2>1. Head(channel[i]) \in Notices /\ Tail(channel[i]) \in Seq(Notices)
    BY <1>1, HeadTailProperties DEF Hear, RealtimeTypeOK
  <2> QED
    BY <1>0, <1>1, <2>1 DEF Hear, RealtimeTypeOK
<1>2. CASE Admit(i)
  <2>1. [listener[i] EXCEPT !.op = "put"] \in InHand
    BY <1>2, ListenerTypes DEF Admit
  <2> QED
    BY <1>0, <1>2, <2>1 DEF Admit, RealtimeTypeOK
<1>3. CASE Enqueue(i)
  <2>1. listener[i].to \in Connection /\ listener[i].frame \in Nat
    BY <1>3, ListenerTypes DEF Enqueue
  <2> QED
    BY <1>0, <1>3, <2>1, PutTypes DEF Enqueue, RealtimeTypeOK
<1>4. CASE Revoke(i) \/ RevokeAgain(i)
  <2>1. /\ listener[i].member \in Member
        /\ \A op \in {"again", "list"} : [listener[i] EXCEPT !.op = op] \in InHand
    BY <1>4, ListenerTypes DEF Revoke, RevokeAgain
  <2>2. CASE Revoke(i)
    BY <2>1, <2>2 DEF Revoke, RealtimeTypeOK
  <2>3. CASE RevokeAgain(i)
    BY <2>1, <2>3 DEF RevokeAgain, RealtimeTypeOK
  <2> QED
    BY <1>4, <2>2, <2>3
<1>5. CASE RevokeList(i)
  <2>1. \A rest \in SUBSET Connection : [op |-> "clear", todo |-> rest] \in InHand
    BY DEF InHand
  <2>2. {c \in record : Principal[c] = listener[i].member} \in SUBSET Connection
    BY DEF RealtimeTypeOK
  <2> QED
    BY <1>0, <1>5, <2>1, <2>2 DEF RevokeList, RealtimeTypeOK
<1>6. ASSUME NEW c \in Connection, RevokeStored(i, c) PROVE RealtimeTypeOK'
  <2>1. listener[i] \in InHand
    BY DEF RealtimeTypeOK
  <2>2. listener[i].todo \in SUBSET Connection
    BY <1>6, <2>1 DEF RevokeStored, InHand, Notices, Idle
  <2>3. [op |-> "clear", todo |-> listener[i].todo \ {c}] \in InHand
    BY <2>2 DEF InHand
  <2>4. PICK hand \in InHand : listener' = [listener EXCEPT ![i] = hand]
    <3>1. CASE listener[i].todo = {c}
      BY <1>0, <1>6, <3>1 DEF RevokeStored, RealtimeTypeOK
    <3>2. CASE listener[i].todo # {c}
      BY <1>6, <2>3, <3>2 DEF RevokeStored, RealtimeTypeOK
    <3> QED
      BY <3>1, <3>2
  <2>5. subscribed' \in [Connection -> Nat]
    BY <1>6, StoreTypes DEF RevokeStored
  <2> QED
    BY <1>6, <2>4, <2>5 DEF RevokeStored, RealtimeTypeOK
<1> QED
  BY <1>1, <1>2, <1>3, <1>4, <1>5, <1>6 DEF Listen

LEMMA FailingTypes == RealtimeTypeOK /\ Failing => RealtimeTypeOK'
<1> SUFFICES ASSUME RealtimeTypeOK, Failing PROVE RealtimeTypeOK'
  OBVIOUS
<1> USE DEF conversation, redis, sockets, frames, channels, Fault
<1>0. consumer \in Places /\ Idle \in InHand /\ "ready" \in Stages /\ {} \in SUBSET Connection
  BY DEF RealtimeTypeOK, InHand, Stages
<1>1. CASE Crash \/ Reconnect
  <2>1. consumer' \in Places
    BY <1>0, <1>1, ContinueIs DEF Crash, Reconnect
  <2> QED
    BY <1>1, <2>1, StoreTypes DEF Crash, Reconnect, RemoveInstance, RealtimeTypeOK
<1>2. ASSUME NEW c \in Connection, Disconnect(c) PROVE RealtimeTypeOK'
  BY <1>2, StoreTypes DEF Disconnect, Removed, RealtimeTypeOK
<1>5. ASSUME NEW c \in Connection, Expire(c) PROVE RealtimeTypeOK'
  BY <1>5 DEF Expire, RealtimeTypeOK
<1>3. ASSUME NEW i \in Instance, ListenerDies(i) PROVE RealtimeTypeOK'
  BY <1>0, <1>3 DEF ListenerDies, RealtimeTypeOK
<1>4. ASSUME NEW i \in Instance, Shutdown(i) \/ Die(i) PROVE RealtimeTypeOK'
  <2>1. /\ socket' \in [Connection -> {"none", "open", "closed"}] /\ here' \subseteq Connection
        /\ handler' \in [Connection -> {"idle", "subscribe", "unsubscribe", "typing",
                                       "subscribing", "unsubscribing", "broadcasting"}]
    BY <1>4 DEF Shutdown, Die, Ended, RealtimeTypeOK
  <2>2. /\ channel' \in [Instance -> Seq(Notices)] /\ listening' \subseteq Instance
        /\ listener' \in [Instance -> InHand]
    <3>1. <<>> \in Seq(Notices)
      BY EmptySeq
    <3>2. Startup(i)
      BY <1>4 DEF Shutdown, Die
    <3> QED
      BY <1>0, <3>1, <3>2 DEF Startup, RealtimeTypeOK
  <2>3. record' \subseteq Connection /\ subscribed' \in [Connection -> Nat]
    BY <1>4, StoreTypes DEF Shutdown, Die, RemoveInstance, RealtimeTypeOK
  <2> QED
    BY <1>4, <2>1, <2>2, <2>3 DEF Shutdown, Die, RealtimeTypeOK
<1> QED
  BY <1>1, <1>2, <1>3, <1>4, <1>5 DEF Failing

LEMMA RealtimeTypes == RealtimeTypeOK /\ PlaceInv /\ [RealtimeNext]_realtimeVars => RealtimeTypeOK'
<1> SUFFICES ASSUME RealtimeTypeOK, PlaceInv, [RealtimeNext]_realtimeVars PROVE RealtimeTypeOK'
  OBVIOUS
<1>1. ASSUME NEW m \in Leavers, Learn(m) PROVE RealtimeTypeOK'
  BY <1>1 DEF Learn, RealtimeTypeOK, redis, sockets, frames, channels
<1>2. CASE UNCHANGED realtimeVars
  BY <1>2 DEF realtimeVars, RealtimeTypeOK, conversation, redis, sockets, frames, channels
<1> QED
  BY <1>1, <1>2, PublishingTypes, ConsumeTypes, FailingTypes, HandleTypes, ListenTypes
     DEF RealtimeNext

-----------------------------------------------------------------------------
(* The history, the consumer's place in it and the status of the members.  *)

LEMMA PublishIs ==
  ASSUME RealtimeTypeOK, NEW event \in Events, Publish(event)
  PROVE  /\ history' = Append(history, event) /\ Len(history') = Len(history) + 1
         /\ Len(history) \in Nat /\ DOMAIN history = 1 .. Len(history)
         /\ DOMAIN history' = 1 .. Len(history) + 1
         /\ \A k \in 1 .. Len(history) : history'[k] = history[k]
         /\ history'[Len(history) + 1] = event
         /\ UNCHANGED <<consumer, record, subscribed, status, socket, here, handler, resync, shown,
                        channel, listening, listener>>
  BY DEF Publish, RealtimeTypeOK, redis, sockets, frames, channels

\* What is published comes after everything one can ask about.
LEMMA PublishGone ==
  ASSUME RealtimeTypeOK, NEW event \in Events, Publish(event)
  PROVE  \A m : \A k \in 0 .. Len(history) + 1 : Gone(m, k)' <=> Gone(m, k)
<1> SUFFICES ASSUME NEW m, NEW k \in 0 .. Len(history) + 1 PROVE Gone(m, k)' <=> Gone(m, k)
  OBVIOUS
<1>1. \A j \in 1 .. k - 1 : history'[j] = history[j]
  BY PublishIs
<1> QED
  BY <1>1 DEF Gone

\* Every event that is published is one, and who is reactivated is gone.
LEMMA PublishingIs ==
  ASSUME RealtimeTypeOK, Publishing
  PROVE  \E event \in Events :
            Publish(event) /\ (event.type = "reactivated" => Gone(event.member, Len(history) + 1))
<1> USE PrincipalAssumption DEF Events, Event
<1>1. CASE Message \/ Close
  BY <1>1 DEF Message, Close
<1>2. ASSUME NEW m \in Leavers, Remove(m) \/ Depart(m) \/ Reactivate(m)
      PROVE  \E event \in Events :
            Publish(event) /\ (event.type = "reactivated" => Gone(event.member, Len(history) + 1))
  <2>1. CASE Remove(m)
    BY <2>1 DEF Remove
  <2>2. CASE Depart(m)
    BY <2>2 DEF Depart
  <2>3. CASE Reactivate(m)
    BY <2>3 DEF Reactivate
  <2> QED
    BY <1>2, <2>1, <2>2, <2>3
<1> QED
  BY <1>1, <1>2 DEF Publishing

LEMMA OtherSteps ==
  RealtimeNext =>
     Publishing \/ Consume \/ Crash \/ Reconnect \/ UNCHANGED <<history, consumer>>
<1> SUFFICES ASSUME RealtimeNext
             PROVE  Publishing \/ Consume \/ Crash \/ Reconnect \/ UNCHANGED <<history, consumer>>
  OBVIOUS
<1> USE DEF conversation
<1>1. ASSUME NEW m \in Leavers, Learn(m) PROVE UNCHANGED <<history, consumer>>
  BY <1>1 DEF Learn
<1>2. ASSUME NEW c \in Connection, Register(c) \/ Handle(c) PROVE UNCHANGED <<history, consumer>>
  BY <1>2 DEF Register, Handle, Ask, Authorize, Removed, Subscribe, Unsubscribe, TypeToNobody, Type
<1>3. ASSUME NEW i \in Instance, Listen(i) PROVE UNCHANGED <<history, consumer>>
  BY <1>3 DEF Listen, Hear, Admit, Enqueue, Revoke, RevokeAgain, RevokeList, RevokeStored
<1>4. ASSUME NEW c \in Connection, Disconnect(c) \/ Expire(c)
      PROVE  UNCHANGED <<history, consumer>>
  BY <1>4 DEF Disconnect, Removed, Expire
<1>5. ASSUME NEW i \in Instance, ListenerDies(i) \/ Shutdown(i) \/ Die(i)
      PROVE  UNCHANGED <<history, consumer>>
  BY <1>5 DEF ListenerDies, Shutdown, Die
<1> QED
  BY <1>1, <1>2, <1>3, <1>4, <1>5 DEF RealtimeNext, Failing

\* A step of the consumer goes to another stage of its event, or finishes it.
LEMMA ConsumeIs ==
  ASSUME RealtimeTypeOK, PlaceInv, Consume
  PROVE  /\ history' = history /\ consumer' \in Places /\ consumer.next \in DOMAIN history
         /\ Current \in Events
         /\ \/ /\ consumer'.next = consumer.next /\ consumer'.stage = "list"
               /\ Current.type = "departed" /\ Take
            \/ /\ consumer'.next = consumer.next /\ consumer'.stage = "clear"
               /\ Current.type \in {"removed", "closed", "departed"}
               /\ Take => Current.type # "departed"
            \/ /\ consumer'.next = consumer.next /\ consumer'.stage \in {"look", "send"}
               /\ Current.type = "message"
            \/ /\ consumer'.next = consumer.next + 1 /\ consumer'.stage = "ready"
               /\ Current.type = "departed" => At("clear")
<1> USE DEF conversation
<1>0. consumer \in Places /\ record \subseteq Connection /\ "list" \in Stages
  BY DEF RealtimeTypeOK, Stages
<1>1. CASE Take
  <2>1. consumer.next \in DOMAIN history /\ Current \in Events /\ At("ready")
    BY <1>1, TakeIs
  <2>2. CASE Current.type = "reactivated"
    BY <1>0, <1>1, <2>1, <2>2, TakeIs, FinishIs DEF Take
  <2>3. CASE Current.type = "departed"
    BY <1>0, <1>1, <2>1, <2>3, TakeIs, ContinueIs DEF Take
  <2>4. CASE Current.type \notin {"reactivated", "departed"}
    <3>1. List
      BY <1>1, <2>4, TakeIs
    <3>2. Current.type \in {"message", "removed", "closed"}
      BY <2>1, <2>4 DEF Events
    <3> QED
      BY <1>0, <1>1, <2>1, <3>1, <3>2, ListIs DEF Take
  <2> QED
    BY <2>2, <2>3, <2>4
<1>2. CASE ~At("ready")
  <2>1. consumer.next \in DOMAIN history /\ Current \in Events
    BY <1>2 DEF PlaceInv, RealtimeTypeOK, Current
  <2>2. CASE ListDeparted
    <3>1. Current.type = "departed" /\ ~Take
      BY <2>2, <1>2 DEF ListDeparted, PlaceInv, Take
    <3> QED
      BY <1>0, <2>1, <2>2, <3>1, ListIs DEF ListDeparted
  <2>3. CASE Cleared
    <3>1. consumer' \in Places /\ consumer'.next = consumer.next + 1 /\ consumer'.stage = "ready"
      BY <1>0, <2>3, FinishIs DEF Cleared
    <3> QED
      BY <2>1, <2>3, <3>1 DEF Cleared
  <2>4. ASSUME NEW c \in Connection, Clear(c)
        PROVE  /\ history' = history /\ consumer' \in Places
               /\ consumer'.next = consumer.next /\ consumer'.stage = "clear"
               /\ Current.type \in {"removed", "closed", "departed"} /\ ~Take
    <3>1. Current.type \in {"removed", "closed", "departed"} /\ ~Take
      BY <2>4, <1>2 DEF Clear, PlaceInv, Take
    <3> QED
      BY <2>4, <3>1, ClearIs DEF Clear
  <2>5. ASSUME NEW c \in Connection, Look(c)
        PROVE  /\ history' = history /\ consumer' \in Places /\ Current.type = "message"
               /\ \/ consumer'.next = consumer.next /\ consumer'.stage \in {"look", "send"}
                  \/ consumer'.next = consumer.next + 1 /\ consumer'.stage = "ready"
    <3>1. Current.type = "message"
      BY <2>5 DEF Look, PlaceInv
    <3>2. history' = history
      BY <2>5 DEF Look
    <3> QED
      BY <2>5, <3>1, <3>2, LookIs
  <2>6. ASSUME NEW c \in Connection, Send(c)
        PROVE  /\ history' = history /\ consumer' \in Places /\ Current.type = "message"
               /\ \/ consumer'.next = consumer.next /\ consumer'.stage \in {"look", "send"}
                  \/ consumer'.next = consumer.next + 1 /\ consumer'.stage = "ready"
    <3>1. Current.type = "message"
      BY <2>6 DEF Send, PlaceInv
    <3> QED
      BY <2>6, <3>1, SendIs DEF Send
  <2> QED
    BY <1>2, <2>1, <2>2, <2>3, <2>4, <2>5, <2>6 DEF Consume, Take
<1>3. At("ready") => Take
  BY DEF Consume, At, ListDeparted, Cleared, Clear, Look, Send
<1> QED
  BY <1>1, <1>2, <1>3

LEMMA BackIs ==
  ASSUME RealtimeTypeOK, Crash \/ Reconnect
  PROVE  /\ history' = history
         /\ consumer' = [next |-> consumer.next, stage |-> "ready", todo |-> {}, found |-> {}]
         /\ UNCHANGED <<status, socket, handler, resync, shown, channel, listening, listener>>
         /\ \/ UNCHANGED <<record, subscribed>>
            \/ RemoveInstance(ConsumerId)
  BY ContinueIs DEF Crash, Reconnect, RealtimeTypeOK, Stages, conversation, redis, sockets, frames,
                    channels

LEMMA PlaceKept == RealtimeTypeOK /\ PlaceInv /\ RealtimeNext => PlaceInv'
<1> SUFFICES ASSUME RealtimeTypeOK, PlaceInv, RealtimeNext PROVE PlaceInv'
  OBVIOUS
<1>0. consumer.next \in 1 .. Len(history) + 1 /\ Len(history) \in Nat
  BY DEF PlaceInv, RealtimeTypeOK
<1>1. CASE Publishing
  <2>1. PICK event \in Events : Publish(event)
    BY <1>1, PublishingIs
  <2>2. ~At("ready") => history'[consumer.next] = history[consumer.next]
    BY <1>0, <2>1, PublishIs DEF PlaceInv
  <2> QED
    BY <1>0, <2>1, <2>2, PublishIs DEF PlaceInv, At, Current
<1>2. CASE Consume
  <2>1. DOMAIN history = 1 .. Len(history)
    BY DEF RealtimeTypeOK
  <2> QED
    BY <1>0, <1>2, <2>1, ConsumeIs DEF PlaceInv, At, Current
<1>3. CASE Crash \/ Reconnect
  BY <1>3, BackIs DEF PlaceInv, At
<1>4. CASE UNCHANGED <<history, consumer>>
  BY <1>4 DEF PlaceInv, At, Current
<1> QED
  BY <1>1, <1>2, <1>3, <1>4, OtherSteps

LEMMA HistoryKept == RealtimeTypeOK /\ PlaceInv /\ HistoryInv /\ RealtimeNext => HistoryInv'
<1> SUFFICES ASSUME RealtimeTypeOK, PlaceInv, HistoryInv, RealtimeNext PROVE HistoryInv'
  OBVIOUS
<1>1. CASE Publishing
  <2>1. PICK event \in Events :
            Publish(event) /\ (event.type = "reactivated" => Gone(event.member, Len(history) + 1))
    BY <1>1, PublishingIs
  <2> QED
    BY <2>1, PublishIs, PublishGone DEF HistoryInv
<1>2. CASE history' = history
  BY <1>2 DEF HistoryInv, Gone
<1>3. Consume \/ Crash \/ Reconnect \/ UNCHANGED <<history, consumer>> => history' = history
  BY ConsumeIs, BackIs
<1> QED
  BY <1>1, <1>2, <1>3, OtherSteps

\* Only the consumer makes a member active.
LEMMA StatusSteps ==
  ASSUME RealtimeTypeOK, RealtimeNext
  PROVE  Take \/ \A m \in Member : status'[m] \in {status[m], "GONE"}
<1> USE DEF redis
<1>1. CASE Publishing
  <2>1. PICK event \in Events : Publish(event)
    BY <1>1, PublishingIs
  <2> QED
    BY <2>1, PublishIs
<1>2. CASE Consume
  <2>1. Take \/ status' = status
    BY <1>2 DEF Consume, ListDeparted, Cleared, Clear, Look, Send
  <2> QED
    BY <2>1
<1>3. CASE Failing
  <2>1. status' = status
    BY <1>3 DEF Failing, Crash, Reconnect, Disconnect, Removed, Expire, ListenerDies, Shutdown, Die
  <2> QED
    BY <2>1
<1>4. ASSUME NEW m \in Leavers, Learn(m) PROVE status' = status
  BY <1>4 DEF Learn
<1>5. ASSUME NEW c \in Connection, Register(c) \/ Handle(c) PROVE status' = status
  BY <1>5 DEF Register, Handle, Ask, Authorize, Removed, Subscribe, Unsubscribe, TypeToNobody, Type
<1>6. ASSUME NEW i \in Instance, Listen(i) PROVE \A m \in Member : status'[m] \in {status[m], "GONE"}
  <2>1. CASE Revoke(i) \/ RevokeAgain(i)
    BY <2>1 DEF Revoke, RevokeAgain, RealtimeTypeOK
  <2>2. CASE ~Revoke(i) /\ ~RevokeAgain(i)
    BY <1>6, <2>2 DEF Listen, Hear, Admit, Enqueue, RevokeList, RevokeStored
  <2> QED
    BY <2>1, <2>2
<1> QED
  BY <1>1, <1>2, <1>3, <1>4, <1>5, <1>6 DEF RealtimeNext

\* Who is gone after an event was gone before it and not reactivated by it, or departed with it.
LEMMA GoneNext ==
  ASSUME RealtimeTypeOK, consumer.next \in DOMAIN history, NEW m, Gone(m, consumer.next + 1)
  PROVE  \/ Gone(m, consumer.next) /\ Current # Event("reactivated", m)
         \/ Current = Event("departed", m)
<1>1. consumer.next \in Nat /\ consumer.next + 1 - 1 = consumer.next
  BY DEF RealtimeTypeOK, Places
<1>2. PICK i \in 1 .. consumer.next :
        /\ history[i] = Event("departed", m)
        /\ \A j \in i + 1 .. consumer.next : history[j] # Event("reactivated", m)
  BY <1>1 DEF Gone
<1>3. CASE i = consumer.next
  BY <1>2, <1>3 DEF Current
<1>4. CASE i # consumer.next
  <2>1. i \in 1 .. consumer.next - 1 /\ consumer.next \in i + 1 .. consumer.next
    BY <1>1, <1>2, <1>4
  <2>2. \A j \in i + 1 .. consumer.next - 1 : j \in i + 1 .. consumer.next
    BY <1>1, <1>2
  <2> QED
    BY <1>2, <2>1, <2>2 DEF Current, Gone
<1> QED
  BY <1>3, <1>4

LEMMA StatusKept ==
  RealtimeTypeOK /\ PlaceInv /\ StatusInv /\ RealtimeNext => StatusInv'
<1> SUFFICES ASSUME RealtimeTypeOK, PlaceInv, StatusInv, RealtimeNext PROVE StatusInv'
  OBVIOUS
<1>0. /\ consumer.next \in 1 .. Len(history) + 1 /\ Len(history) \in Nat
      /\ status' \in [Member -> {"ACTIVE", "GONE"}]
  BY RealtimeTypes DEF PlaceInv, RealtimeTypeOK
<1>1. ASSUME consumer' = consumer, Publishing \/ history' = history,
             \A m \in Member : status'[m] \in {status[m], "GONE"}
      PROVE  StatusInv'
  <2>1. \A m : Gone(m, consumer.next)' <=> Gone(m, consumer.next)
    <3>1. CASE Publishing
      BY <1>0, <1>1, <3>1, PublishingIs, PublishGone
    <3>2. CASE history' = history
      BY <1>1, <3>2 DEF Gone
    <3> QED
      BY <1>1, <3>1, <3>2
  <2>2. ~At("ready") => Current' = Current /\ Current \in Events
    <3>1. ~At("ready") => consumer.next \in 1 .. Len(history)
      BY <1>0 DEF PlaceInv
    <3>2. CASE Publishing
      <4>1. PICK event \in Events : Publish(event)
        BY <3>2, PublishingIs
      <4> QED
        BY <1>1, <3>1, <4>1, PublishIs DEF Current, RealtimeTypeOK
    <3>3. CASE history' = history
      BY <1>1, <3>1, <3>3 DEF Current, RealtimeTypeOK
    <3> QED
      BY <1>1, <3>2, <3>3
  <2>3. ~At("ready") /\ Current.type = "departed" => Current.member \in Member
    BY <2>2 DEF Events
  <2>4. At("ready") => ~At("list") /\ ~At("clear")
    BY DEF At
  <2> QED
    BY <1>1, <2>1, <2>2, <2>3, <2>4 DEF StatusInv, At
<1>2. CASE Take
  <2>1. /\ consumer.next \in DOMAIN history /\ Current \in Events /\ history' = history
        /\ consumer.next \in Nat /\ DOMAIN status = Member
    BY <1>2, TakeIs DEF Take, conversation, RealtimeTypeOK, Places
  <2>2. CASE Current.type = "reactivated"
    <3>1. /\ status' = [status EXCEPT ![Current.member] = "ACTIVE"]
          /\ consumer'.next = consumer.next + 1 /\ consumer'.stage = "ready"
      BY <1>2, <2>2, TakeIs, FinishIs DEF RealtimeTypeOK
    <3>2. Current = Event("reactivated", Current.member)
      BY <2>1, <2>2 DEF Events, Event
    <3>3. ASSUME NEW m \in Member, Gone(m, consumer.next + 1) PROVE status'[m] = "GONE"
      <4>1. Gone(m, consumer.next) /\ m # Current.member
        BY <2>1, <2>2, <3>2, <3>3, GoneNext DEF Event
      <4> QED
        BY <2>1, <3>1, <4>1 DEF StatusInv
    <3>4. \A m : Gone(m, consumer.next)' <=> Gone(m, consumer.next + 1)
      BY <2>1, <3>1 DEF Gone
    <3> QED
      BY <3>1, <3>3, <3>4 DEF StatusInv, At
  <2>3. CASE Current.type = "departed"
    <3>0. /\ status' = [status EXCEPT ![Current.member] = "GONE"]
          /\ Continue("list", {}, {})
      BY <1>2, <2>3, TakeIs
    <3>1. consumer'.next = consumer.next
      BY <3>0 DEF Continue, RealtimeTypeOK, Places
    <3>2. Current.member \in Member
      BY <2>1, <2>3 DEF Events
    <3> QED
      BY <2>1, <3>0, <3>1, <3>2 DEF StatusInv, Current, Gone
  <2>4. CASE Current.type \notin {"reactivated", "departed"}
    <3>1. status' = status /\ List
      BY <1>2, <2>4, TakeIs
    <3>2. \/ consumer'.next = consumer.next
          \/ consumer'.next = consumer.next + 1 /\ consumer'.stage = "ready"
      <4>1. Consume
        BY <1>2 DEF Consume
      <4> QED
        BY <4>1, ConsumeIs
    <3>3. \A m : Gone(m, consumer.next + 1) => Gone(m, consumer.next)
      BY <2>1, <2>4, GoneNext DEF Event
    <3>4. \A m : Gone(m, consumer.next)' => Gone(m, consumer.next)
      BY <2>1, <3>2, <3>3 DEF Gone
    <3>5. At("list")' \/ At("clear")' => Current' = Current
      BY <2>1, <3>2 DEF At, Current
    <3> QED
      BY <2>4, <3>1, <3>4, <3>5 DEF StatusInv
  <2> QED
    BY <2>2, <2>3, <2>4
<1>3. CASE Consume /\ ~Take
  <2>1. /\ history' = history /\ consumer.next \in DOMAIN history /\ Current \in Events
        /\ \A m \in Member : status'[m] \in {status[m], "GONE"} /\ consumer.next \in Nat
    BY <1>3, ConsumeIs, StatusSteps DEF RealtimeTypeOK, Places
  <2>2. CASE consumer'.next = consumer.next
    <3>1. (\A m : Gone(m, consumer.next)' <=> Gone(m, consumer.next)) /\ Current' = Current
      BY <2>1, <2>2 DEF Gone, Current
    <3>2. Current.type = "departed" => Current.member \in Member
      BY <2>1 DEF Events
    <3>3. At("clear")' \/ At("list")' => Current.type # "departed" \/ At("clear") \/ At("list")
      <4>1. ListDeparted => At("list")
        BY DEF ListDeparted
      <4>2. \A c \in Connection : Clear(c) => At("clear")
        BY DEF Clear
      <4>3. Cleared => consumer'.stage = "ready"
        BY FinishIs DEF Cleared, RealtimeTypeOK
      <4>4. \A c \in Connection : Look(c) \/ Send(c) => Current.type = "message"
        BY DEF Look, Send, PlaceInv
      <4> QED
        BY <1>3, <4>1, <4>2, <4>3, <4>4 DEF Consume, At
    <3> QED
      BY <2>1, <3>1, <3>2, <3>3 DEF StatusInv
  <2>3. CASE consumer'.next = consumer.next + 1 /\ consumer'.stage = "ready"
    <3>1. Current.type = "departed" => At("clear")
      BY <1>3, <2>1, <2>3, ConsumeIs
    <3>2. ASSUME NEW m \in Member, Gone(m, consumer.next + 1) PROVE status[m] = "GONE"
      <4>1. CASE Gone(m, consumer.next)
        BY <4>1 DEF StatusInv
      <4>2. CASE Current = Event("departed", m)
        BY <3>1, <4>2 DEF StatusInv, Event
      <4> QED
        BY <2>1, <3>2, <4>1, <4>2, GoneNext
    <3>3. \A m : Gone(m, consumer.next)' <=> Gone(m, consumer.next + 1)
      BY <2>1, <2>3 DEF Gone
    <3> QED
      BY <2>1, <2>3, <3>2, <3>3 DEF StatusInv, At
  <2> QED
    BY <1>3, <2>2, <2>3, ConsumeIs
<1>4. CASE Crash \/ Reconnect
  BY <1>4, BackIs DEF StatusInv, At, Gone
<1>5. CASE Publishing
  BY <1>1, <1>5, PublishingIs, PublishIs
<1>6. CASE UNCHANGED <<history, consumer>> /\ ~Take
  BY <1>1, <1>6, StatusSteps
<1> QED
  BY <1>2, <1>3, <1>4, <1>5, <1>6, OtherSteps

LEMMA SocketKept == RealtimeTypeOK /\ PlaceInv /\ SocketInv /\ RealtimeNext => SocketInv'
<1> SUFFICES ASSUME RealtimeTypeOK, PlaceInv, SocketInv, RealtimeNext PROVE SocketInv'
  OBVIOUS
<1> USE DEF redis, sockets
<1>0. \A c \in Connection : socket[c] \in {"none", "open", "closed"}
  BY DEF RealtimeTypeOK
<1>1. ASSUME UNCHANGED <<socket, handler>>,
             \A c \in Connection : subscribed'[c] \in {subscribed[c], 0}
      PROVE  SocketInv'
  BY <1>1 DEF SocketInv
<1>2. ASSUME NEW cs, Unrecorded(cs) PROVE \A c \in Connection : subscribed'[c] \in {subscribed[c], 0}
  BY <1>2 DEF Unrecorded
<1>3. ASSUME NEW c \in Connection, Store(c, 0)
      PROVE  \A d \in Connection : subscribed'[d] \in {subscribed[d], 0}
  BY <1>3 DEF Store, RealtimeTypeOK
<1>4. CASE Publishing
  BY <1>1, <1>4, PublishingIs, PublishIs
<1>5. CASE Consume
  <2>1. ASSUME NEW c \in Connection, Clear(c) PROVE SocketInv'
    BY <1>1, <1>3, <2>1 DEF Clear
  <2>2. CASE UNCHANGED <<socket, handler, subscribed>>
    BY <1>1, <2>2
  <2>3. Take \/ ListDeparted \/ Cleared => UNCHANGED <<socket, handler, subscribed>>
    BY DEF Take, ListDeparted, Cleared
  <2>4. \A c \in Connection : Look(c) \/ Send(c) => UNCHANGED <<socket, handler, subscribed>>
    BY DEF Look, Send
  <2> QED
    BY <1>5, <2>1, <2>2, <2>3, <2>4 DEF Consume
<1>6. CASE Crash \/ Reconnect
  BY <1>1, <1>2, <1>6, BackIs DEF RemoveInstance
<1>7. ASSUME NEW c \in Connection, Removed(c), UNCHANGED handler PROVE SocketInv'
  <2>1. \A d \in Connection : subscribed'[d] \in {subscribed[d], 0}
    BY <1>2, <1>7 DEF Removed
  <2> QED
    BY <1>0, <1>7, <2>1 DEF Removed, SocketInv, RealtimeTypeOK
<1>8. ASSUME NEW c \in Connection, Disconnect(c) \/ Expire(c) PROVE SocketInv'
  BY <1>1, <1>7, <1>8 DEF Disconnect, Expire
<1>9. ASSUME NEW i \in Instance, ListenerDies(i) PROVE SocketInv'
  BY <1>1, <1>9 DEF ListenerDies
<1>10. ASSUME NEW i \in Instance, Shutdown(i) \/ Die(i) PROVE SocketInv'
  <2>1. \A c \in Connection : subscribed'[c] \in {subscribed[c], 0}
    BY <1>2, <1>10 DEF Shutdown, RemoveInstance, Die
  <2>2. \A c \in Connection : /\ socket'[c] = "none" => socket[c] = "none"
                              /\ handler'[c] \in {handler[c], "idle"}
    BY <1>0, <1>10 DEF Shutdown, Die, Ended
  <2> QED
    BY <2>1, <2>2 DEF SocketInv
<1>11. ASSUME NEW m \in Leavers, Learn(m) PROVE SocketInv'
  BY <1>1, <1>11 DEF Learn
<1>12. ASSUME NEW c \in Connection, Register(c) PROVE SocketInv'
  BY <1>12 DEF Register, SocketInv, RealtimeTypeOK
<1>13. ASSUME NEW c \in Connection, Handle(c) PROVE SocketInv'
  <2>1. ASSUME NEW op \in {"subscribe", "unsubscribe", "typing"}, Ask(c, op) PROVE SocketInv'
    <3>1. CASE UNCHANGED <<subscribed, socket>> /\ handler' = [handler EXCEPT ![c] = op]
      BY <2>1, <3>1 DEF Ask, Open, SocketInv, RealtimeTypeOK
    <3>2. CASE Removed(c) /\ UNCHANGED handler
      BY <1>7, <3>2
    <3> QED
      BY <2>1, <3>1, <3>2 DEF Ask
  <2>2. socket[c] # "none" \/ handler[c] = "idle"
    BY DEF SocketInv
  <2>3. ASSUME UNCHANGED <<subscribed, socket>>, NEW h, handler' = [handler EXCEPT ![c] = h],
               handler[c] # "idle"
        PROVE  SocketInv'
    BY <2>2, <2>3 DEF SocketInv, RealtimeTypeOK
  <2>4. ASSUME Removed(c), \A d \in Connection : handler'[d] \in {handler[d], "idle"}
        PROVE  SocketInv'
    <3>1. \A d \in Connection : subscribed'[d] \in {subscribed[d], 0}
      BY <1>2, <2>4 DEF Removed
    <3> QED
      BY <1>0, <2>4, <3>1 DEF Removed, SocketInv, RealtimeTypeOK
  <2>5. \A h : handler' = [handler EXCEPT ![c] = h] =>
           \A d \in Connection : handler'[d] \in {handler[d], h}
    BY DEF RealtimeTypeOK
  <2>6. ASSUME NEW op \in {"subscribe", "unsubscribe", "typing"}, Authorize(c, op) PROVE SocketInv'
    BY <2>3, <2>4, <2>5, <2>6 DEF Authorize
  <2>7. ASSUME NEW n, Store(c, n), UNCHANGED socket, handler' = [handler EXCEPT ![c] = "idle"],
               handler[c] # "idle"
        PROVE  SocketInv'
    BY <2>2, <2>7 DEF Store, SocketInv, RealtimeTypeOK
  <2>8. CASE Subscribe(c) \/ Unsubscribe(c)
    BY <2>7, <2>8 DEF Subscribe, Unsubscribe, Granted
  <2>9. CASE TypeToNobody(c)
    BY <2>3, <2>4, <2>5, <2>9 DEF TypeToNobody, Granted
  <2>10. ASSUME NEW d \in Connection, Type(c, d) PROVE SocketInv'
    BY <2>3, <2>10 DEF Type, Granted
  <2> QED
    BY <1>13, <2>1, <2>6, <2>8, <2>9, <2>10 DEF Handle
<1>14. ASSUME NEW i \in Instance, Listen(i) PROVE SocketInv'
  <2>1. UNCHANGED <<socket, handler>>
    BY <1>14 DEF Listen, Hear, Admit, Enqueue, Revoke, RevokeAgain, RevokeList, RevokeStored
  <2>2. ASSUME NEW c \in Connection, RevokeStored(i, c) PROVE SocketInv'
    BY <1>1, <1>3, <2>1, <2>2 DEF RevokeStored
  <2>3. CASE UNCHANGED subscribed
    BY <1>1, <2>1, <2>3
  <2>4. Hear(i) \/ Admit(i) \/ Enqueue(i) \/ Revoke(i) \/ RevokeAgain(i) \/ RevokeList(i) => UNCHANGED subscribed
    BY DEF Hear, Admit, Enqueue, Revoke, RevokeAgain, RevokeList
  <2> QED
    BY <1>14, <2>2, <2>3, <2>4 DEF Listen
<1> QED
  BY <1>4, <1>5, <1>6, <1>8, <1>9, <1>10, <1>11, <1>12, <1>13, <1>14 DEF RealtimeNext, Failing

-----------------------------------------------------------------------------
(* Frames: whose they are, and their order.                                *)

LEMMA SentKept ==
  ASSUME RealtimeTypeOK, PlaceInv, RealtimeNext
  PROVE  \A c \in Connection, k \in Nat : Sent(c, k) => Sent(c, k)'
<1> SUFFICES ASSUME NEW c \in Connection, NEW k \in Nat, Sent(c, k) PROVE Sent(c, k)'
  OBVIOUS
<1>0. k <= consumer.next /\ consumer.next \in Nat /\ consumer.next <= Len(history) + 1
      /\ Len(history) \in Nat
  BY DEF Sent, RealtimeTypeOK, Places, PlaceInv
<1>1. CASE Publishing
  <2>1. PICK event \in Events : Publish(event)
    BY <1>1, PublishingIs
  <2>2. k \in 0 .. Len(history) + 1
    BY <1>0
  <2>3. consumer' = consumer
    BY <2>1, PublishIs
  <2> QED
    BY <2>1, <2>2, <2>3, PublishGone DEF Sent
<1>2. CASE history' = history /\ consumer'.next >= consumer.next /\ consumer'.next \in Nat
  BY <1>0, <1>2 DEF Sent, Gone
<1>3. Consume \/ Crash \/ Reconnect \/ UNCHANGED <<history, consumer>> =>
         history' = history /\ consumer'.next >= consumer.next /\ consumer'.next \in Nat
  BY <1>0, ConsumeIs, BackIs
<1> QED
  BY <1>1, <1>2, <1>3, OtherSteps

LEMMA CarryTypes ==
  ASSUME RealtimeTypeOK, NEW i \in Instance
  PROVE  /\ \A c : Carries(listener[i], c) => listener[i].frame \in Nat /\ c \in Connection
         /\ channel[i] \in Seq(Notices)
         /\ Len(channel[i]) \in Nat /\ DOMAIN channel[i] = 1 .. Len(channel[i])
         /\ \A n \in DOMAIN channel[i] :
               /\ channel[i][n] \in Notices
               /\ \A c : Carries(channel[i][n], c) => channel[i][n].frame \in Nat /\ c \in Connection
<1>1. channel[i] \in Seq(Notices)
  BY DEF RealtimeTypeOK
<1>2. \A n \in DOMAIN channel[i] : channel[i][n] \in Notices
  BY <1>1
<1>3. \A notice \in Notices : \A c : Carries(notice, c) => notice.frame \in Nat /\ c \in Connection
  BY DEF Notices, Carries
<1>4. \A c : Carries(listener[i], c) => listener[i].frame \in Nat /\ c \in Connection
  BY ListenerTypes DEF Carries
<1>5. Len(channel[i]) \in Nat /\ DOMAIN channel[i] = 1 .. Len(channel[i])
  BY <1>1
<1> QED
  BY <1>1, <1>2, <1>3, <1>4, <1>5

LEMMA FramesInit == RealtimeInit => FramesInv
<1> SUFFICES ASSUME RealtimeInit PROVE FramesInv
  OBVIOUS
<1>1. /\ \A c \in Connection : DOMAIN shown[c] = {}
      /\ \A i \in Instance : DOMAIN channel[i] = {} /\ listener[i].op = "none"
  BY DEF RealtimeInit, Idle
<1>2. \A c \in Connection : Home[c] \in Instance
  BY HomeAssumption
<1> QED
  BY <1>1, <1>2 DEF FramesInv, AddressInv, FrameInv, OrderInv, Carries

\* Of the listeners and the channels, a step may leave what carries a message, or drop it.
LEMMA HandsKeep ==
  ASSUME RealtimeTypeOK, PlaceInv, RealtimeNext, FramesInv,
         UNCHANGED <<shown, channel>>,
         \A i \in Instance :
            /\ listener'[i].op \in {"deliver", "typing", "put"} =>
                  Home[listener'[i].to] = i /\ (listener'[i].op = "typing" => listener'[i] = listener[i])
            /\ \A c \in Connection : Carries(listener'[i], c) =>
                  Carries(listener[i], c) /\ listener'[i].frame = listener[i].frame
  PROVE  FramesInv'
<1>1. \A c \in Connection : Home[c] \in Instance
  BY HomeAssumption
<1>2. AddressInv'
  BY DEF FramesInv, AddressInv
<1>3. FrameInv'
  <2>1. \A c \in Connection : \A n \in DOMAIN shown[c] : shown[c][n] \in Nat
    BY DEF RealtimeTypeOK
  <2> SUFFICES ASSUME NEW c \in Connection
               PROVE  /\ \A n \in DOMAIN shown[c] : Sent(c, shown[c][n])'
                      /\ Carries(listener[Home[c]], c)' => Sent(c, listener[Home[c]].frame)'
                      /\ \A n \in DOMAIN channel[Home[c]] :
                          Carries(channel[Home[c]][n], c)' => Sent(c, channel[Home[c]][n].frame)'
    BY DEF FrameInv
  <2>2. \A n \in DOMAIN shown[c] : Sent(c, shown[c][n])'
    <3>1. \A n \in DOMAIN shown[c] : Sent(c, shown[c][n])
      BY DEF FramesInv, FrameInv
    <3> QED
      BY <2>1, <3>1, SentKept DEF Sent
  <2>3. Carries(listener[Home[c]], c)' => Sent(c, listener[Home[c]].frame)'
    <3>1. Carries(listener'[Home[c]], c) =>
             /\ listener'[Home[c]].frame = listener[Home[c]].frame
             /\ listener[Home[c]].frame \in Nat
             /\ Sent(c, listener[Home[c]].frame)
      BY <1>1, CarryTypes DEF FramesInv, FrameInv
    <3> QED
      BY <3>1, SentKept DEF Sent, Carries
  <2>4. \A n \in DOMAIN channel[Home[c]] :
           Carries(channel[Home[c]][n], c)' => Sent(c, channel[Home[c]][n].frame)'
    <3>1. \A n \in DOMAIN channel[Home[c]] : Carries(channel[Home[c]][n], c) =>
             channel[Home[c]][n].frame \in Nat /\ Sent(c, channel[Home[c]][n].frame)
      BY <1>1, CarryTypes DEF FramesInv, FrameInv
    <3> QED
      BY <3>1, SentKept DEF Sent, Carries
  <2> QED
    BY <2>2, <2>3, <2>4
<1>4. OrderInv'
  BY <1>1 DEF FramesInv, OrderInv, Carries
<1> QED
  BY <1>2, <1>3, <1>4 DEF FramesInv

LEMMA FramesKeep ==
  ASSUME RealtimeTypeOK, PlaceInv, RealtimeNext, FramesInv, UNCHANGED <<shown, channel, listener>>
  PROVE  FramesInv'
  BY HandsKeep DEF FramesInv, AddressInv, Carries

\* A notice that is published comes after all that are on their way.
LEMMA TellKeeps ==
  ASSUME RealtimeTypeOK, PlaceInv, RealtimeNext, FramesInv, UNCHANGED <<shown, listener>>,
         NEW notice \in Notices, NEW I \in SUBSET Instance, Tell(notice, I),
         notice.op \in {"deliver", "typing"} => I = {Home[notice.to]},
         notice.op = "typing" => notice.frame = Typing,
         \A c \in Connection : Carries(notice, c) =>
            Sent(c, notice.frame) /\ notice.frame = consumer.next
  PROVE  FramesInv'
<1>0. (\A c \in Connection : Home[c] \in Instance) /\ consumer.next \in Nat
  BY HomeAssumption DEF RealtimeTypeOK, Places
<1>1. \A i \in Instance : \A n \in DOMAIN channel'[i] :
         \/ n \in DOMAIN channel[i] /\ channel'[i][n] = channel[i][n]
         \/ n = Len(channel[i]) + 1 /\ channel'[i][n] = notice /\ i \in I
  BY CarryTypes DEF Tell
<1>2. \A i \in Instance : \A n \in DOMAIN channel'[i] : n \in DOMAIN channel[i] => n < Len(channel[i]) + 1
  BY CarryTypes
<1>3. \A c \in Connection : \A n \in DOMAIN shown[c] : shown[c][n] \in Nat
  BY DEF RealtimeTypeOK
<1>4. AddressInv'
  BY <1>1 DEF FramesInv, AddressInv
<1>5. ASSUME NEW c \in Connection
      PROVE  /\ \A n \in DOMAIN shown[c] : Sent(c, shown[c][n])'
             /\ Carries(listener[Home[c]], c)' => Sent(c, listener[Home[c]].frame)'
             /\ \A n \in DOMAIN channel'[Home[c]] :
                   Carries(channel[Home[c]][n], c)' => Sent(c, channel[Home[c]][n].frame)'
  <2>1. \A n \in DOMAIN shown[c] : Sent(c, shown[c][n])
    BY DEF FramesInv, FrameInv
  <2>2. \A n \in DOMAIN shown[c] : Sent(c, shown[c][n])'
    BY <1>3, <2>1, SentKept DEF Sent
  <2>3. Carries(listener[Home[c]], c) =>
             listener[Home[c]].frame \in Nat /\ Sent(c, listener[Home[c]].frame)
    BY <1>0, CarryTypes DEF FramesInv, FrameInv
  <2>4. Carries(listener[Home[c]], c)' => Sent(c, listener[Home[c]].frame)'
    BY <2>3, SentKept DEF Sent, Carries
  <2>5. \A n \in DOMAIN channel[Home[c]] : Carries(channel[Home[c]][n], c) =>
             channel[Home[c]][n].frame \in Nat /\ Sent(c, channel[Home[c]][n].frame)
    BY <1>0, CarryTypes DEF FramesInv, FrameInv
  <2>6. Carries(notice, c) => Sent(c, notice.frame) /\ notice.frame \in Nat
    BY <1>0
  <2>7. ASSUME NEW n \in DOMAIN channel'[Home[c]], Carries(channel'[Home[c]][n], c)
        PROVE  Sent(c, channel[Home[c]][n].frame)'
    <3>1. channel'[Home[c]][n].frame \in Nat /\ Sent(c, channel'[Home[c]][n].frame)
      BY <1>0, <1>1, <2>5, <2>6, <2>7
    <3> QED
      BY <3>1, SentKept DEF Sent
  <2> QED
    BY <2>2, <2>4, <2>7 DEF Carries
<1>6. FrameInv'
  BY <1>5 DEF FrameInv
<1>7. OrderInv'
  <2> SUFFICES ASSUME NEW c \in Connection
               PROVE  /\ \A n1, n2 \in DOMAIN shown[c] : n1 < n2 => shown[c][n1] <= shown[c][n2]
                      /\ Carries(listener[Home[c]], c) =>
                            \A n \in DOMAIN shown[c] : shown[c][n] <= listener[Home[c]].frame
                      /\ \A n \in DOMAIN channel'[Home[c]] : Carries(channel'[Home[c]][n], c) =>
                         /\ \A n1 \in DOMAIN shown[c] : shown[c][n1] <= channel'[Home[c]][n].frame
                         /\ Carries(listener[Home[c]], c) =>
                               listener[Home[c]].frame <= channel'[Home[c]][n].frame
                         /\ \A n2 \in DOMAIN channel'[Home[c]] :
                               n < n2 /\ Carries(channel'[Home[c]][n2], c) =>
                               channel'[Home[c]][n].frame <= channel'[Home[c]][n2].frame
    BY DEF OrderInv, Carries
  <2>1. /\ \A n1, n2 \in DOMAIN shown[c] : n1 < n2 => shown[c][n1] <= shown[c][n2]
        /\ Carries(listener[Home[c]], c) =>
              \A n \in DOMAIN shown[c] : shown[c][n] <= listener[Home[c]].frame
    BY DEF FramesInv, OrderInv
  <2>2. ASSUME NEW n \in DOMAIN channel'[Home[c]], Carries(channel'[Home[c]][n], c)
        PROVE  /\ \A n1 \in DOMAIN shown[c] : shown[c][n1] <= channel'[Home[c]][n].frame
               /\ Carries(listener[Home[c]], c) =>
                     listener[Home[c]].frame <= channel'[Home[c]][n].frame
    <3>1. CASE n \in DOMAIN channel[Home[c]] /\ channel'[Home[c]][n] = channel[Home[c]][n]
      BY <2>2, <3>1 DEF FramesInv, OrderInv
    <3>2. CASE channel'[Home[c]][n] = notice
      <4>1. notice.frame = consumer.next
        BY <2>2, <3>2
      <4>2. \A n1 \in DOMAIN shown[c] : shown[c][n1] <= consumer.next
        BY DEF FramesInv, FrameInv, Sent
      <4>3. Carries(listener[Home[c]], c) => listener[Home[c]].frame <= consumer.next
        BY DEF FramesInv, FrameInv, Sent
      <4> QED
        BY <3>2, <4>1, <4>2, <4>3
    <3> QED
      BY <1>0, <1>1, <3>1, <3>2
  <2>3. ASSUME NEW n \in DOMAIN channel'[Home[c]], Carries(channel'[Home[c]][n], c),
               NEW n2 \in DOMAIN channel'[Home[c]], n < n2, Carries(channel'[Home[c]][n2], c)
        PROVE  channel'[Home[c]][n].frame <= channel'[Home[c]][n2].frame
    <3>1. n \in DOMAIN channel[Home[c]] /\ channel'[Home[c]][n] = channel[Home[c]][n]
      <4>1. n2 <= Len(channel[Home[c]]) + 1
        BY <1>0, <1>1, <1>2, CarryTypes
      <4> QED
        BY <1>0, <1>1, <2>3, <4>1, CarryTypes
    <3>2. CASE n2 \in DOMAIN channel[Home[c]] /\ channel'[Home[c]][n2] = channel[Home[c]][n2]
      BY <2>3, <3>1, <3>2 DEF FramesInv, OrderInv
    <3>3. CASE channel'[Home[c]][n2] = notice
      <4>1. channel[Home[c]][n].frame <= consumer.next
        BY <2>3, <3>1 DEF FramesInv, FrameInv, Sent
      <4> QED
        BY <2>3, <3>1, <3>3, <4>1
    <3> QED
      BY <1>0, <1>1, <3>2, <3>3
  <2> QED
    BY <2>1, <2>2, <2>3
<1> QED
  BY <1>4, <1>6, <1>7 DEF FramesInv

LEMMA HearIs ==
  ASSUME RealtimeTypeOK, NEW i \in Instance, Hear(i)
  PROVE  /\ listener[i] = Idle /\ 1 \in DOMAIN channel[i] /\ listener'[i] = channel[i][1]
         /\ \A n \in DOMAIN channel'[i] :
               n \in Nat \ {0} /\ n + 1 \in DOMAIN channel[i] /\ channel'[i][n] = channel[i][n + 1]
         /\ \A n \in DOMAIN channel[i] :
               n = 1 \/ (n - 1 \in DOMAIN channel'[i] /\ channel'[i][n - 1] = channel[i][n])
         /\ \A j \in Instance :
               j # i => listener'[j] = listener[j] /\ channel'[j] = channel[j]
         /\ UNCHANGED <<history, consumer, record, subscribed, status, socket, resync, shown, listening>>
<1>1. /\ channel[i] \in Seq(Notices) /\ channel[i] # <<>> /\ channel'[i] = Tail(channel[i])
      /\ listener[i] = Idle /\ listener'[i] = Head(channel[i])
      /\ \A j \in Instance : j # i => listener'[j] = listener[j] /\ channel'[j] = channel[j]
  BY DEF Hear, RealtimeTypeOK
<1>2. /\ Len(channel[i]) \in Nat \ {0} /\ DOMAIN channel[i] = 1 .. Len(channel[i])
      /\ Head(channel[i]) = channel[i][1]
  BY <1>1
<1>3. /\ Len(channel'[i]) = Len(channel[i]) - 1 /\ DOMAIN channel'[i] = 1 .. Len(channel[i]) - 1
      /\ \A n \in 1 .. Len(channel[i]) - 1 : channel'[i][n] = channel[i][n + 1]
  BY <1>1, <1>2, HeadTailProperties
<1> QED
  BY <1>1, <1>2, <1>3 DEF Hear, conversation, redis, sockets, frames

LEMMA HearKeeps ==
  ASSUME RealtimeTypeOK, PlaceInv, RealtimeNext, FramesInv, NEW i \in Instance, Hear(i)
  PROVE  FramesInv'
<1>0. \A c \in Connection : Home[c] \in Instance
  BY HomeAssumption
<1>1. shown' = shown /\ \A c \in Connection : ~Carries(listener[i], c)
  BY HearIs DEF Idle, Carries
<1>2. /\ listener[i] = Idle /\ 1 \in DOMAIN channel[i] /\ listener'[i] = channel[i][1]
      /\ \A n \in DOMAIN channel'[i] :
            n \in Nat \ {0} /\ n + 1 \in DOMAIN channel[i] /\ channel'[i][n] = channel[i][n + 1]
      /\ \A j \in Instance :
            j # i => listener'[j] = listener[j] /\ channel'[j] = channel[j]
  BY HearIs
<1>3. AddressInv'
  <2>1. channel[i][1] \in Notices
    BY <1>2, CarryTypes
  <2>2. channel[i][1].op # "put"
    BY <2>1 DEF Notices
  <2> QED
    BY <1>2, <2>2 DEF FramesInv, AddressInv
<1>4. \A c \in Connection : \A n \in DOMAIN shown[c] : Sent(c, shown[c][n])'
  <2>1. \A c \in Connection : \A n \in DOMAIN shown[c] : shown[c][n] \in Nat /\ Sent(c, shown[c][n])
    BY DEF RealtimeTypeOK, FramesInv, FrameInv
  <2> QED
    BY <1>1, <2>1, SentKept DEF Sent
<1>5. \A c \in Connection : \A n \in DOMAIN channel[Home[c]] : Carries(channel[Home[c]][n], c) =>
         channel[Home[c]][n].frame \in Nat /\ Sent(c, channel[Home[c]][n].frame)
  BY <1>0, CarryTypes DEF FramesInv, FrameInv
<1>6. \A c \in Connection : Carries(listener[Home[c]], c) =>
         listener[Home[c]].frame \in Nat /\ Sent(c, listener[Home[c]].frame)
  BY <1>0, CarryTypes DEF FramesInv, FrameInv
<1>7. ASSUME NEW c \in Connection
      PROVE  /\ Carries(listener'[Home[c]], c) => Sent(c, listener[Home[c]].frame)'
             /\ \A n \in DOMAIN channel'[Home[c]] :
                   Carries(channel'[Home[c]][n], c) => Sent(c, channel[Home[c]][n].frame)'
  <2>1. Carries(listener'[Home[c]], c) =>
           listener'[Home[c]].frame \in Nat /\ Sent(c, listener'[Home[c]].frame)
    BY <1>0, <1>2, <1>5, <1>6
  <2>2. \A n \in DOMAIN channel'[Home[c]] : Carries(channel'[Home[c]][n], c) =>
           channel'[Home[c]][n].frame \in Nat /\ Sent(c, channel'[Home[c]][n].frame)
    BY <1>0, <1>2, <1>5
  <2> QED
    BY <2>1, <2>2, SentKept DEF Sent
<1>8. FrameInv'
  BY <1>1, <1>4, <1>7 DEF FrameInv, Carries
<1>9. OrderInv'
  <2> SUFFICES ASSUME NEW c \in Connection
               PROVE  /\ Carries(listener'[Home[c]], c) =>
                            \A n \in DOMAIN shown[c] : shown[c][n] <= listener'[Home[c]].frame
                      /\ \A n \in DOMAIN channel'[Home[c]] : Carries(channel'[Home[c]][n], c) =>
                         /\ \A n1 \in DOMAIN shown[c] : shown[c][n1] <= channel'[Home[c]][n].frame
                         /\ Carries(listener'[Home[c]], c) =>
                               listener'[Home[c]].frame <= channel'[Home[c]][n].frame
                         /\ \A n2 \in DOMAIN channel'[Home[c]] :
                               n < n2 /\ Carries(channel'[Home[c]][n2], c) =>
                               channel'[Home[c]][n].frame <= channel'[Home[c]][n2].frame
    BY <1>1 DEF FramesInv, OrderInv, Carries
  <2>1. CASE Home[c] # i
    BY <1>0, <1>2, <2>1 DEF FramesInv, OrderInv
  <2>2. CASE Home[c] = i
    <3>1. \A n1, n2 \in DOMAIN channel[i] :
             n1 < n2 /\ Carries(channel[i][n1], c) /\ Carries(channel[i][n2], c) =>
                channel[i][n1].frame <= channel[i][n2].frame
      BY <2>2 DEF FramesInv, OrderInv
    <3>2. \A n \in DOMAIN channel[i] : Carries(channel[i][n], c) =>
             \A n1 \in DOMAIN shown[c] : shown[c][n1] <= channel[i][n].frame
      BY <2>2 DEF FramesInv, OrderInv
    <3>3. \A n \in DOMAIN channel'[i] : 1 < n + 1 /\ \A n2 \in DOMAIN channel'[i] : n < n2 => n + 1 < n2 + 1
      BY <1>2
    <3> QED
      BY <1>2, <2>2, <3>1, <3>2, <3>3
  <2> QED
    BY <2>1, <2>2
<1> QED
  BY <1>3, <1>8, <1>9 DEF FramesInv

\* What was in hand comes after all that is shown, and before all that waits.
LEMMA EnqueueKeeps ==
  ASSUME RealtimeTypeOK, PlaceInv, RealtimeNext, FramesInv, NEW i \in Instance, Enqueue(i)
  PROVE  FramesInv'
<1>0. (\A c \in Connection : Home[c] \in Instance) /\ channel' = channel
  BY HomeAssumption DEF Enqueue
<1>1. \A j \in Instance : listener'[j] = IF j = i THEN Idle ELSE listener[j]
  BY DEF Enqueue, RealtimeTypeOK
<1>2. CASE shown' = shown
  BY <1>0, <1>1, <1>2, HandsKeep DEF Idle, Carries, FramesInv, AddressInv
<1>3. CASE shown' # shown
  <2> DEFINE d == listener[i].to
             frame == listener[i].frame
  <2>1. d \in Connection /\ frame \in Nat /\ Home[d] = i /\ listener[i].op = "put"
    BY ListenerTypes DEF Enqueue, FramesInv, AddressInv
  <2>2. frame # Typing /\ shown' = [shown EXCEPT ![d] = Append(@, frame)]
    BY <1>3 DEF Enqueue, Put
  <2>3. Carries(listener[i], d) /\ Sent(d, frame)
    BY <2>1, <2>2 DEF Carries, FramesInv, FrameInv
  <2>4. \A c \in Connection : \A n \in DOMAIN shown'[c] :
           \/ n \in DOMAIN shown[c] /\ shown'[c][n] = shown[c][n]
           \/ c = d /\ n = Len(shown[d]) + 1 /\ shown'[c][n] = frame
    BY <2>1, <2>2 DEF RealtimeTypeOK
  <2>5. \A c \in Connection : \A n \in DOMAIN shown[c] :
           n \in 1 .. Len(shown[c]) /\ Len(shown[c]) \in Nat /\ shown[c][n] \in Nat
    BY DEF RealtimeTypeOK
  <2>6. \A j \in Instance : \A c \in Connection : Carries(listener'[j], c) =>
           Carries(listener[j], c) /\ listener'[j].frame = listener[j].frame /\ j # i
    BY <1>1 DEF Carries, Idle
  <2>7. AddressInv'
    BY <1>0, <1>1 DEF Idle, FramesInv, AddressInv
  <2>8. FrameInv'
    <3>1. \A c \in Connection : \A n \in DOMAIN shown'[c] : shown'[c][n] \in Nat /\ Sent(c, shown'[c][n])
      BY <2>1, <2>3, <2>4, <2>5 DEF FramesInv, FrameInv
    <3>2. \A c \in Connection : \A n \in DOMAIN shown'[c] : Sent(c, shown[c][n])'
      BY <3>1, SentKept DEF Sent
    <3>3. \A c \in Connection : Carries(listener'[Home[c]], c) => Sent(c, listener[Home[c]].frame)'
      <4>1. \A c \in Connection : Carries(listener'[Home[c]], c) =>
               listener'[Home[c]].frame \in Nat /\ Sent(c, listener'[Home[c]].frame)
        BY <1>0, <2>6, CarryTypes DEF FramesInv, FrameInv
      <4> QED
        BY <4>1, SentKept DEF Sent
    <3>4. \A c \in Connection : \A n \in DOMAIN channel[Home[c]] :
             Carries(channel[Home[c]][n], c) => Sent(c, channel[Home[c]][n].frame)'
      <4>1. \A c \in Connection : \A n \in DOMAIN channel[Home[c]] :
             Carries(channel[Home[c]][n], c) =>
             channel[Home[c]][n].frame \in Nat /\ Sent(c, channel[Home[c]][n].frame)
        BY <1>0, CarryTypes DEF FramesInv, FrameInv
      <4> QED
        BY <1>0, <4>1, SentKept DEF Sent
    <3> QED
      BY <1>0, <3>2, <3>3, <3>4 DEF FrameInv, Carries
  <2>9. OrderInv'
    <3>1. ASSUME NEW c \in Connection, NEW n1 \in DOMAIN shown'[c], NEW n2 \in DOMAIN shown'[c],
                 n1 < n2
          PROVE  shown'[c][n1] <= shown'[c][n2]
      <4>1. n1 \in DOMAIN shown[c] /\ shown'[c][n1] = shown[c][n1]
        BY <2>4, <2>5, <3>1
      <4>2. CASE n2 \in DOMAIN shown[c] /\ shown'[c][n2] = shown[c][n2]
        BY <3>1, <4>1, <4>2 DEF FramesInv, OrderInv
      <4>3. CASE c = d /\ shown'[c][n2] = frame
        BY <2>1, <2>3, <4>1, <4>3 DEF FramesInv, OrderInv
      <4> QED
        BY <2>4, <4>2, <4>3
    <3>2. ASSUME NEW c \in Connection, Carries(listener'[Home[c]], c), NEW n \in DOMAIN shown'[c]
          PROVE  shown'[c][n] <= listener'[Home[c]].frame
      <4>1. c # d /\ Carries(listener[Home[c]], c) /\ listener'[Home[c]] = listener[Home[c]]
        BY <1>0, <1>1, <2>1, <2>6, <3>2
      <4> QED
        BY <2>4, <4>1 DEF FramesInv, OrderInv
    <3>3. ASSUME NEW c \in Connection, NEW n \in DOMAIN channel[Home[c]],
                 Carries(channel[Home[c]][n], c)
          PROVE  /\ \A n1 \in DOMAIN shown'[c] : shown'[c][n1] <= channel[Home[c]][n].frame
                 /\ Carries(listener'[Home[c]], c) =>
                       listener'[Home[c]].frame <= channel[Home[c]][n].frame
                 /\ \A n2 \in DOMAIN channel[Home[c]] :
                       n < n2 /\ Carries(channel[Home[c]][n2], c) =>
                       channel[Home[c]][n].frame <= channel[Home[c]][n2].frame
      <4>1. /\ \A n1 \in DOMAIN shown[c] : shown[c][n1] <= channel[Home[c]][n].frame
            /\ Carries(listener[Home[c]], c) => listener[Home[c]].frame <= channel[Home[c]][n].frame
            /\ \A n2 \in DOMAIN channel[Home[c]] :
                  n < n2 /\ Carries(channel[Home[c]][n2], c) =>
                  channel[Home[c]][n].frame <= channel[Home[c]][n2].frame
        BY <3>3 DEF FramesInv, OrderInv
      <4>2. c = d => frame <= channel[Home[c]][n].frame
        BY <2>1, <2>3, <4>1
      <4> QED
        BY <1>0, <2>4, <2>6, <4>1, <4>2
    <3> QED
      BY <1>0, <3>1, <3>2, <3>3 DEF OrderInv, Carries
  <2> QED
    BY <2>7, <2>8, <2>9 DEF FramesInv
<1> QED
  BY <1>2, <1>3

\* An instance that ends, or whose listener dies, loses what waits for it.
LEMMA DropKeeps ==
  ASSUME RealtimeTypeOK, PlaceInv, RealtimeNext, FramesInv, NEW i \in Instance, UNCHANGED shown,
         listener' = [listener EXCEPT ![i] = Idle], channel' = [channel EXCEPT ![i] = <<>>]
  PROVE  FramesInv'
<1>0. \A c \in Connection : Home[c] \in Instance
  BY HomeAssumption
<1>1. \A j \in Instance :
         \/ listener'[j].op = "none" /\ DOMAIN channel'[j] = {}
         \/ listener'[j] = listener[j] /\ channel'[j] = channel[j]
  BY DEF RealtimeTypeOK, Idle
<1>2. AddressInv'
  BY <1>1 DEF FramesInv, AddressInv
<1>3. \A c \in Connection : \A n \in DOMAIN shown[c] : Sent(c, shown[c][n])'
  <2>1. \A c \in Connection : \A n \in DOMAIN shown[c] : shown[c][n] \in Nat /\ Sent(c, shown[c][n])
    BY DEF RealtimeTypeOK, FramesInv, FrameInv
  <2> QED
    BY <2>1, SentKept DEF Sent
<1>4. ASSUME NEW c \in Connection
      PROVE  /\ Carries(listener'[Home[c]], c) => Sent(c, listener[Home[c]].frame)'
             /\ \A n \in DOMAIN channel'[Home[c]] :
                   Carries(channel'[Home[c]][n], c) => Sent(c, channel[Home[c]][n].frame)'
  <2>1. /\ Carries(listener[Home[c]], c) =>
              listener[Home[c]].frame \in Nat /\ Sent(c, listener[Home[c]].frame)
        /\ \A n \in DOMAIN channel[Home[c]] : Carries(channel[Home[c]][n], c) =>
              channel[Home[c]][n].frame \in Nat /\ Sent(c, channel[Home[c]][n].frame)
    BY <1>0, CarryTypes DEF FramesInv, FrameInv
  <2>2. /\ Carries(listener'[Home[c]], c) =>
              listener'[Home[c]].frame \in Nat /\ Sent(c, listener'[Home[c]].frame)
        /\ \A n \in DOMAIN channel'[Home[c]] : Carries(channel'[Home[c]][n], c) =>
              channel'[Home[c]][n].frame \in Nat /\ Sent(c, channel'[Home[c]][n].frame)
    BY <1>0, <1>1, <2>1 DEF Carries
  <2> QED
    BY <2>2, SentKept DEF Sent
<1>5. FrameInv'
  BY <1>3, <1>4 DEF FrameInv, Carries
<1>6. OrderInv'
  BY <1>0, <1>1 DEF FramesInv, OrderInv, Carries
<1> QED
  BY <1>2, <1>5, <1>6 DEF FramesInv

LEMMA ConsumeFrames ==
  ASSUME RealtimeTypeOK, PlaceInv, StatusInv, FramesInv, RealtimeNext, Consume
  PROVE  FramesInv'
<1> USE DEF redis, sockets, frames, channels
<1>1. CASE Take \/ ListDeparted
  BY <1>1, FramesKeep DEF Take, ListDeparted
<1>2. ASSUME NEW c \in Connection, Clear(c) \/ Look(c) PROVE FramesInv'
  <2>1. UNCHANGED <<shown, channel, listener>>
    BY <1>2 DEF Clear, Look
  <2> QED
    BY <2>1, FramesKeep
<1>3. CASE Cleared
  <2>1. CASE Current.type = "departed"
    <3> DEFINE notice == [op |-> "revoke", member |-> Current.member, to |-> 0, frame |-> 0]
    <3>1. Current \in Events
      BY <1>3 DEF Cleared, PlaceInv, At, RealtimeTypeOK, Current
    <3>2. notice \in Notices
      BY <2>1, <3>1 DEF Events, Notices
    <3>3. Tell(notice, Instance) /\ UNCHANGED <<shown, listener>>
      BY <1>3, <2>1 DEF Cleared
    <3>4. notice.op \notin {"deliver", "typing", "put"} /\ \A c : ~Carries(notice, c)
      BY DEF Carries
    <3> HIDE DEF notice
    <3> QED
      BY <3>2, <3>3, <3>4, TellKeeps
  <2>2. CASE Current.type # "departed"
    BY <1>3, <2>2, FramesKeep DEF Cleared
  <2> QED
    BY <2>1, <2>2
<1>4. ASSUME NEW c \in Connection, Send(c) PROVE FramesInv'
  <2>1. CASE IsActive(Principal[c])
    <3> DEFINE notice == [op |-> "deliver", member |-> 0, to |-> c, frame |-> consumer.next]
    <3>1. consumer.next \in Nat /\ notice \in Notices /\ {Home[c]} \in SUBSET Instance
      BY HomeAssumption DEF RealtimeTypeOK, Places, Notices
    <3>2. Tell(notice, {Home[c]}) /\ UNCHANGED <<shown, listener>>
      BY <1>4, <2>1 DEF Send
    <3>3. /\ notice.op = "deliver" /\ notice.to = c /\ notice.frame = consumer.next
          /\ \A d : Carries(notice, d) => d = c
      BY DEF Carries
    <3>4. Sent(c, consumer.next)
      <4>1. Principal[c] \in Member
        BY PrincipalAssumption
      <4> QED
        BY <2>1, <3>1, <4>1 DEF StatusInv, IsActive, Sent
    <3> HIDE DEF notice
    <3> QED
      BY <3>1, <3>2, <3>3, <3>4, TellKeeps
  <2>2. CASE ~IsActive(Principal[c])
    BY <1>4, <2>2, FramesKeep DEF Send
  <2> QED
    BY <2>1, <2>2
<1> QED
  BY <1>1, <1>2, <1>3, <1>4 DEF Consume

LEMMA HandleFrames ==
  ASSUME RealtimeTypeOK, PlaceInv, FramesInv, RealtimeNext,
         NEW c \in Connection, Register(c) \/ Handle(c)
  PROVE  FramesInv'
<1> USE DEF frames, channels
<1>1. ASSUME NEW d \in Connection, Type(c, d) PROVE FramesInv'
  <2>1. CASE Home[d] # Home[c]
    <3> DEFINE notice == [op |-> "typing", member |-> 0, to |-> d, frame |-> Typing]
    <3>1. notice \in Notices /\ {Home[d]} \in SUBSET Instance
      BY HomeAssumption DEF Notices, Typing
    <3>2. Tell(notice, {Home[d]}) /\ UNCHANGED <<shown, listener>>
      BY <1>1, <2>1 DEF Type
    <3>3. /\ notice.op = "typing" /\ notice.to = d /\ notice.frame = Typing
          /\ \A e : ~Carries(notice, e)
      BY DEF Carries
    <3> HIDE DEF notice
    <3> QED
      BY <3>1, <3>2, <3>3, TellKeeps
  <2>2. CASE Home[d] = Home[c]
    BY <1>1, <2>2, FramesKeep DEF Type, Put
  <2> QED
    BY <2>1, <2>2
<1>2. CASE UNCHANGED <<shown, channel, listener>>
  BY <1>2, FramesKeep
<1>3. \A op : Ask(c, op) \/ Authorize(c, op) => UNCHANGED <<shown, channel, listener>>
  BY DEF Ask, Authorize, Removed
<1>4. Register(c) \/ Subscribe(c) \/ Unsubscribe(c) \/ TypeToNobody(c) =>
         UNCHANGED <<shown, channel, listener>>
  BY DEF Register, Subscribe, Unsubscribe, TypeToNobody, Removed
<1> QED
  BY <1>1, <1>2, <1>3, <1>4 DEF Handle

LEMMA ListenFrames ==
  ASSUME RealtimeTypeOK, PlaceInv, FramesInv, RealtimeNext, NEW i \in Instance, Listen(i)
  PROVE  FramesInv'
<1> USE DEF frames
\* The listener has something that carries no message, or the one it had.
<1>1. ASSUME UNCHANGED <<shown, channel>>, NEW hand, listener' = [listener EXCEPT ![i] = hand],
             \/ hand.op \in {"none", "again", "list", "clear"}
             \/ /\ hand.op = "put" /\ listener[i].op \in {"deliver", "typing"}
                /\ hand.to = listener[i].to /\ hand.frame = listener[i].frame
      PROVE  FramesInv'
  <2>1. \A j \in Instance : listener'[j] = IF j = i THEN hand ELSE listener[j]
    BY <1>1 DEF RealtimeTypeOK
  <2>2. /\ \A j \in Instance :
              /\ listener[j].op \in {"deliver", "typing", "put"} => Home[listener[j].to] = j
              /\ listener[j].op = "typing" => listener[j].frame = Typing
    BY DEF FramesInv, AddressInv
  <2>3. hand.op \in {"deliver", "typing", "put"} => Home[hand.to] = i /\ hand.op # "typing"
    BY <1>1, <2>2
  <2>4. \A c \in Connection : Carries(hand, c) =>
           Carries(listener[i], c) /\ hand.frame = listener[i].frame
    BY <1>1, <2>2 DEF Carries
  <2> QED
    BY <1>1, <2>1, <2>2, <2>3, <2>4, HandsKeep
<1>2. CASE Admit(i)
  <2> DEFINE hand == [listener[i] EXCEPT !.op = "put"]
  <2>1. /\ hand.op = "put" /\ listener[i].op \in {"deliver", "typing"}
        /\ hand.to = listener[i].to /\ hand.frame = listener[i].frame
    BY <1>2, ListenerTypes DEF Admit
  <2>2. UNCHANGED <<shown, channel>> /\ \/ listener' = [listener EXCEPT ![i] = hand]
                                        \/ listener' = [listener EXCEPT ![i] = Idle]
    BY <1>2 DEF Admit
  <2> HIDE DEF hand
  <2> QED
    BY <1>1, <2>1, <2>2 DEF Idle
<1>3. CASE Revoke(i) \/ RevokeAgain(i)
  <2>1. PICK op \in {"again", "list"} :
           listener' = [listener EXCEPT ![i].op = op] /\ UNCHANGED <<shown, channel>>
    BY <1>3 DEF Revoke, RevokeAgain
  <2> PICK hand : hand = [listener[i] EXCEPT !.op = op]
    OBVIOUS
  <2>2. hand.op \in {"again", "list"}
    BY <1>3, ListenerTypes DEF Revoke, RevokeAgain
  <2>3. listener' = [listener EXCEPT ![i] = hand]
    BY <2>1
  <2> QED
    BY <1>1, <2>1, <2>2, <2>3
<1>4. CASE RevokeList(i)
  <2> DEFINE rest == {c \in record : Principal[c] = listener[i].member}
             hand == IF rest = {} THEN Idle ELSE [op |-> "clear", todo |-> rest]
  <2>1. hand.op \in {"none", "clear"}
    BY DEF Idle
  <2>2. listener' = [listener EXCEPT ![i] = hand] /\ UNCHANGED <<shown, channel>>
    BY <1>4 DEF RevokeList
  <2> HIDE DEF hand
  <2> QED
    BY <1>1, <2>1, <2>2
<1>5. ASSUME NEW c \in Connection, RevokeStored(i, c) PROVE FramesInv'
  <2> DEFINE hand == IF listener[i].todo = {c} THEN Idle
                     ELSE [op |-> "clear", todo |-> listener[i].todo \ {c}]
  <2>1. hand.op \in {"none", "clear"}
    BY DEF Idle
  <2>2. listener' = [listener EXCEPT ![i] = hand] /\ UNCHANGED <<shown, channel>>
    BY <1>5 DEF RevokeStored
  <2> HIDE DEF hand
  <2> QED
    BY <1>1, <2>1, <2>2
<1> QED
  BY <1>2, <1>3, <1>4, <1>5, HearKeeps, EnqueueKeeps DEF Listen

LEMMA FramesKept ==
  RealtimeTypeOK /\ PlaceInv /\ StatusInv /\ FramesInv /\ RealtimeNext => FramesInv'
<1> SUFFICES ASSUME RealtimeTypeOK, PlaceInv, StatusInv, FramesInv, RealtimeNext
             PROVE  FramesInv'
  OBVIOUS
<1> USE DEF frames, channels
<1>1. CASE UNCHANGED <<shown, channel, listener>>
  BY <1>1, FramesKeep
<1>2. CASE Publishing
  BY <1>1, <1>2, PublishingIs, PublishIs
<1>3. CASE Crash \/ Reconnect
  BY <1>1, <1>3, BackIs
<1>4. ASSUME NEW c \in Connection, Disconnect(c) \/ Expire(c) PROVE FramesInv'
  BY <1>1, <1>4 DEF Disconnect, Removed, Expire
<1>5. ASSUME NEW i \in Instance, ListenerDies(i) \/ Shutdown(i) \/ Die(i) PROVE FramesInv'
  <2>1. /\ UNCHANGED shown
        /\ listener' = [listener EXCEPT ![i] = Idle] /\ channel' = [channel EXCEPT ![i] = <<>>]
    BY <1>5 DEF ListenerDies, Shutdown, Die, Startup
  <2> QED
    BY <2>1, DropKeeps
<1>6. ASSUME NEW m \in Leavers, Learn(m) PROVE FramesInv'
  BY <1>1, <1>6 DEF Learn
<1> QED
  BY <1>2, <1>3, <1>4, <1>5, <1>6, ConsumeFrames, HandleFrames, ListenFrames
     DEF RealtimeNext, Failing

-----------------------------------------------------------------------------
(* Subscriptions and the removals that clear them.                         *)

\* The events before the consumer's place stay what they are.
LEMMA PastKept ==
  ASSUME RealtimeTypeOK, PlaceInv, history' = history \/ Publishing
  PROVE  /\ consumer.next \in Nat \ {0}
         /\ \A k \in 1 .. consumer.next - 1 : k \in DOMAIN history /\ history'[k] = history[k]
         /\ ~At("ready") => history'[consumer.next] = history[consumer.next]
<1>1. /\ consumer.next \in 1 .. Len(history) + 1 /\ Len(history) \in Nat
      /\ DOMAIN history = 1 .. Len(history) /\ consumer.next \in Nat
  BY DEF RealtimeTypeOK, PlaceInv
<1>2. ~At("ready") => consumer.next \in 1 .. Len(history)
  BY <1>1 DEF PlaceInv
<1>3. CASE Publishing
  BY <1>1, <1>2, <1>3, PublishingIs, PublishIs
<1> QED
  BY <1>1, <1>2, <1>3

\* A subscription that is written carries the consumer's place, which is after all of them.
LEMMA SubscribedKeep ==
  ASSUME RealtimeTypeOK, PlaceInv, RemovalClears, ClearInv,
         history' = history \/ Publishing,
         \/ consumer' = consumer
         \/ consumer'.next = consumer.next /\ consumer'.stage = "ready",
         \A c \in record' : \/ subscribed'[c] \in {0, consumer.next}
                            \/ c \in record /\ subscribed'[c] = subscribed[c]
  PROVE  RemovalClears' /\ ClearInv'
<1>1. consumer'.next = consumer.next /\ consumer.next \in Nat
  BY PastKept
<1>2. RemovalClears'
  <2> SUFFICES ASSUME NEW c \in record', subscribed'[c] # 0,
                      NEW k \in subscribed'[c] + 1 .. consumer.next - 1
               PROVE  /\ history'[k] \notin {Event("removed", Principal[c]),
                                             Event("departed", Principal[c])}
                      /\ history'[k].type # "closed"
    BY <1>1 DEF RemovalClears, Event
  <2>1. c \in record /\ subscribed'[c] = subscribed[c]
    BY <1>1
  <2>2. subscribed[c] \in Nat
    BY <2>1 DEF RealtimeTypeOK
  <2>3. k \in 1 .. consumer.next - 1
    BY <1>1, <2>1, <2>2
  <2>4. history'[k] = history[k]
    BY <2>3, PastKept
  <2> QED
    BY <2>1, <2>4 DEF RemovalClears
<1>3. ClearInv'
  <2>1. CASE consumer'.stage = "ready"
    BY <2>1 DEF ClearInv, At
  <2>2. CASE consumer' = consumer
    <3>1. At("clear") => Current' = Current
      BY <2>2, PastKept DEF At, Current
    <3> QED
      BY <1>1, <2>2, <3>1 DEF ClearInv, At, Concerns
  <2> QED
    BY <2>1, <2>2
<1> QED
  BY <1>2, <1>3

\* An event is finished when nobody whom it removes is subscribed any more.
LEMMA FinishClears ==
  ASSUME RealtimeTypeOK, RemovalClears, UNCHANGED <<history, record, subscribed>>,
         consumer'.next = consumer.next + 1, consumer'.stage = "ready", Current \in Events,
         \A c \in record : subscribed[c] \in 1 .. consumer.next - 1 =>
            Current.type \notin {"removed", "departed", "closed"} \/ ~Concerns(c)
  PROVE  RemovalClears' /\ ClearInv'
<1>1. consumer.next \in Nat
  BY DEF RealtimeTypeOK, Places
<1>2. ASSUME NEW c \in record, subscribed[c] # 0,
             NEW k \in subscribed[c] + 1 .. consumer.next + 1 - 1
      PROVE  /\ history[k] \notin {Event("removed", Principal[c]), Event("departed", Principal[c])}
             /\ history[k].type # "closed"
  <2>1. subscribed[c] \in Nat \ {0}
    BY <1>2 DEF RealtimeTypeOK
  <2>2. CASE k = consumer.next
    <3>1. Current.type \notin {"removed", "departed", "closed"} \/ ~Concerns(c)
      BY <1>1, <2>1, <2>2
    <3>2. Current = history[k]
      BY <2>2 DEF Current
    <3> QED
      BY <3>1, <3>2 DEF Concerns, Event, Events
  <2>3. CASE k # consumer.next
    <3>1. k \in subscribed[c] + 1 .. consumer.next - 1
      BY <1>1, <2>1, <2>3
    <3> QED
      BY <1>2, <3>1 DEF RemovalClears
  <2> QED
    BY <2>2, <2>3
<1>3. RemovalClears'
  <2> SUFFICES ASSUME NEW c \in record', subscribed'[c] # 0,
                      NEW k \in subscribed'[c] + 1 .. consumer'.next - 1
               PROVE  /\ history'[k] \notin {Event("removed", Principal[c]),
                                             Event("departed", Principal[c])}
                      /\ history'[k].type # "closed"
    BY DEF RemovalClears, Event
  <2>1. c \in record /\ subscribed[c] # 0 /\ k \in subscribed[c] + 1 .. consumer.next + 1 - 1
    BY <1>1
  <2> QED
    BY <1>2, <2>1
<1>4. ClearInv'
  BY DEF ClearInv, At
<1> QED
  BY <1>3, <1>4

\* Whose subscription is not written: nobody new, or one who has none.
LEMMA FewerSubscribed ==
  ASSUME RealtimeTypeOK, SocketInv
  PROVE  /\ \A cs : Unrecorded(cs) =>
               \A c \in record' : c \in record /\ subscribed'[c] \in {0, subscribed[c]}
         /\ \A c \in Connection : \A n : Store(c, n) /\ record' = record =>
               \A d \in record' : d \in record /\ subscribed'[d] \in {n, subscribed[d]}
<1>1. record \subseteq Connection /\ DOMAIN subscribed = Connection
  BY DEF RealtimeTypeOK
<1>2. ASSUME NEW cs, Unrecorded(cs)
      PROVE  \A c \in record' : c \in record /\ subscribed'[c] \in {0, subscribed[c]}
  BY <1>1, <1>2 DEF Unrecorded
<1>3. ASSUME NEW c \in Connection, NEW n, Store(c, n), record' = record
      PROVE  \A d \in record' : d \in record /\ subscribed'[d] \in {n, subscribed[d]}
  BY <1>1, <1>3 DEF Store
<1> QED
  BY <1>2, <1>3

LEMMA ListClears ==
  ASSUME RealtimeTypeOK, RemovalClears, Current \in Events, List, UNCHANGED <<history, record, subscribed>>
  PROVE  RemovalClears' /\ ClearInv'
<1>0. consumer \in Places /\ record \subseteq Connection
  BY DEF RealtimeTypeOK
<1>1. CASE consumer'.next = consumer.next
  <2>1. RemovalClears'
    BY <1>1 DEF RemovalClears
  <2>2. At("clear")' => \A c \in record : Concerns(c) => c \in consumer'.todo
    <3>1. CASE Current.type # "message"
      BY <1>0, <3>1, ListIs
    <3>2. CASE Current.type = "message"
      BY <1>0, <3>2, ListIs DEF At
    <3> QED
      BY <3>1, <3>2
  <2>3. Current' = Current
    BY <1>1 DEF Current
  <2> QED
    BY <2>1, <2>2, <2>3 DEF ClearInv, Concerns
<1>2. CASE consumer'.next # consumer.next
  <2>1. CASE Current.type # "message"
    BY <1>0, <1>2, <2>1, ListIs
  <2>2. CASE Current.type = "message"
    <3>1. consumer'.next = consumer.next + 1 /\ consumer'.stage = "ready"
      BY <1>0, <1>2, <2>2, ListIs
    <3> QED
      BY <2>2, <3>1, FinishClears
  <2> QED
    BY <2>1, <2>2
<1> QED
  BY <1>1, <1>2

LEMMA ConsumeClears ==
  ASSUME RealtimeTypeOK, PlaceInv, RemovalClears, ClearInv, Consume
  PROVE  RemovalClears' /\ ClearInv'
<1> USE DEF conversation, redis
<1>0. Current \in Events
  BY ConsumeIs
<1>1. CASE Take
  <2>1. UNCHANGED <<history, record, subscribed>>
    BY <1>1 DEF Take
  <2>2. CASE Current.type = "reactivated"
    <3>1. consumer'.next = consumer.next + 1 /\ consumer'.stage = "ready"
      BY <1>1, <2>2, TakeIs, FinishIs DEF RealtimeTypeOK
    <3> QED
      BY <1>0, <2>1, <2>2, <3>1, FinishClears
  <2>3. CASE Current.type = "departed"
    <3>1. consumer'.next = consumer.next /\ consumer'.stage = "list"
      <4>1. Continue("list", {}, {})
        BY <1>1, <2>3, TakeIs
      <4> QED
        BY <4>1 DEF Continue, RealtimeTypeOK, Places
    <3> QED
      BY <2>1, <3>1 DEF RemovalClears, ClearInv, At
  <2>4. CASE Current.type \notin {"reactivated", "departed"}
    BY <1>0, <1>1, <2>1, <2>4, TakeIs, ListClears
  <2> QED
    BY <2>2, <2>3, <2>4
<1>2. CASE ListDeparted
  BY <1>0, <1>2, ListClears DEF ListDeparted
<1>3. CASE Cleared
  <2>1. consumer'.next = consumer.next + 1 /\ consumer'.stage = "ready"
    BY <1>3, FinishIs DEF Cleared, RealtimeTypeOK
  <2>2. \A c \in record : subscribed[c] \in 1 .. consumer.next - 1 => ~Concerns(c)
    BY <1>3 DEF Cleared, ClearInv
  <2> QED
    BY <1>0, <1>3, <2>1, <2>2, FinishClears DEF Cleared
<1>4. ASSUME NEW c \in Connection, Clear(c) PROVE RemovalClears' /\ ClearInv'
  <2>1. /\ history' = history /\ record' = record
        /\ subscribed' = [subscribed EXCEPT ![c] = 0]
        /\ consumer'.next = consumer.next /\ consumer'.todo = consumer.todo \ {c} /\ At("clear")
    <3>1. history' = history /\ record' = record /\ Store(c, 0) /\ At("clear")
      BY <1>4 DEF Clear
    <3> QED
      BY <1>4, <3>1, ClearIs DEF Store
  <2>2. \A d \in record : subscribed'[d] = IF d = c THEN 0 ELSE subscribed[d]
    BY <2>1 DEF RealtimeTypeOK
  <2>3. RemovalClears'
    BY <2>1, <2>2 DEF RemovalClears
  <2>4. ClearInv'
    BY <2>1, <2>2 DEF ClearInv, Concerns, Current
  <2> QED
    BY <2>3, <2>4
<1>5. ASSUME UNCHANGED <<history, record, subscribed>>, Current.type = "message",
             \/ consumer'.next = consumer.next /\ consumer'.stage \in {"look", "send"}
             \/ consumer'.next = consumer.next + 1 /\ consumer'.stage = "ready"
      PROVE  RemovalClears' /\ ClearInv'
  <2>1. CASE consumer'.next = consumer.next /\ consumer'.stage \in {"look", "send"}
    BY <1>5, <2>1 DEF RemovalClears, ClearInv, At
  <2>2. CASE consumer'.next = consumer.next + 1 /\ consumer'.stage = "ready"
    BY <1>0, <1>5, <2>2, FinishClears
  <2> QED
    BY <1>5, <2>1, <2>2
<1>6. ASSUME NEW c \in Connection, Look(c) PROVE RemovalClears' /\ ClearInv'
  <2>1. Current.type = "message" /\ UNCHANGED <<history, record, subscribed>>
    BY <1>6 DEF Look, PlaceInv
  <2> QED
    BY <1>5, <1>6, <2>1, LookIs
<1>7. ASSUME NEW c \in Connection, Send(c) PROVE RemovalClears' /\ ClearInv'
  <2>1. Current.type = "message" /\ UNCHANGED <<history, record, subscribed>>
    BY <1>7 DEF Send, PlaceInv
  <2> QED
    BY <1>5, <1>7, <2>1, SendIs
<1> QED
  BY <1>1, <1>2, <1>3, <1>4, <1>6, <1>7 DEF Consume

LEMMA HandleClears ==
  ASSUME RealtimeTypeOK, PlaceInv, SocketInv, RemovalClears, ClearInv,
         NEW c \in Connection, Register(c) \/ Handle(c)
  PROVE  RemovalClears' /\ ClearInv'
<1> USE DEF conversation, redis
<1>1. ASSUME UNCHANGED <<history, consumer, record, subscribed>> PROVE RemovalClears' /\ ClearInv'
  BY <1>1, SubscribedKeep
<1>2. CASE Register(c)
  <2>1. /\ UNCHANGED <<history, consumer, subscribed>> /\ record' = record \union {c}
        /\ subscribed[c] = 0
    BY <1>2 DEF Register, Recorded, SocketInv
  <2> QED
    BY <2>1, SubscribedKeep
<1>3. CASE Removed(c)
  <2>1. UNCHANGED <<history, consumer>>
        /\ \A d \in record' : d \in record /\ subscribed'[d] \in {0, subscribed[d]}
    BY <1>3, FewerSubscribed DEF Removed
  <2> QED
    BY <2>1, SubscribedKeep
<1>4. CASE Subscribe(c) \/ Unsubscribe(c)
  <2>1. /\ UNCHANGED <<history, consumer>>
        /\ \A d \in record' : d \in record /\ subscribed'[d] \in {0, consumer.next, subscribed[d]}
    BY <1>4, FewerSubscribed DEF Subscribe, Unsubscribe
  <2> QED
    BY <2>1, SubscribedKeep
<1>5. \A op : Ask(c, op) \/ Authorize(c, op) =>
         Removed(c) \/ UNCHANGED <<history, consumer, record, subscribed>>
  BY DEF Ask, Authorize
<1>6. TypeToNobody(c) => Removed(c) \/ UNCHANGED <<history, consumer, record, subscribed>>
  BY DEF TypeToNobody
<1>7. \A d : Type(c, d) => UNCHANGED <<history, consumer, record, subscribed>>
  BY DEF Type
<1> QED
  BY <1>1, <1>2, <1>3, <1>4, <1>5, <1>6, <1>7 DEF Handle

LEMMA ClearsKept ==
  RealtimeTypeOK /\ PlaceInv /\ SocketInv /\ RemovalClears /\ ClearInv /\ RealtimeNext =>
     RemovalClears' /\ ClearInv'
<1> SUFFICES ASSUME RealtimeTypeOK, PlaceInv, SocketInv, RemovalClears, ClearInv, RealtimeNext
             PROVE  RemovalClears' /\ ClearInv'
  OBVIOUS
<1> USE DEF conversation, redis
<1>1. ASSUME UNCHANGED <<history, consumer>>,
             \A c \in record' : c \in record /\ subscribed'[c] \in {0, subscribed[c]}
      PROVE  RemovalClears' /\ ClearInv'
  BY <1>1, SubscribedKeep
<1>2. CASE Publishing
  <2>1. UNCHANGED <<consumer, record, subscribed>>
    BY <1>2, PublishingIs, PublishIs
  <2> QED
    BY <1>2, <2>1, SubscribedKeep
<1>3. CASE Crash \/ Reconnect
  <2>1. /\ history' = history /\ consumer'.next = consumer.next /\ consumer'.stage = "ready"
        /\ \A c \in record' : c \in record /\ subscribed'[c] \in {0, subscribed[c]}
    BY <1>3, BackIs, FewerSubscribed DEF RemoveInstance
  <2> QED
    BY <2>1, SubscribedKeep
<1>4. ASSUME NEW c \in Connection, Disconnect(c) PROVE RemovalClears' /\ ClearInv'
  BY <1>1, <1>4, FewerSubscribed DEF Disconnect, Removed
<1>5. ASSUME NEW c \in Connection, Expire(c) PROVE RemovalClears' /\ ClearInv'
  BY <1>1, <1>5 DEF Expire
<1>6. ASSUME NEW i \in Instance, ListenerDies(i) \/ Die(i) PROVE RemovalClears' /\ ClearInv'
  BY <1>1, <1>6 DEF ListenerDies, Die
<1>7. ASSUME NEW i \in Instance, Shutdown(i) PROVE RemovalClears' /\ ClearInv'
  BY <1>1, <1>7, FewerSubscribed DEF Shutdown, RemoveInstance
<1>8. ASSUME NEW m \in Leavers, Learn(m) PROVE RemovalClears' /\ ClearInv'
  BY <1>1, <1>8 DEF Learn
<1>9. ASSUME NEW i \in Instance, Listen(i) PROVE RemovalClears' /\ ClearInv'
  <2>1. ASSUME NEW c \in Connection, RevokeStored(i, c) PROVE RemovalClears' /\ ClearInv'
    BY <1>1, <2>1, FewerSubscribed DEF RevokeStored
  <2>2. Hear(i) \/ Admit(i) \/ Enqueue(i) \/ Revoke(i) \/ RevokeAgain(i) \/ RevokeList(i) =>
           UNCHANGED <<history, consumer, record, subscribed>>
    BY DEF Hear, Admit, Enqueue, Revoke, RevokeAgain, RevokeList
  <2> QED
    BY <1>1, <1>9, <2>1, <2>2 DEF Listen
<1> QED
  BY <1>2, <1>3, <1>4, <1>5, <1>6, <1>7, <1>8, <1>9, ConsumeClears, HandleClears
     DEF RealtimeNext, Failing

-----------------------------------------------------------------------------
(* What a socket is owed, it gets.                                         *)

\* NothingLost, in the terms of the invariant.
NothingOwed ==
    \A c \in record : \A k \in 1 .. consumer.next - 1 :
        history[k].type = "message" /\ Owed(c, k) /\ ~Gone(Principal[c], k) => Delivered(c, k)

LEMMA OwedIs == (NothingLost <=> NothingOwed) /\ (NothingLost' <=> NothingOwed')
  BY DEF NothingLost, NothingOwed, Owed, Delivered

LEMMA PastGone ==
  ASSUME RealtimeTypeOK, PlaceInv, history' = history \/ Publishing
  PROVE  \A m : \A k \in 1 .. consumer.next : Gone(m, k)' <=> Gone(m, k)
<1>1. consumer.next \in 1 .. Len(history) + 1 /\ Len(history) \in Nat
  BY DEF RealtimeTypeOK, PlaceInv
<1>2. CASE history' = history
  BY <1>2 DEF Gone
<1>3. CASE Publishing
  <2>1. \A k \in 1 .. consumer.next : k \in 0 .. Len(history) + 1
    BY <1>1
  <2> QED
    BY <1>3, <2>1, PublishingIs, PublishGone
<1> QED
  BY <1>2, <1>3

\* A step that leaves the consumer where it is, or sends it back, may owe less.
LEMMA DeliveryKeep ==
  ASSUME RealtimeTypeOK, PlaceInv, NothingLost, DeliveryInv,
         history' = history \/ Publishing,
         \/ consumer' = consumer
         \/ consumer'.next = consumer.next /\ consumer'.stage = "ready",
         \A c \in record' : \A k \in 1 .. consumer.next : Owed(c, k)' =>
            c \in record /\ Owed(c, k) /\ (Delivered(c, k) => Delivered(c, k)')
  PROVE  NothingLost' /\ DeliveryInv'
<1>1. consumer'.next = consumer.next /\ consumer.next \in Nat \ {0} /\ NothingOwed
  BY PastKept, OwedIs
<1>2. NothingOwed'
  <2> SUFFICES ASSUME NEW c \in record', NEW k \in 1 .. consumer.next - 1,
                      history'[k].type = "message", Owed(c, k)', ~Gone(Principal[c], k)'
               PROVE  Delivered(c, k)'
    BY <1>1 DEF NothingOwed
  <2>1. k \in 1 .. consumer.next /\ history'[k] = history[k]
    BY <1>1, PastKept
  <2>2. ~Gone(Principal[c], k)
    BY <2>1, PastGone
  <2> QED
    BY <1>1, <2>1, <2>2 DEF NothingOwed
<1>3. DeliveryInv'
  <2>1. CASE consumer'.stage = "ready"
    BY <2>1 DEF DeliveryInv, At
  <2>2. CASE consumer' = consumer
    <3> SUFFICES ASSUME NEW c \in record', Owed(c, consumer.next)'
                 PROVE  /\ At("look") => c \in consumer.todo \union consumer.found
                        /\ At("send") => c \in consumer.todo \/ Delivered(c, consumer.next)'
      BY <2>2 DEF DeliveryInv, At
    <3>1. \A k : k = consumer.next =>
             /\ k \in 1 .. consumer.next /\ (Owed(c, consumer.next)' <=> Owed(c, k)')
             /\ Delivered(c, consumer.next)' <=> Delivered(c, k)'
      BY <1>1 DEF Owed, Delivered, OnItsWay
    <3>2. /\ c \in record /\ Owed(c, consumer.next)
          /\ Delivered(c, consumer.next) => Delivered(c, consumer.next)'
      BY <3>1
    <3> QED
      BY <3>2 DEF DeliveryInv
  <2> QED
    BY <2>1, <2>2
<1> QED
  BY <1>2, <1>3, OwedIs

\* One that finishes the event.
LEMMA FinishDelivers ==
  ASSUME RealtimeTypeOK, history' = history, record' = record,
         consumer'.next = consumer.next + 1, consumer'.stage = "ready",
         \A c \in record : \A k \in 1 .. consumer.next :
            history[k].type = "message" /\ Owed(c, k)' /\ ~Gone(Principal[c], k) => Delivered(c, k)'
  PROVE  NothingLost' /\ DeliveryInv'
<1>1. consumer.next \in Nat
  BY DEF RealtimeTypeOK, Places
<1>2. NothingOwed'
  <2> SUFFICES ASSUME NEW c \in record', NEW k \in 1 .. consumer'.next - 1,
                      history'[k].type = "message", Owed(c, k)', ~Gone(Principal[c], k)'
               PROVE  Delivered(c, k)'
    BY DEF NothingOwed
  <2>1. ~Gone(Principal[c], k)
    BY DEF Gone
  <2> QED
    BY <1>1, <2>1
<1> QED
  BY <1>2, OwedIs DEF DeliveryInv, At

\* One that goes on with it and owes nothing new.
LEMMA StageDelivers ==
  ASSUME RealtimeTypeOK, NothingLost, history' = history, record' = record,
         consumer'.next = consumer.next,
         \A c \in record : \A k \in 1 .. consumer.next - 1 : Owed(c, k)' =>
            Owed(c, k) /\ (Delivered(c, k) => Delivered(c, k)')
  PROVE  NothingLost'
<1>1. NothingOwed
  BY OwedIs
<1>2. NothingOwed'
  <2> SUFFICES ASSUME NEW c \in record, NEW k \in 1 .. consumer.next - 1,
                      history[k].type = "message", Owed(c, k)', ~Gone(Principal[c], k)'
               PROVE  Delivered(c, k)'
    BY DEF NothingOwed
  <2>1. ~Gone(Principal[c], k)
    BY DEF Gone
  <2> QED
    BY <1>1, <2>1 DEF NothingOwed
<1> QED
  BY <1>2, OwedIs

\* Publishing to a channel takes nothing away, and a socket's instance that listens has it.
LEMMA TellDelivers ==
  ASSUME RealtimeTypeOK, NEW notice \in Notices, NEW I \in SUBSET Instance, Tell(notice, I),
         UNCHANGED listener
  PROVE  \A c \in Connection : \A k :
            /\ OnItsWay(c, k) => OnItsWay(c, k)'
            /\ /\ notice.op = "deliver" /\ notice.to = c /\ notice.frame = k
               /\ Home[c] \in I \intersect listening
               => OnItsWay(c, k)'
<1> SUFFICES ASSUME NEW c \in Connection, NEW k
             PROVE  /\ OnItsWay(c, k) => OnItsWay(c, k)'
                    /\ /\ notice.op = "deliver" /\ notice.to = c /\ notice.frame = k
                       /\ Home[c] \in I \intersect listening
                       => OnItsWay(c, k)'
  OBVIOUS
<1>0. Home[c] \in Instance
  BY HomeAssumption
<1>1. \A n \in DOMAIN channel[Home[c]] :
         n \in DOMAIN channel'[Home[c]] /\ channel'[Home[c]][n] = channel[Home[c]][n]
  BY <1>0, CarryTypes DEF Tell
<1>2. Home[c] \in I \intersect listening =>
         /\ Len(channel[Home[c]]) + 1 \in DOMAIN channel'[Home[c]]
         /\ channel'[Home[c]][Len(channel[Home[c]]) + 1] = notice
  BY <1>0, CarryTypes DEF Tell
<1> QED
  BY <1>0, <1>1, <1>2 DEF OnItsWay

LEMMA ListDelivers ==
  ASSUME RealtimeTypeOK, NothingLost, Current \in Events, List,
         UNCHANGED <<history, redis, sockets, frames, channels>>
  PROVE  NothingLost' /\ DeliveryInv'
<1> USE DEF redis, sockets, frames, channels
<1>0. consumer \in Places /\ record \subseteq Connection
  BY DEF RealtimeTypeOK
<1>1. \A c, k : (Owed(c, k)' <=> Owed(c, k)) /\ (Delivered(c, k)' <=> Delivered(c, k))
  BY DEF Owed, Open, IsActive, Delivered, Told, OnItsWay
<1>2. CASE Current.type # "message"
  <2>1. consumer'.next = consumer.next /\ consumer'.stage = "clear"
    BY <1>0, <1>2, ListIs
  <2>2. NothingLost'
    BY <1>1, <2>1, StageDelivers
  <2> QED
    BY <2>1, <2>2 DEF DeliveryInv, At
<1>3. CASE Current.type = "message"
  <2>1. \A c : Concerns(c)
    BY <1>3 DEF Concerns, Events
  <2>2. CASE record = {}
    <3>1. consumer'.next = consumer.next + 1 /\ consumer'.stage = "ready"
      BY <1>0, <1>3, <2>2, ListIs
    <3> QED
      BY <2>2, <3>1, FinishDelivers
  <2>3. CASE record # {}
    <3>1. consumer'.next = consumer.next /\ consumer'.stage = "look" /\ consumer'.todo = record
      BY <1>0, <1>3, <2>1, <2>3, ListIs
    <3>2. NothingLost'
      BY <1>1, <3>1, StageDelivers
    <3> QED
      BY <3>1, <3>2 DEF DeliveryInv, At
  <2> QED
    BY <2>2, <2>3
<1> QED
  BY <1>2, <1>3

\* A member who is active again has no subscription from before he departed.
LEMMA ReactivatedOwed ==
  ASSUME RealtimeTypeOK, HistoryInv, RemovalClears, Current \in Events,
         consumer.next \in DOMAIN history, Current.type = "reactivated",
         NEW c \in record, Principal[c] = Current.member,
         NEW k \in 1 .. consumer.next, history[k].type = "message",
         subscribed[c] \in 1 .. k - 1, ~Gone(Principal[c], k)
  PROVE  FALSE
<1>0. consumer.next \in Nat
  BY DEF RealtimeTypeOK, Places
<1>1. Gone(Principal[c], consumer.next) /\ k < consumer.next
  <2>1. Gone(Principal[c], consumer.next)
    BY DEF HistoryInv, Current
  <2>2. k # consumer.next
    BY DEF Current
  <2> QED
    BY <1>0, <2>1, <2>2
<1>2. PICK d \in 1 .. consumer.next - 1 :
         /\ history[d] = Event("departed", Principal[c])
         /\ \A j \in d + 1 .. consumer.next - 1 : history[j] # Event("reactivated", Principal[c])
  BY <1>1 DEF Gone
<1>3. d # k
  BY <1>2 DEF Event
<1>4. CASE d < k
  <2>1. d \in 1 .. k - 1 /\ \A j \in d + 1 .. k - 1 : j \in d + 1 .. consumer.next - 1
    BY <1>0, <1>1, <1>2, <1>4
  <2> QED
    BY <1>2, <2>1 DEF Gone
<1>5. CASE k < d
  <2>1. d \in subscribed[c] + 1 .. consumer.next - 1 /\ subscribed[c] # 0
    BY <1>0, <1>2, <1>5
  <2> QED
    BY <1>2, <2>1 DEF RemovalClears
<1> QED
  BY <1>0, <1>2, <1>3, <1>4, <1>5

LEMMA TakeDelivers ==
  ASSUME RealtimeTypeOK, PlaceInv, HistoryInv, RemovalClears, NothingLost, Take
  PROVE  NothingLost' /\ DeliveryInv'
<1> USE DEF conversation, redis, sockets, frames, channels
<1>0. /\ consumer.next \in DOMAIN history /\ Current \in Events
      /\ UNCHANGED <<history, record, subscribed, sockets, frames, channels>>
  BY TakeIs DEF Take
<1>1. consumer \in Places /\ DOMAIN status = Member /\ record \subseteq Connection
      /\ consumer.next \in Nat /\ \A c \in Connection : Principal[c] \in Member
  BY PrincipalAssumption DEF RealtimeTypeOK, Places
<1>2. \A c, k : Delivered(c, k)' <=> Delivered(c, k)
  BY <1>0 DEF Delivered, Told, OnItsWay
<1>3. CASE Current.type = "reactivated"
  <2>1. /\ status' = [status EXCEPT ![Current.member] = "ACTIVE"]
        /\ consumer'.next = consumer.next + 1 /\ consumer'.stage = "ready"
    BY <1>0, <1>1, <1>3, TakeIs, FinishIs
  <2>2. ASSUME NEW c \in record, NEW k \in 1 .. consumer.next,
               history[k].type = "message", Owed(c, k)', ~Gone(Principal[c], k)
        PROVE  Delivered(c, k)'
    <3>1. subscribed[c] \in 1 .. k - 1
      BY <1>0, <2>2 DEF Owed
    <3>2. Principal[c] # Current.member
      BY <1>0, <1>3, <2>2, <3>1, ReactivatedOwed
    <3>3. status'[Principal[c]] = status[Principal[c]]
      BY <1>1, <2>1, <3>2
    <3>4. Owed(c, k)
      BY <1>0, <2>2, <3>3 DEF Owed, Open, IsActive
    <3>5. k \in 1 .. consumer.next - 1
      BY <1>1, <1>3, <2>2 DEF Current
    <3>6. NothingOwed
      BY OwedIs
    <3> QED
      BY <1>2, <2>2, <3>4, <3>5, <3>6 DEF NothingOwed
  <2> QED
    BY <1>0, <2>1, <2>2, FinishDelivers
<1>4. CASE Current.type = "departed"
  <2>1. /\ status' = [status EXCEPT ![Current.member] = "GONE"]
        /\ consumer'.next = consumer.next /\ consumer'.stage = "list"
    <3>1. Continue("list", {}, {}) /\ status' = [status EXCEPT ![Current.member] = "GONE"]
      BY <1>4, TakeIs
    <3> QED
      BY <1>1, <3>1 DEF Continue, Places
  <2>2. \A c \in record : \A k : Owed(c, k)' => Owed(c, k)
    BY <1>0, <1>1, <2>1 DEF Owed, Open, IsActive
  <2>3. NothingLost'
    BY <1>0, <1>2, <2>1, <2>2, StageDelivers
  <2> QED
    BY <2>1, <2>3 DEF DeliveryInv, At
<1>5. CASE Current.type \notin {"reactivated", "departed"}
  <2>1. status' = status /\ List
    BY <1>5, TakeIs
  <2> QED
    BY <1>0, <2>1, ListDelivers
<1> QED
  BY <1>3, <1>4, <1>5

LEMMA ClearDelivers ==
  ASSUME RealtimeTypeOK, NothingLost, NEW c \in Connection, Clear(c)
  PROVE  NothingLost' /\ DeliveryInv'
<1> USE DEF conversation, sockets, frames, channels
<1>1. /\ UNCHANGED <<history, record, status, sockets, frames, channels>>
      /\ subscribed' = [subscribed EXCEPT ![c] = 0]
  BY DEF Clear, Store
<1>2. consumer'.next = consumer.next /\ consumer'.stage = "clear"
  BY ClearIs
<1>3. \A d \in record : subscribed'[d] \in {0, subscribed[d]}
  BY <1>1 DEF RealtimeTypeOK
<1>4. \A d \in record : \A k : /\ Owed(d, k)' => Owed(d, k)
                               /\ Delivered(d, k)' <=> Delivered(d, k)
  BY <1>1, <1>3 DEF Owed, Open, IsActive, Delivered, Told, OnItsWay
<1>5. NothingLost'
  BY <1>1, <1>2, <1>4, StageDelivers
<1> QED
  BY <1>2, <1>5 DEF DeliveryInv, At

LEMMA ClearedDelivers ==
  ASSUME RealtimeTypeOK, PlaceInv, NothingLost, Cleared
  PROVE  NothingLost' /\ DeliveryInv'
<1> USE DEF conversation, redis, sockets, frames
<1>0. /\ UNCHANGED <<history, redis, sockets, frames, listening, listener>>
      /\ record \subseteq Connection
  BY DEF Cleared, RealtimeTypeOK
<1>1. /\ consumer'.next = consumer.next + 1 /\ consumer'.stage = "ready"
      /\ consumer.next \in Nat
  BY FinishIs DEF Cleared, RealtimeTypeOK, Places
<1>2. Current \in Events /\ Current.type # "message"
  BY DEF Cleared, PlaceInv, At, RealtimeTypeOK, Current
<1>3. \A c \in Connection : \A k : OnItsWay(c, k) => OnItsWay(c, k)'
  <2>1. CASE Current.type = "departed"
    <3> DEFINE notice == [op |-> "revoke", member |-> Current.member, to |-> 0, frame |-> 0]
    <3>1. notice \in Notices
      BY <1>2, <2>1 DEF Events, Notices
    <3>2. Tell(notice, Instance)
      BY <2>1 DEF Cleared
    <3> HIDE DEF notice
    <3> QED
      BY <1>0, <3>1, <3>2, TellDelivers
  <2>2. CASE Current.type # "departed"
    <3>1. channel' = channel
      BY <2>2 DEF Cleared
    <3> QED
      BY <1>0, <3>1 DEF OnItsWay
  <2> QED
    BY <2>1, <2>2
<1>4. \A c \in Connection : \A k : (Owed(c, k)' => Owed(c, k)) /\ (Delivered(c, k) => Delivered(c, k)')
  BY <1>0, <1>3 DEF Owed, Open, IsActive, Delivered, Told
<1>5. ASSUME NEW c \in record, NEW k \in 1 .. consumer.next,
             history[k].type = "message", Owed(c, k)', ~Gone(Principal[c], k)
      PROVE  Delivered(c, k)'
  <2>1. k \in 1 .. consumer.next - 1
    BY <1>1, <1>2, <1>5 DEF Current
  <2>2. NothingOwed
    BY OwedIs
  <2> QED
    BY <1>0, <1>4, <1>5, <2>1, <2>2 DEF NothingOwed
<1> QED
  BY <1>0, <1>1, <1>5, FinishDelivers

\* Who is owed the message and looked at is found.
LEMMA LookDelivers ==
  ASSUME RealtimeTypeOK, NothingLost, DeliveryInv, NEW c \in Connection, Look(c)
  PROVE  NothingLost' /\ DeliveryInv'
<1> USE DEF conversation, redis, sockets, frames, channels
<1>0. /\ UNCHANGED <<history, redis, sockets, frames, channels>> /\ At("look")
      /\ consumer.next \in Nat \ {0} /\ record \subseteq Connection
  BY DEF Look, RealtimeTypeOK, Places
<1>1. \A d, k : (Owed(d, k)' <=> Owed(d, k)) /\ (Delivered(d, k)' <=> Delivered(d, k))
  BY <1>0 DEF Owed, Open, IsActive, Delivered, Told, OnItsWay
<1>2. \A d \in record : Owed(d, consumer.next) => d \in (consumer.todo \ {c}) \union Found(c)
  <2> SUFFICES ASSUME NEW d \in record, Owed(d, consumer.next)
               PROVE  d \in (consumer.todo \ {c}) \union Found(c)
    OBVIOUS
  <2>1. d \in consumer.todo \union consumer.found
    BY <1>0 DEF DeliveryInv
  <2>2. IsActive(Principal[d]) /\ subscribed[d] # 0
    BY <1>0 DEF Owed
  <2> QED
    BY <2>1, <2>2 DEF Found
<1>3. CASE consumer.todo = {c} /\ Found(c) = {}
  <2>1. consumer'.next = consumer.next + 1 /\ consumer'.stage = "ready"
    BY <1>3, LookIs
  <2>2. ASSUME NEW d \in record, NEW k \in 1 .. consumer.next,
               history[k].type = "message", Owed(d, k)', ~Gone(Principal[d], k)
        PROVE  Delivered(d, k)'
    <3>1. Owed(d, k)
      BY <1>1, <2>2
    <3>2. k # consumer.next
      BY <1>2, <1>3, <3>1
    <3>3. k \in 1 .. consumer.next - 1 /\ NothingOwed
      BY <1>0, <3>2, OwedIs
    <3> QED
      BY <1>1, <2>2, <3>1, <3>3 DEF NothingOwed
  <2> QED
    BY <1>0, <2>1, <2>2, FinishDelivers
<1>4. CASE ~(consumer.todo = {c} /\ Found(c) = {})
  <2>1. /\ consumer'.next = consumer.next
        /\ \/ /\ consumer'.stage = "look" /\ consumer'.todo = consumer.todo \ {c}
              /\ consumer'.found = Found(c)
           \/ /\ consumer'.stage = "send" /\ consumer'.todo = Found(c) /\ consumer.todo = {c}
    BY <1>4, LookIs
  <2>2. NothingLost'
    BY <1>0, <1>1, <2>1, StageDelivers
  <2>3. DeliveryInv'
    <3> SUFFICES ASSUME NEW d \in record, Owed(d, consumer.next)'
                 PROVE  /\ At("look")' => d \in consumer'.todo \union consumer'.found
                        /\ At("send")' => d \in consumer'.todo
      BY <1>0 DEF DeliveryInv
    <3>1. Owed(d, consumer.next)
      BY <1>0, <2>1 DEF Owed, Open, IsActive
    <3>2. d \in (consumer.todo \ {c}) \union Found(c)
      BY <1>2, <3>1
    <3> QED
      BY <2>1, <3>2 DEF At
  <2> QED
    BY <2>2, <2>3
<1> QED
  BY <1>3, <1>4

LEMMA SendDelivers ==
  ASSUME RealtimeTypeOK, NothingLost, DeliveryInv, NEW c \in Connection, Send(c)
  PROVE  NothingLost' /\ DeliveryInv'
<1> USE DEF conversation, redis, sockets, frames
<1>0. /\ UNCHANGED <<history, redis, sockets, frames, listening, listener>> /\ At("send")
      /\ consumer.next \in Nat \ {0} /\ record \subseteq Connection
  BY DEF Send, RealtimeTypeOK, Places
<1>1. \A d \in Connection : \A k :
         /\ OnItsWay(d, k) => OnItsWay(d, k)'
         /\ d = c /\ k = consumer.next /\ IsActive(Principal[c]) /\ Home[c] \in listening =>
               OnItsWay(d, k)'
  <2>1. CASE IsActive(Principal[c])
    <3> DEFINE notice == [op |-> "deliver", member |-> 0, to |-> c, frame |-> consumer.next]
    <3>1. notice \in Notices /\ {Home[c]} \in SUBSET Instance
      BY <1>0, HomeAssumption DEF Notices
    <3>2. Tell(notice, {Home[c]})
      BY <2>1 DEF Send
    <3>3. notice.op = "deliver" /\ notice.to = c /\ notice.frame = consumer.next
      OBVIOUS
    <3> HIDE DEF notice
    <3> QED
      BY <1>0, <3>1, <3>2, <3>3, TellDelivers
  <2>2. CASE ~IsActive(Principal[c])
    <3>1. channel' = channel
      BY <2>2 DEF Send
    <3> QED
      BY <1>0, <2>2, <3>1 DEF OnItsWay
  <2> QED
    BY <2>1, <2>2
<1>2. \A d \in record : \A k :
         /\ Owed(d, k)' <=> Owed(d, k)
         /\ Delivered(d, k) => Delivered(d, k)'
         /\ Owed(d, k) /\ d = c /\ k = consumer.next => Delivered(d, k)'
  BY <1>0, <1>1 DEF Owed, Open, IsActive, Delivered, Told
<1>3. CASE consumer.todo = {c}
  <2>1. consumer'.next = consumer.next + 1 /\ consumer'.stage = "ready"
    BY <1>3, SendIs
  <2>2. ASSUME NEW d \in record, NEW k \in 1 .. consumer.next,
               history[k].type = "message", Owed(d, k)', ~Gone(Principal[d], k)
        PROVE  Delivered(d, k)'
    <3>1. Owed(d, k)
      BY <1>2, <2>2
    <3>2. CASE k = consumer.next
      <4>1. d = c \/ Delivered(d, k)
        BY <1>0, <1>3, <3>1, <3>2 DEF DeliveryInv
      <4> QED
        BY <1>2, <3>1, <3>2, <4>1
    <3>3. CASE k # consumer.next
      <4>1. k \in 1 .. consumer.next - 1 /\ NothingOwed
        BY <1>0, <3>3, OwedIs
      <4> QED
        BY <1>2, <2>2, <3>1, <4>1 DEF NothingOwed
    <3> QED
      BY <3>2, <3>3
  <2> QED
    BY <1>0, <2>1, <2>2, FinishDelivers
<1>4. CASE consumer.todo # {c}
  <2>1. /\ consumer'.next = consumer.next /\ consumer'.stage = "send"
        /\ consumer'.todo = consumer.todo \ {c}
    BY <1>4, SendIs
  <2>2. NothingLost'
    BY <1>0, <1>2, <2>1, StageDelivers
  <2>3. DeliveryInv'
    <3> SUFFICES ASSUME NEW d \in record, Owed(d, consumer.next)'
                 PROVE  d \in consumer'.todo \/ Delivered(d, consumer.next)'
      BY <1>0, <2>1 DEF DeliveryInv, At
    <3>1. Owed(d, consumer.next)
      BY <1>0, <2>1 DEF Owed, Open, IsActive
    <3>2. d \in consumer.todo \/ Delivered(d, consumer.next)
      BY <1>0, <3>1 DEF DeliveryInv
    <3>3. \A k : k = consumer.next => (Delivered(d, k)' <=> Delivered(d, consumer.next)')
      BY <2>1 DEF Delivered, OnItsWay
    <3> QED
      BY <1>2, <2>1, <3>1, <3>2, <3>3
  <2> QED
    BY <2>2, <2>3
<1> QED
  BY <1>3, <1>4

LEMMA ConsumeDelivers ==
  ASSUME RealtimeTypeOK, PlaceInv, HistoryInv, RemovalClears, NothingLost, DeliveryInv, Consume
  PROVE  NothingLost' /\ DeliveryInv'
<1>1. CASE ListDeparted
  <2>1. /\ Current \in Events /\ List
        /\ UNCHANGED <<history, redis, sockets, frames, channels>>
    BY <1>1, ConsumeIs DEF ListDeparted, conversation
  <2> QED
    BY <2>1, ListDelivers
<1> QED
  BY <1>1, TakeDelivers, ClearDelivers, ClearedDelivers, LookDelivers, SendDelivers DEF Consume

\* Nobody is owed more by a subscription that is written now, a socket that closes or a
\* member who departs.
LEMMA FewerOwed ==
  ASSUME RealtimeTypeOK, record' \subseteq Connection,
         \A m \in Member : status'[m] \in {status[m], "GONE"},
         \A c \in record' : \/ subscribed'[c] \in {0, consumer.next}
                            \/ /\ c \in record /\ subscribed'[c] = subscribed[c]
                               /\ socket'[c] \in {socket[c], "closed"}
  PROVE  \A c \in record' : \A k \in 1 .. consumer.next : Owed(c, k)' =>
            /\ c \in record /\ Home[c] \in listening' /\ Open(c)'
            /\ Home[c] \in listening => Owed(c, k)
<1> SUFFICES ASSUME NEW c \in record', NEW k \in 1 .. consumer.next, Owed(c, k)'
             PROVE  /\ c \in record /\ Home[c] \in listening' /\ Open(c)'
                    /\ Home[c] \in listening => Owed(c, k)
  OBVIOUS
<1>1. consumer.next \in Nat /\ Principal[c] \in Member
  BY PrincipalAssumption DEF RealtimeTypeOK, Places
<1>2. subscribed'[c] \in 1 .. k - 1 /\ socket'[c] = "open" /\ status'[Principal[c]] = "ACTIVE"
      /\ Home[c] \in listening'
  BY DEF Owed, Open, IsActive
<1>3. subscribed'[c] \notin {0, consumer.next}
  BY <1>1, <1>2
<1>4. c \in record /\ subscribed'[c] = subscribed[c] /\ socket[c] = "open"
      /\ status[Principal[c]] = "ACTIVE"
  BY <1>1, <1>2, <1>3
<1> QED
  BY <1>2, <1>4 DEF Owed, Open, IsActive

\* A step that leaves frames, channels and listeners alone, or only tells sockets to catch up.
LEMMA QuietDelivers ==
  ASSUME RealtimeTypeOK, PlaceInv, NothingLost, DeliveryInv, record' \subseteq Connection,
         history' = history \/ Publishing,
         \/ consumer' = consumer
         \/ consumer'.next = consumer.next /\ consumer'.stage = "ready",
         \A m \in Member : status'[m] \in {status[m], "GONE"},
         \A c \in record' : \/ subscribed'[c] \in {0, consumer.next}
                            \/ /\ c \in record /\ subscribed'[c] = subscribed[c]
                               /\ socket'[c] \in {socket[c], "closed"},
         UNCHANGED <<shown, channel, listener, listening>>, resync \subseteq resync'
  PROVE  NothingLost' /\ DeliveryInv'
<1>1. \A c, k : Delivered(c, k) => Delivered(c, k)'
  BY DEF Delivered, Told, OnItsWay
<1> QED
  BY <1>1, FewerOwed, DeliveryKeep

LEMMA HandleDelivers ==
  ASSUME RealtimeTypeOK, PlaceInv, SocketInv, NothingLost, DeliveryInv, RealtimeTypeOK',
         NEW c \in Connection, Register(c) \/ Handle(c)
  PROVE  NothingLost' /\ DeliveryInv'
<1> USE DEF conversation, redis, sockets, frames, channels
<1>0. record' \subseteq Connection /\ DOMAIN subscribed = Connection /\ DOMAIN socket = Connection
  BY DEF RealtimeTypeOK
<1>1. CASE Register(c)
  <2>1. /\ UNCHANGED <<history, consumer, subscribed, status, shown, channel, listener, listening,
                       resync>>
        /\ record' = record \union {c} /\ socket' = [socket EXCEPT ![c] = "open"]
        /\ subscribed[c] = 0
    BY <1>1 DEF Register, Recorded, SocketInv
  <2>2. \A d \in record' : \/ subscribed'[d] = 0
                           \/ /\ d \in record /\ subscribed'[d] = subscribed[d]
                              /\ socket'[d] = socket[d]
    BY <1>0, <2>1
  <2> QED
    BY <1>0, <2>1, <2>2, QuietDelivers
<1>2. CASE Removed(c)
  <2>1. \A d \in record' : d \in record /\ subscribed'[d] \in {0, subscribed[d]}
    BY <1>2, FewerSubscribed DEF Removed
  <2>2. \A d \in record' : socket'[d] \in {socket[d], "closed"}
    BY <1>0, <1>2 DEF Removed
  <2> QED
    BY <1>0, <1>2, <2>1, <2>2, QuietDelivers DEF Removed
<1>3. ASSUME UNCHANGED <<history, consumer, record, subscribed, status, socket, shown, channel,
                         listener, listening>>,
             resync \subseteq resync'
      PROVE  NothingLost' /\ DeliveryInv'
  BY <1>0, <1>3, QuietDelivers
<1>4. CASE Subscribe(c) \/ Unsubscribe(c)
  <2>1. \A d \in record' : d \in record /\ subscribed'[d] \in {0, consumer.next, subscribed[d]}
    BY <1>4, FewerSubscribed DEF Subscribe, Unsubscribe
  <2> QED
    BY <1>0, <1>4, <2>1, QuietDelivers DEF Subscribe, Unsubscribe
<1>5. ASSUME NEW op, Ask(c, op) \/ Authorize(c, op) PROVE NothingLost' /\ DeliveryInv'
  <2>1. CASE UNCHANGED <<conversation, consumer, redis, socket, here, frames, channels>>
    BY <1>3, <2>1
  <2> QED
    BY <1>2, <1>5, <2>1 DEF Ask, Authorize
<1>6. CASE TypeToNobody(c)
  <2>1. CASE UNCHANGED <<conversation, consumer, redis, socket, here, frames, channels>>
    BY <1>3, <2>1
  <2> QED
    BY <1>2, <1>6, <2>1 DEF TypeToNobody
<1>7. ASSUME NEW d \in Connection, Type(c, d) PROVE NothingLost' /\ DeliveryInv'
  <2>1. CASE Home[d] # Home[c]
    <3> DEFINE notice == [op |-> "typing", member |-> 0, to |-> d, frame |-> Typing]
    <3>1. notice \in Notices /\ {Home[d]} \in SUBSET Instance
      BY HomeAssumption DEF Notices, Typing
    <3>2. /\ Tell(notice, {Home[d]})
          /\ UNCHANGED <<conversation, consumer, redis, frames, socket, listening, listener>>
      BY <1>7, <2>1 DEF Type
    <3> HIDE DEF notice
    <3>3. \A e \in Connection : \A k : OnItsWay(e, k) => OnItsWay(e, k)'
      BY <3>1, <3>2, TellDelivers
    <3>4. \A e \in Connection : \A k : (Owed(e, k)' => Owed(e, k))
                                       /\ (Delivered(e, k) => Delivered(e, k)')
      BY <3>2, <3>3 DEF Owed, Open, IsActive, Delivered, Told
    <3> QED
      BY <1>0, <3>2, <3>4, DeliveryKeep
  <2>2. CASE Home[d] = Home[c]
    <3>1. UNCHANGED shown /\ resync \subseteq resync'
      BY <1>7, <2>2 DEF Type, Put
    <3> QED
      BY <1>3, <1>7, <2>2, <3>1 DEF Type
  <2> QED
    BY <2>1, <2>2
<1> QED
  BY <1>1, <1>4, <1>5, <1>6, <1>7 DEF Handle

\* What an instance takes from its channel it shows, unless the socket is gone or its member.
LEMMA ListenDelivers ==
  ASSUME RealtimeTypeOK, PlaceInv, SocketInv, NothingLost, DeliveryInv, RealtimeTypeOK',
         NEW i \in Instance, Listen(i)
  PROVE  NothingLost' /\ DeliveryInv'
<1> USE DEF conversation, redis, sockets, frames, channels
<1>0. /\ record' \subseteq Connection /\ \A c \in Connection : Home[c] \in Instance
      /\ \A c \in Connection : Principal[c] \in Member
  BY HomeAssumption, PrincipalAssumption DEF RealtimeTypeOK
<1>1. ASSUME UNCHANGED <<history, consumer, record, subscribed, status, socket, listening>>,
             \A c \in Connection : \A k \in 1 .. consumer.next :
                Owed(c, k) /\ Delivered(c, k) => Delivered(c, k)'
      PROVE  NothingLost' /\ DeliveryInv'
  <2>1. \A c \in Connection : \A k : Owed(c, k)' => Owed(c, k)
    BY <1>1 DEF Owed, Open, IsActive
  <2> QED
    BY <1>0, <1>1, <2>1, DeliveryKeep
<1>2. CASE Hear(i)
  <2>1. UNCHANGED <<history, consumer, record, subscribed, status, socket, resync, shown, listening>>
    BY <1>2, HearIs
  <2>2. \A c \in Connection : \A k : OnItsWay(c, k) => OnItsWay(c, k)'
    <3> SUFFICES ASSUME NEW c \in Connection, NEW k, OnItsWay(c, k) PROVE OnItsWay(c, k)'
      OBVIOUS
    <3>1. CASE Home[c] # i
      <4>1. listener'[Home[c]] = listener[Home[c]] /\ channel'[Home[c]] = channel[Home[c]]
        BY <1>0, <1>2, <3>1, HearIs
      <4> QED
        BY <4>1 DEF OnItsWay
    <3>2. CASE Home[c] = i
      <4>1. PICK n \in DOMAIN channel[i] : /\ channel[i][n].op \in {"deliver", "put"}
                                          /\ channel[i][n].to = c /\ channel[i][n].frame = k
        BY <1>2, <3>2, HearIs DEF OnItsWay, Idle
      <4>2. \/ listener'[i] = channel[i][n]
            \/ n - 1 \in DOMAIN channel'[i] /\ channel'[i][n - 1] = channel[i][n]
        BY <1>2, HearIs
      <4> QED
        BY <3>2, <4>1, <4>2 DEF OnItsWay
    <3> QED
      BY <3>1, <3>2
  <2>3. \A c \in Connection : \A k : Delivered(c, k) => Delivered(c, k)'
    BY <2>1, <2>2 DEF Delivered, Told
  <2> QED
    BY <1>1, <2>1, <2>3
\* The other steps leave the channels, and of the listeners those of other instances.
<1>3. ASSUME UNCHANGED <<history, consumer, record, subscribed, status, socket, listening, channel>>,
             NEW hand, listener' = [listener EXCEPT ![i] = hand],
             resync \subseteq resync', \A c \in Connection : Told(c) \subseteq Told(c)',
             \A c \in Connection : \A k \in 1 .. consumer.next :
                /\ Owed(c, k) /\ Home[c] = i
                /\ listener[i].op \in {"deliver", "put"} /\ listener[i].to = c /\ listener[i].frame = k
                => \/ hand.op \in {"deliver", "put"} /\ hand.to = c /\ hand.frame = k
                   \/ k \in Told(c)' \/ c \in resync'
      PROVE  NothingLost' /\ DeliveryInv'
  <2> SUFFICES ASSUME NEW c \in Connection, NEW k \in 1 .. consumer.next,
                      Owed(c, k), Delivered(c, k)
               PROVE  Delivered(c, k)'
    BY <1>1, <1>3
  <2>1. \A j \in Instance : listener'[j] = IF j = i THEN hand ELSE listener[j]
    BY <1>3 DEF RealtimeTypeOK
  <2>2. CASE k \in Told(c) \/ c \in resync
    BY <1>3, <2>2 DEF Delivered
  <2>3. CASE OnItsWay(c, k)
    <3>1. PICK message \in {channel[Home[c]][n] : n \in DOMAIN channel[Home[c]]}
                              \union {listener[Home[c]]} :
             message.op \in {"deliver", "put"} /\ message.to = c /\ message.frame = k
      BY <2>3 DEF OnItsWay
    <3>2. CASE message \in {channel[Home[c]][n] : n \in DOMAIN channel[Home[c]]}
      BY <1>3, <3>1, <3>2 DEF OnItsWay, Delivered
    <3>3. CASE message = listener[Home[c]] /\ Home[c] # i
      BY <1>0, <2>1, <3>1, <3>3 DEF OnItsWay, Delivered
    <3>4. CASE message = listener[Home[c]] /\ Home[c] = i
      <4>1. \/ hand.op \in {"deliver", "put"} /\ hand.to = c /\ hand.frame = k
            \/ k \in Told(c)' \/ c \in resync'
        BY <1>3, <3>1, <3>4
      <4>2. listener'[Home[c]] = hand
        BY <2>1, <3>4
      <4> QED
        BY <4>1, <4>2 DEF OnItsWay, Delivered
    <3> QED
      BY <3>1, <3>2, <3>3, <3>4
  <2> QED
    BY <2>2, <2>3 DEF Delivered
<1>4. CASE Admit(i)
  <2> DEFINE hand == IF /\ Open(listener[i].to) /\ IsActive(Principal[listener[i].to])
                        /\ listener[i].op = "typing" =>
                              listener[i].to \in here /\ Principal[listener[i].to] \in granted
                     THEN [listener[i] EXCEPT !.op = "put"] ELSE Idle
  <2>1. /\ listener' = [listener EXCEPT ![i] = hand]
        /\ UNCHANGED <<history, consumer, record, subscribed, status, socket, listening, channel,
                       resync, shown>>
    BY <1>4 DEF Admit
  <2>2. ASSUME NEW c \in Connection, NEW k \in 1 .. consumer.next, Owed(c, k),
               listener[i].op \in {"deliver", "put"}, listener[i].to = c, listener[i].frame = k
        PROVE  hand.op \in {"deliver", "put"} /\ hand.to = c /\ hand.frame = k
    <3>1. Open(c) /\ IsActive(Principal[c]) /\ listener[i].op # "typing"
      BY <2>2 DEF Owed
    <3>2. hand = [listener[i] EXCEPT !.op = "put"]
      BY <2>2, <3>1
    <3> HIDE DEF hand
    <3> QED
      BY <2>2, <3>2, ListenerTypes
  <2>3. \A c \in Connection : Told(c)' = Told(c)
    BY <2>1 DEF Told
  <2> HIDE DEF hand
  <2> QED
    BY <1>3, <2>1, <2>2, <2>3
<1>5. CASE Enqueue(i)
  <2>1. /\ listener' = [listener EXCEPT ![i] = Idle] /\ Put(listener[i].to, listener[i].frame)
        /\ UNCHANGED <<history, consumer, record, subscribed, status, socket, listening, channel>>
    BY <1>5 DEF Enqueue
  <2>2. PICK d \in Connection, frame \in Nat : d = listener[i].to /\ frame = listener[i].frame
    BY <1>5, ListenerTypes DEF Enqueue
  <2>3. /\ resync \subseteq resync' /\ \A c \in Connection : Told(c) \subseteq Told(c)'
        /\ frame = Typing \/ d \in resync' \/ frame \in Told(d)'
    <3>1. shown[d] \in Seq(Nat) /\ Append(shown[d], frame) # shown[d]
      BY DEF RealtimeTypeOK
    <3>2. CASE shown' = shown
      <4>1. \A c \in Connection : Told(c)' = Told(c)
        BY <3>2 DEF Told
      <4>2. shown' = [shown EXCEPT ![d] = Append(@, frame)] => shown'[d] = Append(shown[d], frame)
        BY DEF RealtimeTypeOK
      <4> QED
        BY <2>1, <2>2, <3>1, <3>2, <4>1, <4>2 DEF Put
    <3>3. CASE shown' # shown
      <4>1. shown' = [shown EXCEPT ![d] = Append(@, frame)] /\ resync' = resync
        BY <2>1, <2>2, <3>3 DEF Put
      <4>2. \A c \in Connection : shown'[c] = IF c = d THEN Append(shown[d], frame) ELSE shown[c]
        BY <4>1 DEF RealtimeTypeOK
      <4>3. /\ \A n \in DOMAIN shown[d] : n \in DOMAIN shown'[d] /\ shown'[d][n] = shown[d][n]
            /\ Len(shown[d]) + 1 \in DOMAIN shown'[d]
            /\ shown'[d][Len(shown[d]) + 1] = frame
        <5>1. shown'[d] = Append(shown[d], frame) /\ shown[d] \in Seq(Nat)
          BY <3>1, <4>2
        <5>2. /\ DOMAIN shown[d] = 1 .. Len(shown[d]) /\ Len(shown[d]) \in Nat
              /\ Len(shown'[d]) = Len(shown[d]) + 1 /\ DOMAIN shown'[d] = 1 .. Len(shown[d]) + 1
          BY <5>1, AppendProperties
        <5>3. /\ \A n \in 1 .. Len(shown[d]) : shown'[d][n] = shown[d][n]
              /\ shown'[d][Len(shown[d]) + 1] = frame
          BY <5>1, AppendProperties
        <5> QED
          BY <5>2, <5>3
      <4>4. \A c \in Connection : Told(c) \subseteq Told(c)'
        BY <4>2, <4>3 DEF Told
      <4>5. frame \in Told(d)'
        BY <4>3 DEF Told
      <4> QED
        BY <4>1, <4>4, <4>5
    <3> QED
      BY <3>2, <3>3
  <2>4. \A c \in Connection : \A k \in 1 .. consumer.next :
           listener[i].to = c /\ listener[i].frame = k => k \in Told(c)' \/ c \in resync'
    BY <2>2, <2>3 DEF Typing
  <2>5. resync \subseteq resync' /\ \A c \in Connection : Told(c) \subseteq Told(c)'
    BY <2>3
  <2> QED
    BY <1>3, <2>1, <2>4, <2>5
<1>6. ASSUME listener[i].op \notin {"deliver", "put"}, NEW hand,
             listener' = [listener EXCEPT ![i] = hand],
             UNCHANGED <<history, consumer, record, subscribed, status, socket, listening, channel,
                         resync, shown>>
      PROVE  NothingLost' /\ DeliveryInv'
  <2>1. \A c \in Connection : Told(c)' = Told(c)
    BY <1>6 DEF Told
  <2> QED
    BY <1>3, <1>6, <2>1
<1>7. CASE RevokeList(i)
  <2>1. PICK hand : listener' = [listener EXCEPT ![i] = hand]
    BY <1>7 DEF RevokeList
  <2>2. listener[i].op = "list" /\ UNCHANGED <<history, consumer, record, subscribed, status, socket,
                                               listening, channel, resync, shown>>
    BY <1>7 DEF RevokeList
  <2> QED
    BY <1>6, <2>1, <2>2
\* The rest of a revocation takes away what is owed.
<1>8. ASSUME listener[i].op \notin {"deliver", "put"}, NEW hand,
             listener' = [listener EXCEPT ![i] = hand],
             UNCHANGED <<history, consumer, record, socket, listening, channel, resync, shown>>,
             \A m \in Member : status'[m] \in {status[m], "GONE"},
             \A c \in record : subscribed'[c] \in {0, subscribed[c]}
      PROVE  NothingLost' /\ DeliveryInv'
  <2>1. \A j \in Instance : j # i => listener'[j] = listener[j]
    BY <1>8
  <2>2. \A c \in Connection : \A k : OnItsWay(c, k) => OnItsWay(c, k)'
    <3> SUFFICES ASSUME NEW c \in Connection, NEW k, OnItsWay(c, k) PROVE OnItsWay(c, k)'
      OBVIOUS
    <3>1. PICK message \in {channel[Home[c]][n] : n \in DOMAIN channel[Home[c]]}
                              \union {listener[Home[c]]} :
             message.op \in {"deliver", "put"} /\ message.to = c /\ message.frame = k
      BY DEF OnItsWay
    <3>2. message = listener[Home[c]] => listener'[Home[c]] = message
      BY <1>0, <1>8, <2>1, <3>1
    <3> QED
      BY <1>8, <3>1, <3>2 DEF OnItsWay
  <2>3. \A c \in Connection : \A k : Delivered(c, k) => Delivered(c, k)'
    BY <1>8, <2>2 DEF Delivered, Told
  <2>4. \A c \in record : \A k \in 1 .. consumer.next : Owed(c, k)' => Owed(c, k)
    BY <1>0, <1>8, FewerOwed
  <2> QED
    BY <1>0, <1>8, <2>3, <2>4, DeliveryKeep
<1>9. CASE Revoke(i) \/ RevokeAgain(i)
  <2>1. PICK hand : listener' = [listener EXCEPT ![i] = hand]
    BY <1>9 DEF Revoke, RevokeAgain
  <2>2. /\ listener[i].op \in {"revoke", "again"}
        /\ UNCHANGED <<history, consumer, record, subscribed, socket, listening, channel, resync, shown>>
        /\ status' = [status EXCEPT ![listener[i].member] = "GONE"]
    BY <1>9 DEF Revoke, RevokeAgain
  <2>3. \A m \in Member : status'[m] \in {status[m], "GONE"}
    BY <2>2 DEF RealtimeTypeOK
  <2> QED
    BY <1>8, <2>1, <2>2, <2>3
<1>10. ASSUME NEW c \in Connection, RevokeStored(i, c) PROVE NothingLost' /\ DeliveryInv'
  <2>1. PICK hand : listener' = [listener EXCEPT ![i] = hand]
    BY <1>10 DEF RevokeStored
  <2>2. /\ listener[i].op = "clear"
        /\ UNCHANGED <<history, consumer, record, status, socket, listening, channel, resync, shown>>
        /\ \A d \in record : subscribed'[d] \in {0, subscribed[d]}
    BY <1>10, FewerSubscribed DEF RevokeStored
  <2> QED
    BY <1>8, <2>1, <2>2
<1> QED
  BY <1>2, <1>4, <1>5, <1>7, <1>9, <1>10 DEF Listen

\* An instance that ends closes the sockets that were owed what it loses; one whose
\* listener died is owed nothing.
LEMMA DropDelivers ==
  ASSUME RealtimeTypeOK, PlaceInv, NothingLost, DeliveryInv, NEW i \in Instance,
         record' \subseteq Connection, UNCHANGED <<history, consumer, status, shown, resync>>,
         listener' = [listener EXCEPT ![i] = Idle], channel' = [channel EXCEPT ![i] = <<>>],
         \A c \in record' : c \in record /\ subscribed'[c] \in {0, subscribed[c]}
                            /\ socket'[c] \in {socket[c], "closed"},
         \A c \in record' : Home[c] = i /\ Home[c] \in listening' => ~Open(c)',
         listening' \subseteq listening \union {i}
  PROVE  NothingLost' /\ DeliveryInv'
<1>0. \A c \in Connection : Home[c] \in Instance
  BY HomeAssumption
<1>1. \A j \in Instance : j # i => listener'[j] = listener[j] /\ channel'[j] = channel[j]
  BY DEF RealtimeTypeOK
<1>2. \A c \in Connection : \A k : Home[c] # i /\ Delivered(c, k) => Delivered(c, k)'
  <2>1. \A c \in Connection : \A k : Home[c] # i /\ OnItsWay(c, k) => OnItsWay(c, k)'
    BY <1>0, <1>1 DEF OnItsWay
  <2> QED
    BY <2>1 DEF Delivered, Told
<1>3. \A c \in record' : \A k \in 1 .. consumer.next : Owed(c, k)' =>
         c \in record /\ Home[c] \in listening' /\ Open(c)' /\ (Home[c] \in listening => Owed(c, k))
  BY FewerOwed
<1>4. \A c \in record' : \A k \in 1 .. consumer.next : Owed(c, k)' =>
         c \in record /\ Owed(c, k) /\ Home[c] # i
  BY <1>3
<1> QED
  BY <1>2, <1>4, DeliveryKeep

LEMMA FailingDelivers ==
  ASSUME RealtimeTypeOK, PlaceInv, SocketInv, NothingLost, DeliveryInv, RealtimeTypeOK', Failing
  PROVE  NothingLost' /\ DeliveryInv'
<1> USE DEF conversation, redis, sockets, frames, channels
<1>0. record' \subseteq Connection /\ \A c \in Connection : socket[c] \in {"none", "open", "closed"}
  BY DEF RealtimeTypeOK
<1>1. CASE Crash \/ Reconnect
  <2>1. \A c \in record' : c \in record /\ subscribed'[c] \in {0, subscribed[c]}
    BY <1>1, BackIs, FewerSubscribed DEF RemoveInstance
  <2>2. /\ history' = history /\ consumer'.next = consumer.next /\ consumer'.stage = "ready"
        /\ UNCHANGED <<status, socket, resync, shown, channel, listening, listener>>
    BY <1>1, BackIs
  <2> QED
    BY <1>0, <2>1, <2>2, QuietDelivers
<1>2. ASSUME NEW c \in Connection, Disconnect(c) PROVE NothingLost' /\ DeliveryInv'
  <2>1. /\ \A d \in record' : d \in record /\ subscribed'[d] \in {0, subscribed[d]}
        /\ UNCHANGED <<history, consumer, status, shown, resync, channel, listening, listener>>
    BY <1>2, FewerSubscribed DEF Disconnect, Removed
  <2>2. \A d \in Connection : socket'[d] \in {socket[d], "closed"}
    BY <1>2 DEF Disconnect, Removed, RealtimeTypeOK
  <2> QED
    BY <1>0, <2>1, <2>2, QuietDelivers
<1>3. ASSUME NEW c \in Connection, Expire(c) PROVE NothingLost' /\ DeliveryInv'
  <2>1. /\ record' \subseteq record
        /\ UNCHANGED <<history, consumer, subscribed, status, socket, shown, resync, channel, listening,
                       listener>>
    BY <1>3 DEF Expire
  <2> QED
    BY <1>0, <2>1, QuietDelivers
<1>4. ASSUME NEW i \in Instance, ListenerDies(i) PROVE NothingLost' /\ DeliveryInv'
  <2>1. /\ UNCHANGED <<history, consumer, status, shown, resync, record, subscribed, socket>>
        /\ listener' = [listener EXCEPT ![i] = Idle] /\ channel' = [channel EXCEPT ![i] = <<>>]
        /\ listening' = listening \ {i}
    BY <1>4 DEF ListenerDies
  <2> QED
    BY <1>0, <2>1, DropDelivers
<1>5. ASSUME NEW i \in Instance, Shutdown(i) \/ Die(i) PROVE NothingLost' /\ DeliveryInv'
  <2>1. /\ UNCHANGED <<history, consumer, status, shown, resync>>
        /\ listener' = [listener EXCEPT ![i] = Idle] /\ channel' = [channel EXCEPT ![i] = <<>>]
        /\ listening' = listening \union {i}
        /\ socket' = [c \in Connection |-> IF Home[c] = i /\ Open(c) THEN "closed" ELSE socket[c]]
    BY <1>5 DEF Shutdown, Die, Startup, Ended
  <2>2. \A c \in record' : c \in record /\ subscribed'[c] \in {0, subscribed[c]}
    BY <1>5, FewerSubscribed DEF Shutdown, RemoveInstance, Die
  <2>3. \A c \in Connection : socket'[c] \in {socket[c], "closed"} /\ (Home[c] = i => socket'[c] # "open")
    BY <2>1 DEF Open
  <2>4. \A c \in record' : Home[c] = i => ~Open(c)'
    BY <1>0, <2>3 DEF Open
  <2> QED
    BY <1>0, <2>1, <2>2, <2>3, <2>4, DropDelivers
<1> QED
  BY <1>1, <1>2, <1>3, <1>4, <1>5 DEF Failing

LEMMA DeliveryKept ==
  ASSUME RealtimeTypeOK, PlaceInv, HistoryInv, SocketInv, RemovalClears, NothingLost, DeliveryInv,
         RealtimeTypeOK', RealtimeNext
  PROVE  NothingLost' /\ DeliveryInv'
<1> USE DEF conversation, redis, sockets, frames, channels
<1>1. CASE Publishing
  <2>1. UNCHANGED <<consumer, record, subscribed, status, socket, resync, shown, channel, listening,
                    listener>>
    BY <1>1, PublishingIs, PublishIs
  <2>2. record' \subseteq Connection
    BY DEF RealtimeTypeOK
  <2> QED
    BY <1>1, <2>1, <2>2, QuietDelivers
<1>2. ASSUME NEW m \in Leavers, Learn(m) PROVE NothingLost' /\ DeliveryInv'
  <2>1. UNCHANGED <<history, consumer, record, subscribed, status, socket, resync, shown, channel,
                    listening, listener>>
    BY <1>2 DEF Learn
  <2>2. record' \subseteq Connection
    BY DEF RealtimeTypeOK
  <2> QED
    BY <2>1, <2>2, QuietDelivers
<1> QED
  BY <1>1, <1>2, ConsumeDelivers, HandleDelivers, ListenDelivers, FailingDelivers DEF RealtimeNext

-----------------------------------------------------------------------------

LEMMA RealtimeInvInit == RealtimeInit => RealtimeInv
<1> SUFFICES ASSUME RealtimeInit PROVE RealtimeInv
  OBVIOUS
<1>1. RealtimeTypeOK /\ FramesInv
  BY RealtimeTypeInit, FramesInit
<1>2. /\ history = <<>> /\ consumer.next = 1 /\ consumer.stage = "ready" /\ record = {}
      /\ \A c \in Connection : subscribed[c] = 0 /\ handler[c] = "idle"
  BY DEF RealtimeInit
<1>3. PlaceInv /\ HistoryInv
  BY <1>2 DEF PlaceInv, HistoryInv, At
<1>4. StatusInv /\ SocketInv
  BY <1>2 DEF StatusInv, SocketInv, Gone, At
<1>5. RemovalClears /\ ClearInv /\ NothingLost /\ DeliveryInv
  BY <1>2 DEF RemovalClears, ClearInv, NothingLost, DeliveryInv, At
<1> QED
  BY <1>1, <1>3, <1>4, <1>5 DEF RealtimeInv

LEMMA RealtimeInvNext == RealtimeInv /\ [RealtimeNext]_realtimeVars => RealtimeInv'
<1> SUFFICES ASSUME RealtimeInv, [RealtimeNext]_realtimeVars PROVE RealtimeInv'
  OBVIOUS
<1>1. CASE RealtimeNext
  <2> USE <1>1 DEF RealtimeInv
  <2>1. RealtimeTypeOK'
    BY RealtimeTypes
  <2>2. PlaceInv' /\ HistoryInv'
    BY PlaceKept, HistoryKept
  <2>3. StatusInv' /\ SocketInv'
    BY StatusKept, SocketKept
  <2>4. FramesInv'
    BY FramesKept
  <2>5. RemovalClears' /\ ClearInv'
    BY ClearsKept
  <2>6. NothingLost' /\ DeliveryInv'
    BY <2>1, DeliveryKept
  <2> QED
    BY <2>1, <2>2, <2>3, <2>4, <2>5, <2>6
<1>2. CASE UNCHANGED realtimeVars
  <2> USE <1>2 DEF RealtimeInv, realtimeVars, conversation, redis, sockets, frames, channels
  <2>1. RealtimeTypeOK'
    BY RealtimeTypes
  <2>2. PlaceInv' /\ HistoryInv' /\ StatusInv' /\ SocketInv'
    BY DEF PlaceInv, HistoryInv, StatusInv, SocketInv, At, Current, Gone
  <2>3. FramesInv'
    BY DEF FramesInv, AddressInv, FrameInv, OrderInv, Carries, Sent, Gone
  <2>4. RemovalClears' /\ ClearInv'
    BY DEF RemovalClears, ClearInv, At, Concerns, Current
  <2>5. NothingLost' /\ DeliveryInv'
    BY DEF NothingLost, DeliveryInv, At, Owed, Delivered, Told, OnItsWay, Open, IsActive, Gone
  <2> QED
    BY <2>1, <2>2, <2>3, <2>4, <2>5
<1> QED
  BY <1>1, <1>2

\* realtime-service, every step of its consumer, instances, sockets and of what can fail
\* (events.py, registry.py, main.py): what they keep in Redis, in the channels and in hand
\* agrees with the place of the consumer in the history.
THEOREM RealtimeInvariant == RealtimeSpec => []RealtimeInv
  BY RealtimeInvInit, RealtimeInvNext, PTL DEF RealtimeSpec

\* Every variable of RealtimeRegistry keeps its type.
THEOREM RealtimeTypeCorrect == RealtimeSpec => []RealtimeTypeOK
<1>1. RealtimeInv => RealtimeTypeOK
  BY DEF RealtimeInv
<1> QED
  BY <1>1, RealtimeInvariant, PTL

\* Whatever subscriptions are written after the revocation, and whichever instance is late
\* with it: no socket of a member shows what was said between his departure and his
\* reactivation (events.py:113-115, main.py:79).
THEOREM DepartedHearNothing == RealtimeSpec => []DepartedGetNothing
<1>1. RealtimeInv => DepartedGetNothing
  BY DEF RealtimeInv, FramesInv, FrameInv, Sent, DepartedGetNothing, Told
<1> QED
  BY <1>1, RealtimeInvariant, PTL

\* After any crashes and repetitions of the consumer, no recorded socket has a subscription
\* from before a removal that the consumer has finished (registry.py:333-381).
THEOREM RemovalsClear == RealtimeSpec => []RemovalClears
<1>1. RealtimeInv => RemovalClears
  BY DEF RealtimeInv
<1> QED
  BY <1>1, RealtimeInvariant, PTL

\* The queue of a socket has the messages in the order of the events, repeated ones
\* together: the consumer, the channel and the listener keep it (events.py:113-135).
THEOREM OrderIsKept == RealtimeSpec => []InOrder
<1>1. ASSUME RealtimeInv PROVE InOrder
  <2> SUFFICES ASSUME NEW c \in Connection, NEW k \in 1 .. Len(shown[c]) - 1
               PROVE  shown[c][k] <= shown[c][k + 1]
    BY DEF InOrder
  <2>1. shown[c] \in Seq(Nat)
    BY <1>1 DEF RealtimeInv, RealtimeTypeOK
  <2>2. k \in DOMAIN shown[c] /\ k + 1 \in DOMAIN shown[c] /\ k < k + 1
    BY <2>1
  <2> QED
    BY <1>1, <2>2 DEF RealtimeInv, FramesInv, OrderInv
<1> QED
  BY <1>1, RealtimeInvariant, PTL

\* A socket that was subscribed before a message and still is has it, has it on its way or
\* was told to catch up, whatever was repeated and whichever instances ended in between
\* (events.py:113-135, registry.py:151-170).
THEOREM NoMessageLost == RealtimeSpec => []NothingLost
<1>1. RealtimeInv => NothingLost
  BY DEF RealtimeInv
<1> QED
  BY <1>1, RealtimeInvariant, PTL
=============================================================================
