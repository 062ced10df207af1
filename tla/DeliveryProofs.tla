---------------------------- MODULE DeliveryProofs ----------------------------
(***************************************************************************)
(* Proofs about what services tell each other: SendAuthorization, for any  *)
(* members, chats, commands and faults, and EventRelay, for any number of  *)
(* events, runners, consumers, retries and faults.                         *)
(***************************************************************************)
EXTENDS SendAuthorization, EventRelay, FiniteSetTheorems, SequenceTheorems, TLAPS

-----------------------------------------------------------------------------
(* What an event is about, and what a table says of it.                    *)

Keys ==
    [of : {"member"}, who : Member] \union [of : {"chat"}, chat : Chat]
    \union {k \in [of : {"place"}, chat : Chat, who : Member] : k.who \in Founders[k.chat]}
    \union [of : {"pair"}, pair : Member \X Member]

Concerns(e, k) ==
    \/ k.of = "member" /\ e.from = "organization" /\ e.who = k.who
    \/ /\ k.of = "chat" /\ e.from = "conversation" /\ e.chat = k.chat
       /\ e.kind # "member"
    \/ /\ k.of = "place" /\ e.from = "conversation" /\ e.chat = k.chat
       /\ e.kind \in {"created", "member"} /\ e.who \in {None, k.who}
    \/ k.of = "pair" /\ e.from = "user" /\ e.pair = k.pair

\* messaging-service hears of these; that a group is deleted changes nothing there.
Telling(e) == e.from # "conversation" \/ e.kind # "deleted"

Value(e) == IF e.from = "user" THEN e.kind ELSE e.status

Blocking(pairs, p) == IF p \in pairs THEN "blocked" ELSE "unblocked"

Table(k) ==
    CASE k.of = "member" -> org[k.who]
      [] k.of = "chat" -> chat[k.chat]
      [] k.of = "place" -> roster[k.chat][k.who]
      [] OTHER -> Blocking(blocks, k.pair)

Projection(k) ==
    CASE k.of = "member" -> pOrg[k.who]
      [] k.of = "chat" -> pChat[k.chat]
      [] k.of = "place" -> pRoster[k.chat][k.who]
      [] OTHER -> Blocking(pBlocks, k.pair)

AtFirst(k) ==
    CASE k.of = "member" -> "ACTIVE"
      [] k.of = "chat" -> "none"
      [] k.of = "place" -> None
      [] OTHER -> "unblocked"

ProjectedAtFirst(k) ==
    IF k.of = "member" /\ k.who \notin Returned THEN None ELSE AtFirst(k)

\* The value v is that of the last of the events E, or the first one.
Reflects(events, E, v, v0) ==
    \/ E = {} /\ v = v0
    \/ \E i \in E : v = Value(events[i]) /\ \A j \in E : j <= i

OfKey(S, k) == {i \in S : Concerns(log[i], k)}
ToldOf(S, k) == {i \in S : Concerns(log[i], k) /\ Telling(log[i])}

-----------------------------------------------------------------------------
(* The invariant.                                                          *)

Arrived == processed \union Range(queue)

\* conversation-service has applied the event, or does not listen to it.
Followed == Arrived \ Range(followed)

TablesInv == \A k \in Keys : Reflects(log, OfKey(DOMAIN log, k), Table(k), AtFirst(k))

ProjectionsInv ==
    ~disordered => \A k \in Keys :
        /\ Reflects(log, ToldOf(processed, k), Projection(k), ProjectedAtFirst(k))
        /\ k.of = "pair" =>
              Reflects(log, OfKey(Followed, k), Blocking(barred, k.pair), AtFirst(k))

Before(i, j) == i < j /\ log[i].from = log[j].from

\* What is applied has no predecessor that is not, and what waits has its predecessors
\* before it.
QueueInv ==
    ~disordered =>
        /\ \A j \in processed : \A i \in DOMAIN log : Before(i, j) => i \in processed
        /\ \A k \in DOMAIN queue : queue[k] \notin processed =>
              \A i \in DOMAIN log :
                  Before(i, queue[k]) /\ i \notin processed => \E n \in 1 .. k - 1 : queue[n] = i

FollowedInv ==
    ~disordered =>
        /\ \A j \in Followed : \A i \in DOMAIN log :
              Before(i, j) /\ log[i].from # "conversation" => i \in Followed
        /\ \A k \in DOMAIN followed : \A i \in DOMAIN log :
              Before(i, followed[k]) /\ i \notin Followed => \E n \in 1 .. k - 1 : followed[n] = i

\* No event is lost.
KeptInv ==
    /\ DOMAIN log = pending \union Arrived
    /\ \A p \in Batching : open[p].sent \subseteq Arrived

\* conversation-service has each event of the others once.
OnceInv ==
    /\ \A k \in DOMAIN followed :
          followed[k] \in Arrived /\ log[followed[k]].from # "conversation"
    /\ \A k, n \in DOMAIN followed : followed[k] = followed[n] => k = n

\* The events of a chat begin with its creation.
WellFormed(e) ==
    e.from = "conversation" =>
        /\ e.kind = "created" => e.who = None /\ e.status = "ACTIVE"
        /\ e.kind = "closed" => e.who = None /\ e.status = "CLOSED"
        /\ e.kind = "deleted" => e.who = None /\ e.status = "DELETED"
        /\ e.kind = "member" => e.who \in Member /\ e.status \in {"ACTIVE", "LEFT"}

Creation(c) == Told("created", c, None, "ACTIVE")

LogInv ==
    \A i \in DOMAIN log :
        /\ WellFormed(log[i])
        /\ log[i].from = "conversation" => \E j \in 1 .. i : log[j] = Creation(log[i].chat)

\* A chat of two has those two, and one of no workspace keeps them.
RosterInv ==
    /\ \A c \in Chat : chat[c] = "none" => \A m \in Member : roster[c][m] = None
    /\ \A c \in Direct : \A m \in Member \ Founders[c] :
          roster[c][m] = None /\ pRoster[c][m] = None
    /\ \A c \in Personal : \A m \in Member : roster[c][m] # "LEFT"

IInv ==
    /\ TypeOK
    /\ TablesInv /\ ProjectionsInv
    /\ QueueInv /\ FollowedInv /\ KeptInv /\ OnceInv
    /\ LogInv /\ RosterInv

-----------------------------------------------------------------------------
(* What the invariant says of sending.                                     *)

\* Two that reflect the same events say the same.
LEMMA SameEvents ==
  ASSUME NEW events, NEW E \in SUBSET Nat, NEW v, NEW w, NEW v0, NEW w0,
         Reflects(events, E, v, v0), Reflects(events, E, w, w0)
  PROVE  v = w \/ (E = {} /\ v = v0 /\ w = w0)
<1>1. CASE E = {}
  BY <1>1 DEF Reflects
<1>2. CASE E # {}
  <2>1. PICK i \in E : v = Value(events[i]) /\ \A j \in E : j <= i
    BY <1>2 DEF Reflects
  <2>2. PICK k \in E : w = Value(events[k]) /\ \A j \in E : j <= k
    BY <1>2 DEF Reflects
  <2>3. i = k
    BY <2>1, <2>2
  <2> QED
    BY <2>1, <2>2, <2>3
<1> QED
  BY <1>1, <1>2

LEMMA LogTyped ==
  ASSUME TypeOK
  PROVE  /\ DOMAIN log = 1 .. Len(log) /\ Len(log) \in Nat
         /\ \A i \in DOMAIN log : log[i] \in EventType
         /\ processed \subseteq DOMAIN log /\ Arrived \subseteq DOMAIN log
         /\ Followed \subseteq DOMAIN log
<1>1. DOMAIN log = 1 .. Len(log) /\ Len(log) \in Nat /\ processed \subseteq DOMAIN log
  BY DEF TypeOK
<1>2. \A i \in DOMAIN log : log[i] \in EventType
  BY DEF TypeOK
<1>3. Range(queue) \subseteq DOMAIN log
  BY DEF TypeOK, Range
<1> QED
  BY <1>1, <1>2, <1>3 DEF Arrived, Followed

\* A key of which nothing is on its way is known as it is, unless a group was deleted.
LEMMA Current ==
  ASSUME IInv, ~disordered, NEW k \in Keys,
         \A i \in DOMAIN log : Concerns(log[i], k) => ~InFlight(i)
  PROVE  /\ Table(k) # "DELETED" =>
               \/ Projection(k) = Table(k)
               \/ /\ Projection(k) = ProjectedAtFirst(k) /\ Table(k) = AtFirst(k)
                  /\ OfKey(DOMAIN log, k) = {}
         /\ k.of = "pair" => Blocking(barred, k.pair) = Blocking(blocks, k.pair)
<1> DEFINE E == OfKey(DOMAIN log, k)
<1>0. TypeOK /\ Arrived \subseteq DOMAIN log /\ E \in SUBSET Nat
  BY LogTyped DEF IInv, OfKey
<1>1. Reflects(log, E, Table(k), AtFirst(k))
  BY DEF IInv, TablesInv
<1>2. /\ Reflects(log, ToldOf(processed, k), Projection(k), ProjectedAtFirst(k))
      /\ k.of = "pair" => Reflects(log, OfKey(Followed, k), Blocking(barred, k.pair), AtFirst(k))
  BY DEF IInv, ProjectionsInv
<1>3. E \subseteq processed /\ E \subseteq Followed
  BY <1>0 DEF IInv, KeptInv, InFlight, Arrived, Followed, OfKey
<1>4. OfKey(Followed, k) = E /\ processed \subseteq DOMAIN log
  BY <1>0, <1>3, LogTyped DEF OfKey
<1>5. ToldOf(processed, k) = {i \in E : Telling(log[i])}
  BY <1>3, <1>4 DEF OfKey, ToldOf
<1>6. ASSUME Table(k) # "DELETED"
      PROVE  ToldOf(processed, k) = E \/ Table(k) = Projection(k)
  <2>1. CASE E = {}
    BY <2>1, <1>5
  <2>2. CASE E # {}
    <3>1. PICK i \in E : Table(k) = Value(log[i]) /\ \A j \in E : j <= i
      BY <2>2, <1>1 DEF Reflects
    <3>2. Telling(log[i])
      BY <3>1, <1>6 DEF IInv, LogInv, WellFormed, Value, OfKey, Telling
    <3>3. i \in ToldOf(processed, k) /\ \A j \in ToldOf(processed, k) : j <= i
      BY <3>1, <3>2, <1>5
    <3>4. Reflects(log, ToldOf(processed, k), Table(k), AtFirst(k))
      BY <3>1, <3>3 DEF Reflects
    <3> QED
      BY <1>2, <3>3, <3>4, <1>0, <1>5, SameEvents
  <2> QED
    BY <2>1, <2>2
<1>7. Table(k) # "DELETED" =>
          \/ Projection(k) = Table(k)
          \/ Projection(k) = ProjectedAtFirst(k) /\ Table(k) = AtFirst(k) /\ E = {}
  BY <1>0, <1>1, <1>2, <1>6, SameEvents
<1>8. k.of = "pair" => Blocking(barred, k.pair) = Blocking(blocks, k.pair)
  <2> SUFFICES ASSUME k.of = "pair" PROVE Blocking(barred, k.pair) = Table(k)
    BY DEF Table
  <2> QED
    BY <1>0, <1>1, <1>2, <1>4, SameEvents
<1> QED
  BY <1>7, <1>8

\* Blocks between two of whom nothing is on its way are known.
LEMMA CurrentBlocks ==
  ASSUME IInv, ~disordered, NEW m \in Member, NEW n \in Member,
         \A i \in DOMAIN log :
             log[i].from = "user" /\ m \in Range(log[i].pair) => ~InFlight(i)
  PROVE  /\ Blocked(pBlocks, m, n) <=> Blocked(blocks, m, n)
         /\ Blocked(barred, m, n) <=> Blocked(blocks, m, n)
<1>1. ASSUME NEW p \in {<<m, n>>, <<n, m>>}
      PROVE  /\ p \in pBlocks <=> p \in blocks
             /\ p \in barred <=> p \in blocks
  <2> DEFINE k == [of |-> "pair", pair |-> p]
  <2>1. k \in Keys /\ k.of = "pair" /\ k.pair = p
    BY DEF Keys
  <2>2. m \in Range(p)
    <3>1. p[1] = m \/ p[2] = m
      OBVIOUS
    <3>2. 1 \in DOMAIN p /\ 2 \in DOMAIN p
      OBVIOUS
    <3> QED
      BY <3>1, <3>2 DEF Range
  <2>3. \A i \in DOMAIN log : Concerns(log[i], k) => ~InFlight(i)
    BY <2>1, <2>2 DEF Concerns
  <2>4. /\ Projection(k) = Blocking(pBlocks, p) /\ Table(k) = Blocking(blocks, p)
        /\ ProjectedAtFirst(k) = AtFirst(k)
    BY <2>1 DEF Projection, Table, ProjectedAtFirst, AtFirst
  <2>5. Table(k) # "DELETED"
    BY <2>4 DEF Blocking
  <2> HIDE DEF k
  <2>6. Projection(k) = Table(k) /\ Blocking(barred, p) = Blocking(blocks, p)
    BY <2>1, <2>3, <2>4, <2>5, Current
  <2> QED
    BY <2>4, <2>6 DEF Blocking
<1> QED
  BY <1>1 DEF Blocked

LEMMA CurrentMember ==
  ASSUME IInv, ~disordered, NEW m \in Member, HeardOf(m),
         \A i \in DOMAIN log : log[i].from = "organization" /\ log[i].who = m => ~InFlight(i)
  PROVE  pOrg[m] = org[m]
<1> DEFINE k == [of |-> "member", who |-> m]
<1>1. k \in Keys /\ k.of = "member" /\ k.who = m
  BY DEF Keys
<1>2. \A i \in DOMAIN log : Concerns(log[i], k) => ~InFlight(i)
  BY <1>1 DEF Concerns
<1>3. Table(k) = org[m] /\ Projection(k) = pOrg[m]
  BY <1>1 DEF Table, Projection
<1>4. org[m] # "DELETED"
  BY DEF IInv, TypeOK
<1>5. OfKey(DOMAIN log, k) = {} => ProjectedAtFirst(k) = AtFirst(k)
  BY <1>1 DEF HeardOf, OfKey, Concerns, ProjectedAtFirst, AtFirst
<1> HIDE DEF k
<1> QED
  BY <1>1, <1>2, <1>3, <1>4, <1>5, Current

LEMMA CurrentChat ==
  ASSUME IInv, ~disordered, NEW c \in Chat, chat[c] # "DELETED",
         \A i \in DOMAIN log :
             log[i].from = "conversation" /\ log[i].chat = c /\ log[i].who = None => ~InFlight(i)
  PROVE  pChat[c] = chat[c]
<1> DEFINE k == [of |-> "chat", chat |-> c]
<1>1. k \in Keys /\ k.of = "chat" /\ k.chat = c
  BY DEF Keys
<1>2. \A i \in DOMAIN log : log[i] \in EventType /\ WellFormed(log[i])
  BY LogTyped DEF IInv, LogInv
<1>3. \A i \in DOMAIN log : Concerns(log[i], k) => ~InFlight(i)
  BY <1>1, <1>2 DEF Concerns, WellFormed, EventType
<1>4. Table(k) = chat[c] /\ Projection(k) = pChat[c] /\ ProjectedAtFirst(k) = AtFirst(k)
  BY <1>1 DEF Table, Projection, ProjectedAtFirst
<1> HIDE DEF k
<1> QED
  BY <1>1, <1>3, <1>4, Current

LEMMA CurrentPlace ==
  ASSUME IInv, ~disordered, NEW c \in Chat, NEW m \in Member, m \in Founders[c],
         \A i \in DOMAIN log :
             log[i].from = "conversation" /\ log[i].chat = c /\ log[i].who \in {None, m}
                 => ~InFlight(i)
  PROVE  pRoster[c][m] = roster[c][m]
<1> DEFINE k == [of |-> "place", chat |-> c, who |-> m]
<1>1. k \in Keys /\ k.of = "place" /\ k.chat = c /\ k.who = m
  BY DEF Keys
<1>2. \A i \in DOMAIN log : Concerns(log[i], k) => ~InFlight(i)
  BY <1>1 DEF Concerns
<1>3. /\ Table(k) = roster[c][m] /\ Projection(k) = pRoster[c][m]
      /\ ProjectedAtFirst(k) = AtFirst(k) /\ AtFirst(k) = None
  BY <1>1 DEF Table, Projection, ProjectedAtFirst, AtFirst
<1>4. roster[c][m] # "DELETED"
  <2>1. roster[c][m] \in {None, "ACTIVE", "LEFT"}
    BY DEF IInv, TypeOK
  <2>2. None # "DELETED"
    BY FoundersAssumption
  <2> QED
    BY <2>1, <2>2
<1> HIDE DEF k
<1> QED
  BY <1>1, <1>2, <1>3, <1>4, Current

\* The other of the two in a chat, and nobody else, has a place in it.
LEMMA InDirect ==
  ASSUME IInv, NEW c \in Direct, NEW n \in Member, n \notin Founders[c]
  PROVE  roster[c][n] = None /\ pRoster[c][n] = None /\ None # "ACTIVE"
BY FoundersAssumption DEF IInv, RosterInv

LEMMA Agreement == IInv => AgreesUnlessInFlight
<1> SUFFICES ASSUME IInv, ~disordered,
                    NEW c \in Chat, NEW m \in Member, m \in Founders[c],
                    c \in Personal \/ HeardOf(m), chat[c] # "DELETED",
                    \A i \in DOMAIN log : About(log[i], c, m) => ~InFlight(i)
             PROVE  MaySend(c, m) = Entitled(c, m)
  BY DEF AgreesUnlessInFlight
<1> USE FoundersAssumption
<1>0. Founders[c] \subseteq Member /\ Personal \subseteq Direct /\ Direct \subseteq Chat
  OBVIOUS
<1>1. ASSUME c \in Direct, NEW n \in Member
      PROVE  /\ Blocked(pBlocks, m, n) <=> Blocked(blocks, m, n)
             /\ Blocked(barred, m, n) <=> Blocked(blocks, m, n)
  <2>1. \A i \in DOMAIN log :
            log[i].from = "user" /\ m \in Range(log[i].pair) => ~InFlight(i)
    BY <1>1 DEF About
  <2> QED
    BY <2>1, CurrentBlocks
<1>2. CASE c \in Personal
  <2>1. \A n \in Member : roster[c][n] # None <=> roster[c][n] = "ACTIVE"
    BY <1>2 DEF IInv, RosterInv, TypeOK
  <2>2. Peers(c, m) = {n \in Member \ {m} : roster[c][n] = "ACTIVE"}
    BY <2>1 DEF Peers
  <2>3. c \in Direct
    BY <1>2, <1>0
  <2> QED
    BY <1>1, <1>2, <2>2, <2>3 DEF MaySend, MaySendPersonal, Entitled, MayCommunicate, Barred
<1>3. CASE c \notin Personal
  <2>1. pOrg[m] = org[m]
    <3>1. \A i \in DOMAIN log :
              log[i].from = "organization" /\ log[i].who = m => ~InFlight(i)
      BY <1>3 DEF About
    <3> QED
      BY <1>3, <3>1, CurrentMember
  <2>2. pChat[c] = chat[c]
    <3>1. \A i \in DOMAIN log :
              log[i].from = "conversation" /\ log[i].chat = c /\ log[i].who = None => ~InFlight(i)
      BY DEF About
    <3> QED
      BY <3>1, CurrentChat
  <2>3. pRoster[c][m] = roster[c][m]
    <3>1. \A i \in DOMAIN log :
              log[i].from = "conversation" /\ log[i].chat = c /\ log[i].who \in {None, m}
                  => ~InFlight(i)
      BY DEF About
    <3> QED
      BY <3>1, CurrentPlace
  <2>4. ASSUME c \in Direct, NEW n \in Member
        PROVE  pRoster[c][n] = "ACTIVE" <=> roster[c][n] = "ACTIVE"
    <3>1. CASE n \in Founders[c]
      <4>1. \A i \in DOMAIN log :
                log[i].from = "conversation" /\ log[i].chat = c /\ log[i].who \in {None, n}
                    => ~InFlight(i)
        BY <2>4 DEF About
      <4> QED
        BY <3>1, <4>1, CurrentPlace
    <3>2. CASE n \notin Founders[c]
      BY <2>4, <3>2, InDirect
    <3> QED
      BY <3>1, <3>2
  <2> QED
    BY <1>1, <1>3, <2>1, <2>2, <2>3, <2>4 DEF MaySend, MaySendInWorkspace, Entitled
<1> QED
  BY <1>2, <1>3

-----------------------------------------------------------------------------
(* Events that are staged.                                                 *)

\* Nothing that was said is unsaid.
Grown ==
    /\ DOMAIN log \subseteq DOMAIN log'
    /\ \A i \in DOMAIN log : log'[i] = log[i]
    /\ \A i \in DOMAIN log' \ DOMAIN log : \A j \in DOMAIN log : j < i

LEMMA Staged ==
  ASSUME TypeOK, NEW events \in Seq(EventType), Stage(events)
  PROVE  /\ log' \in Seq(EventType) /\ Grown
         /\ DOMAIN log' = DOMAIN log \union {Len(log) + n : n \in DOMAIN events}
         /\ \A n \in DOMAIN events :
               /\ log'[Len(log) + n] = events[n] /\ Len(log) + n \in Nat
               /\ Len(log) + n \notin DOMAIN log
         /\ pending' = pending \union (DOMAIN log' \ DOMAIN log)
<1>1. log' = log \o events /\ log \in Seq(EventType)
  BY DEF Stage, TypeOK
<1>2. /\ log' \in Seq(EventType) /\ Len(log') = Len(log) + Len(events)
      /\ Len(log) \in Nat /\ Len(events) \in Nat
      /\ DOMAIN log = 1 .. Len(log) /\ DOMAIN events = 1 .. Len(events)
      /\ DOMAIN log' = 1 .. Len(log) + Len(events)
      /\ \A i \in 1 .. Len(log) + Len(events) :
            log'[i] = IF i <= Len(log) THEN log[i] ELSE events[i - Len(log)]
  BY <1>1
<1>3. DOMAIN log' = DOMAIN log \union {Len(log) + n : n \in DOMAIN events}
  <2>1. ASSUME NEW i \in DOMAIN log', i \notin DOMAIN log
        PROVE  i - Len(log) \in DOMAIN events /\ i = Len(log) + (i - Len(log))
    BY <1>2, <2>1
  <2>2. \A n \in DOMAIN events : Len(log) + n \in DOMAIN log'
    BY <1>2
  <2>3. DOMAIN log \subseteq DOMAIN log'
    BY <1>2
  <2> QED
    BY <2>1, <2>2, <2>3
<1>4. \A n \in DOMAIN events :
          /\ log'[Len(log) + n] = events[n] /\ Len(log) + n \in Nat
          /\ Len(log) + n \notin DOMAIN log
  BY <1>2
<1>5. pending' = pending \union (DOMAIN log' \ DOMAIN log)
  BY <1>3, <1>4 DEF Stage
<1>6. Grown
  BY <1>2 DEF Grown
<1> QED
  BY <1>2, <1>3, <1>4, <1>5, <1>6

LEMMA SaidAlready ==
  ASSUME TypeOK, Grown
  PROVE  /\ \A k : OfKey(DOMAIN log, k)' = OfKey(DOMAIN log, k)
                    \union {i \in DOMAIN log' \ DOMAIN log : Concerns(log'[i], k)}
         /\ \A i, j : i \in DOMAIN log' /\ j \in DOMAIN log =>
                (Before(i, j)' <=> i \in DOMAIN log /\ Before(i, j))
BY LogTyped DEF Grown, OfKey, Before

\* Where some new event is the last about a key the tables say it.
LEMMA TableWritten ==
  ASSUME IInv, Grown, NEW k \in Keys,
         NEW i \in DOMAIN log' \ DOMAIN log, Concerns(log'[i], k), Table(k)' = Value(log'[i]),
         DOMAIN log' \subseteq Nat,
         \A j \in DOMAIN log' \ DOMAIN log : Concerns(log'[j], k) => j <= i
  PROVE  Reflects(log, OfKey(DOMAIN log, k), Table(k), AtFirst(k))'
<1>0. TypeOK
  BY DEF IInv
<1>1. OfKey(DOMAIN log, k)' = OfKey(DOMAIN log, k)
          \union {j \in DOMAIN log' \ DOMAIN log : Concerns(log'[j], k)}
  BY <1>0, SaidAlready
<1>2. i \in OfKey(DOMAIN log, k)'
  BY <1>1
<1>3. \A j \in OfKey(DOMAIN log, k)' : j <= i
  BY <1>1, LogTyped, <1>0 DEF Grown, OfKey
<1> QED
  BY <1>2, <1>3 DEF Reflects

LEMMA TableUnwritten ==
  ASSUME IInv, Grown, NEW k \in Keys, Table(k)' = Table(k),
         \A j \in DOMAIN log' \ DOMAIN log : ~Concerns(log'[j], k)
  PROVE  Reflects(log, OfKey(DOMAIN log, k), Table(k), AtFirst(k))'
<1>0. TypeOK
  BY DEF IInv
<1>1. OfKey(DOMAIN log, k)' = OfKey(DOMAIN log, k)
  BY <1>0, SaidAlready
<1>2. Reflects(log, OfKey(DOMAIN log, k), Table(k), AtFirst(k))
  BY DEF IInv, TablesInv
<1>3. \A i \in OfKey(DOMAIN log, k) : log'[i] = log[i]
  BY DEF OfKey, Grown
<1>4. AtFirst(k)' = AtFirst(k)
  BY DEF AtFirst
<1> QED
  BY <1>1, <1>2, <1>3, <1>4 DEF Reflects

LEMMA OneTold ==
  ASSUME IInv, NEW e \in EventType, Stage(<<e>>),
         \A k \in Keys : Table(k)' = IF Concerns(e, k) THEN Value(e) ELSE Table(k)
  PROVE  TablesInv'
<1>0. TypeOK
  BY DEF IInv
<1> DEFINE n == Len(log) + 1
<1>1. /\ <<e>> \in Seq(EventType) /\ DOMAIN <<e>> = {1} /\ <<e>>[1] = e
  OBVIOUS
<1>2. /\ Grown /\ log'[n] = e /\ n \in Nat /\ n \notin DOMAIN log
      /\ DOMAIN log' = DOMAIN log \union {n}
  BY <1>0, <1>1, Staged
<1>3. DOMAIN log' \subseteq Nat /\ DOMAIN log' \ DOMAIN log = {n}
  BY <1>0, <1>2, LogTyped
<1> HIDE DEF n
<1>4. ASSUME NEW k \in Keys
      PROVE  Reflects(log, OfKey(DOMAIN log, k), Table(k), AtFirst(k))'
  <2>1. CASE Concerns(e, k)
    <3>1. Table(k)' = Value(log'[n])
      BY <1>2, <2>1
    <3> QED
      BY <1>2, <1>3, <2>1, <3>1, TableWritten
  <2>2. CASE ~Concerns(e, k)
    <3>1. Table(k)' = Table(k)
      BY <2>2
    <3> QED
      BY <1>2, <1>3, <2>2, <3>1, TableUnwritten
  <2> QED
    BY <2>1, <2>2
<1> QED
  BY <1>4 DEF TablesInv, Keys

\* Events that are new have not come anywhere yet.
LEMMA ProjectionsKept ==
  ASSUME IInv, Grown, UNCHANGED <<projections, barred>>, ~disordered' => ~disordered,
         \A i \in DOMAIN log : log[i].from = "user" => (i \in Followed' <=> i \in Followed),
         Followed' \subseteq DOMAIN log
  PROVE  ProjectionsInv'
<1> SUFFICES ASSUME ~disordered', ~disordered, NEW k \in Keys
             PROVE  /\ Reflects(log, ToldOf(processed, k), Projection(k), ProjectedAtFirst(k))'
                    /\ k.of = "pair" =>
                          Reflects(log, OfKey(Followed, k), Blocking(barred, k.pair), AtFirst(k))'
  BY DEF ProjectionsInv, Keys
<1>0. TypeOK /\ processed \subseteq DOMAIN log /\ Followed \subseteq DOMAIN log
  BY LogTyped DEF IInv
<1>1. /\ Reflects(log, ToldOf(processed, k), Projection(k), ProjectedAtFirst(k))
      /\ k.of = "pair" => Reflects(log, OfKey(Followed, k), Blocking(barred, k.pair), AtFirst(k))
  BY DEF IInv, ProjectionsInv
<1>2. ToldOf(processed, k)' = ToldOf(processed, k)
  BY <1>0 DEF ToldOf, Grown, projections
<1>3. /\ Projection(k)' = Projection(k)
      /\ ProjectedAtFirst(k)' = ProjectedAtFirst(k) /\ AtFirst(k)' = AtFirst(k)
  BY DEF Projection, ProjectedAtFirst, AtFirst, projections
<1>4. \A i \in DOMAIN log : log'[i] = log[i]
  BY DEF Grown
<1>5. Reflects(log, ToldOf(processed, k), Projection(k), ProjectedAtFirst(k))'
  BY <1>0, <1>1, <1>2, <1>3, <1>4 DEF Reflects, ToldOf
<1>6. ASSUME k.of = "pair"
      PROVE  Reflects(log, OfKey(Followed, k), Blocking(barred, k.pair), AtFirst(k))'
  <2>1. OfKey(Followed, k)' = OfKey(Followed, k)
    BY <1>0, <1>4, <1>6 DEF OfKey, Concerns
  <2>2. \A i \in OfKey(Followed, k) : log'[i] = log[i]
    BY <1>0, <1>4 DEF OfKey
  <2>3. Blocking(barred, k.pair)' = Blocking(barred, k.pair)
    BY DEF Blocking
  <2> QED
    BY <1>1, <1>3, <1>6, <2>1, <2>2, <2>3 DEF Reflects
<1> QED
  BY <1>5, <1>6

LEMMA QueueKept ==
  ASSUME IInv, Grown, UNCHANGED <<processed, queue, disordered>>
  PROVE  QueueInv'
<1>0. TypeOK /\ processed \subseteq DOMAIN log
  BY LogTyped DEF IInv
<1>1. \A k \in DOMAIN queue : queue[k] \in DOMAIN log
  BY <1>0 DEF TypeOK
<1>2. \A i, j : i \in DOMAIN log' /\ j \in DOMAIN log =>
          (Before(i, j)' <=> i \in DOMAIN log /\ Before(i, j))
  BY <1>0, SaidAlready
<1> QED
  BY <1>0, <1>1, <1>2 DEF IInv, QueueInv

LEMMA FollowedKept ==
  ASSUME IInv, Grown, UNCHANGED <<Arrived, followed, disordered>>
  PROVE  FollowedInv' /\ UNCHANGED Followed
<1>0. TypeOK /\ Followed \subseteq DOMAIN log /\ UNCHANGED Followed
  BY LogTyped DEF IInv, Followed
<1>1. \A k \in DOMAIN followed : followed[k] \in DOMAIN log
  BY <1>0 DEF TypeOK
<1>2. \A i, j : i \in DOMAIN log' /\ j \in DOMAIN log =>
          (Before(i, j)' <=> i \in DOMAIN log /\ Before(i, j))
  BY <1>0, SaidAlready
<1>3. \A i \in DOMAIN log : log'[i] = log[i]
  BY DEF Grown
<1> QED
  BY <1>0, <1>1, <1>2, <1>3 DEF IInv, FollowedInv

-----------------------------------------------------------------------------
(* The queues.                                                             *)

LEMMA Taken ==
  ASSUME NEW S, NEW s \in Seq(S), s # <<>>
  PROVE  /\ Tail(s) \in Seq(S) /\ Head(s) = s[1] /\ Head(s) \in S /\ 1 \in DOMAIN s
         /\ Len(s) \in Nat \ {0} /\ DOMAIN s = 1 .. Len(s) /\ DOMAIN Tail(s) = 1 .. Len(s) - 1
         /\ \A k \in DOMAIN Tail(s) : k + 1 \in DOMAIN s /\ Tail(s)[k] = s[k + 1]
         /\ \A k \in DOMAIN s : k = 1 \/ (k - 1 \in DOMAIN Tail(s) /\ Tail(s)[k - 1] = s[k])
         /\ Range(s) = {Head(s)} \union Range(Tail(s))
<1>1. /\ Tail(s) \in Seq(S) /\ Head(s) = s[1] /\ Head(s) \in S /\ 1 \in DOMAIN s
      /\ Len(s) \in Nat \ {0} /\ DOMAIN s = 1 .. Len(s) /\ DOMAIN Tail(s) = 1 .. Len(s) - 1
  OBVIOUS
<1>2. \A k \in DOMAIN Tail(s) : k + 1 \in DOMAIN s /\ Tail(s)[k] = s[k + 1]
  OBVIOUS
<1>3. \A k \in DOMAIN s : k = 1 \/ (k - 1 \in DOMAIN Tail(s) /\ Tail(s)[k - 1] = s[k])
  <2> SUFFICES ASSUME NEW k \in DOMAIN s, k # 1
               PROVE  k - 1 \in DOMAIN Tail(s) /\ Tail(s)[k - 1] = s[k]
    OBVIOUS
  <2>1. k - 1 \in DOMAIN Tail(s) /\ (k - 1) + 1 = k
    BY <1>1
  <2> QED
    BY <1>2, <2>1
<1>4. Range(s) = {Head(s)} \union Range(Tail(s))
  <2>1. ASSUME NEW k \in DOMAIN s PROVE s[k] \in {Head(s)} \union Range(Tail(s))
    BY <1>1, <1>3 DEF Range
  <2>2. Head(s) \in Range(s)
    BY <1>1 DEF Range
  <2>3. \A k \in DOMAIN Tail(s) : Tail(s)[k] \in Range(s)
    BY <1>2 DEF Range
  <2> QED
    BY <2>1, <2>2, <2>3 DEF Range
<1> QED
  BY <1>1, <1>2, <1>3, <1>4

LEMMA Queued ==
  ASSUME NEW S, NEW s \in Seq(S), NEW e \in S
  PROVE  /\ Append(s, e) \in Seq(S) /\ Len(s) \in Nat
         /\ DOMAIN s = 1 .. Len(s) /\ DOMAIN Append(s, e) = 1 .. Len(s) + 1
         /\ \A k \in DOMAIN s : k \in DOMAIN Append(s, e) /\ Append(s, e)[k] = s[k]
         /\ Append(s, e)[Len(s) + 1] = e
         /\ Range(Append(s, e)) = Range(s) \union {e}
<1>1. /\ Append(s, e) \in Seq(S) /\ Len(s) \in Nat
      /\ DOMAIN s = 1 .. Len(s) /\ DOMAIN Append(s, e) = 1 .. Len(s) + 1
      /\ \A k \in DOMAIN s : k \in DOMAIN Append(s, e) /\ Append(s, e)[k] = s[k]
      /\ Append(s, e)[Len(s) + 1] = e
  OBVIOUS
<1>2. \A k \in DOMAIN Append(s, e) : k \in DOMAIN s \/ k = Len(s) + 1
  BY <1>1
<1>3. Len(s) + 1 \in DOMAIN Append(s, e)
  BY <1>1
<1>4. Range(Append(s, e)) = Range(s) \union {e}
  BY <1>1, <1>2, <1>3 DEF Range
<1> QED
  BY <1>1, <1>4

\* The consumer is at the first of its producer that it has not had.
LEMMA HeadIsNext ==
  ASSUME IInv, ~disordered, queue # <<>>, Head(queue) \notin processed
  PROVE  /\ \A i \in DOMAIN log : Before(i, Head(queue)) => i \in processed
         /\ \A j \in processed : log[j].from = log[Head(queue)].from => j < Head(queue)
<1>0. /\ TypeOK /\ queue \in Seq(DOMAIN log)
      /\ processed \subseteq DOMAIN log /\ DOMAIN log \subseteq Nat
  BY LogTyped DEF IInv, TypeOK
<1>1. Head(queue) = queue[1] /\ 1 \in DOMAIN queue /\ Head(queue) \in DOMAIN log
  BY <1>0, Taken
<1>2. ~ \E n \in 1 .. 1 - 1 : TRUE
  OBVIOUS
<1>3. \A i \in DOMAIN log : Before(i, Head(queue)) => i \in processed
  BY <1>1, <1>2 DEF IInv, QueueInv
<1>4. ASSUME NEW j \in processed, log[j].from = log[Head(queue)].from
      PROVE  j < Head(queue)
  <2>1. ~Before(Head(queue), j)
    BY <1>1 DEF IInv, QueueInv
  <2>2. j # Head(queue) /\ j \in Nat /\ Head(queue) \in Nat
    BY <1>0, <1>1
  <2> QED
    BY <1>4, <2>1, <2>2 DEF Before
<1> QED
  BY <1>3, <1>4

LEMMA ConsumedInOrder ==
  ASSUME IInv, queue # <<>>, UNCHANGED <<log, disordered>>,
         processed' = processed \union {Head(queue)},
         queue' \in {queue, Tail(queue)}
  PROVE  QueueInv' /\ UNCHANGED Arrived
<1>0. TypeOK /\ queue \in Seq(DOMAIN log)
  BY DEF IInv, TypeOK
<1> DEFINE h == Head(queue)
<1>1. /\ h = queue[1] /\ 1 \in DOMAIN queue /\ h \in DOMAIN log
      /\ DOMAIN queue = 1 .. Len(queue) /\ Len(queue) \in Nat
      /\ \A k \in DOMAIN Tail(queue) : k + 1 \in DOMAIN queue /\ Tail(queue)[k] = queue[k + 1]
      /\ \A k \in DOMAIN queue :
            k = 1 \/ (k - 1 \in DOMAIN Tail(queue) /\ Tail(queue)[k - 1] = queue[k])
      /\ Range(queue) = {h} \union Range(Tail(queue))
      /\ DOMAIN Tail(queue) = 1 .. Len(queue) - 1
  BY <1>0, Taken
<1>2. UNCHANGED Arrived
  BY <1>1 DEF Arrived
<1> HIDE DEF h
<1>3. \A i, j : Before(i, j)' <=> Before(i, j)
  BY DEF Before
<1>4. ASSUME ~disordered
      PROVE  \A j \in processed' : \A i \in DOMAIN log : Before(i, j) => i \in processed'
  BY <1>4, HeadIsNext DEF IInv, QueueInv, h
<1>5. ASSUME ~disordered, NEW k \in DOMAIN queue', queue'[k] \notin processed',
             NEW i \in DOMAIN log, Before(i, queue'[k]), i \notin processed'
      PROVE  \E n \in 1 .. k - 1 : queue'[n] = i
  <2>1. CASE queue' = queue
    BY <1>5, <2>1 DEF IInv, QueueInv
  <2>2. CASE queue' = Tail(queue)
    <3>1. k + 1 \in DOMAIN queue /\ queue'[k] = queue[k + 1] /\ k \in Nat
      BY <1>1, <1>5, <2>2
    <3>2. PICK n \in 1 .. k + 1 - 1 : queue[n] = i
      BY <1>5, <3>1 DEF IInv, QueueInv
    <3>3. n # 1
      BY <1>1, <1>5, <3>2 DEF h
    <3>4. n - 1 \in 1 .. k - 1 /\ n \in DOMAIN queue
      BY <3>1, <3>2, <3>3, <1>1
    <3>5. queue'[n - 1] = i
      BY <1>1, <2>2, <3>2, <3>3, <3>4
    <3> QED
      BY <3>4, <3>5
  <2> QED
    BY <2>1, <2>2
<1>6. QueueInv'
  BY <1>3, <1>4, <1>5 DEF QueueInv
<1> QED
  BY <1>2, <1>6

LEMMA RequeuedInOrder ==
  ASSUME IInv, queue # <<>>, UNCHANGED <<log, processed>>,
         queue' = Append(Tail(queue), Head(queue)),
         disordered' = \/ disordered
                       \/ Head(queue) \notin processed /\ Overtaken(Head(queue), Tail(queue))
  PROVE  QueueInv' /\ UNCHANGED Arrived
<1>0. TypeOK /\ queue \in Seq(DOMAIN log)
  BY DEF IInv, TypeOK
<1> DEFINE h == Head(queue)
           t == Tail(queue)
<1>1. /\ h = queue[1] /\ 1 \in DOMAIN queue /\ h \in DOMAIN log /\ t \in Seq(DOMAIN log)
      /\ DOMAIN queue = 1 .. Len(queue) /\ Len(queue) \in Nat
      /\ \A k \in DOMAIN t : k + 1 \in DOMAIN queue /\ t[k] = queue[k + 1]
      /\ \A k \in DOMAIN queue : k = 1 \/ (k - 1 \in DOMAIN t /\ t[k - 1] = queue[k])
      /\ Range(queue) = {h} \union Range(t)
      /\ DOMAIN t = 1 .. Len(queue) - 1
      /\ queue' = Append(t, h)
  BY <1>0, Taken
<1> HIDE DEF h, t
<1>a. /\ Len(t) \in Nat
      /\ DOMAIN t = 1 .. Len(t) /\ DOMAIN Append(t, h) = 1 .. Len(t) + 1
      /\ \A k \in DOMAIN t : k \in DOMAIN Append(t, h) /\ Append(t, h)[k] = t[k]
      /\ Append(t, h)[Len(t) + 1] = h
      /\ Range(Append(t, h)) = Range(t) \union {h}
  <2>1. t \in Seq(DOMAIN log) /\ h \in DOMAIN log
    BY <1>1
  <2> QED
    BY <2>1, Queued
<1>2. /\ Len(t) \in Nat
      /\ DOMAIN t = 1 .. Len(t) /\ DOMAIN queue' = 1 .. Len(t) + 1
      /\ \A k \in DOMAIN t : k \in DOMAIN queue' /\ queue'[k] = t[k]
      /\ queue'[Len(t) + 1] = h
      /\ Range(queue') = Range(t) \union {h}
  BY <1>1, <1>a
<1>3. Range(queue)' = Range(queue)
  BY <1>1, <1>2
<1>4. UNCHANGED Arrived
  BY <1>3 DEF Arrived
<1>5. \A i, j : Before(i, j)' <=> Before(i, j)
  BY DEF Before
<1>6. ASSUME ~disordered', NEW k \in DOMAIN queue', queue'[k] \notin processed,
             NEW i \in DOMAIN log, Before(i, queue'[k]), i \notin processed
      PROVE  \E n \in 1 .. k - 1 : queue'[n] = i
  <2>0. ~disordered
    BY <1>6
  <2>1. CASE k = Len(t) + 1
    <3>1. queue[1] \notin processed /\ Before(i, queue[1])
      BY <1>1, <1>2, <1>6, <2>1
    <3>2. \E n \in 1 .. 1 - 1 : queue[n] = i
      BY <1>1, <1>6, <2>0, <3>1 DEF IInv, QueueInv
    <3> QED
      BY <3>2
  <2>2. CASE k # Len(t) + 1
    <3>0. k \in DOMAIN t /\ k \in Nat
      BY <1>2, <1>6, <2>2
    <3>1. k \in DOMAIN t /\ k + 1 \in DOMAIN queue /\ queue'[k] = queue[k + 1] /\ k \in Nat
      BY <1>1, <1>2, <3>0
    <3>2. PICK n \in 1 .. k + 1 - 1 : queue[n] = i
      BY <1>6, <2>0, <3>1 DEF IInv, QueueInv
    <3>3. n # 1
      <4> SUFFICES ASSUME i = h PROVE FALSE
        BY <1>1, <3>2
      <4>1. queue'[k] \in Range(t)
        BY <1>2, <3>1 DEF Range
      <4>2. queue'[k] > i /\ log[queue'[k]].from = log[i].from
        BY <1>0, <1>6, LogTyped, <4>1, <1>1, <3>1 DEF Before
      <4> QED
        BY <1>6, <4>1, <4>2 DEF Overtaken, h, t
    <3>4. n - 1 \in 1 .. k - 1 /\ n \in DOMAIN queue
      BY <3>1, <3>2, <3>3, <1>1
    <3>5. queue'[n - 1] = i
      BY <1>1, <1>2, <3>2, <3>3, <3>4
    <3> QED
      BY <3>4, <3>5
  <2> QED
    BY <2>1, <2>2
<1>7. ~disordered' => ~disordered
  OBVIOUS
<1>8. QueueInv'
  BY <1>5, <1>6, <1>7 DEF IInv, QueueInv
<1> QED
  BY <1>4, <1>8

LEMMA ArrivedInOrder ==
  ASSUME IInv, NEW i \in DOMAIN log, Arrive(i), UNCHANGED <<log, processed>>
  PROVE  /\ QueueInv' /\ queue' \in Seq(DOMAIN log)
         /\ Arrived' = Arrived \union {i}
         /\ ~disordered' => ~disordered
         /\ ~disordered' /\ i \notin Arrived =>
              \A j \in DOMAIN log : Before(j, i) => j \in Arrived
<1>0. TypeOK /\ queue \in Seq(DOMAIN log) /\ DOMAIN log = 1 .. Len(log) /\ Len(log) \in Nat
  BY LogTyped DEF IInv, TypeOK
<1>1. /\ queue' \in Seq(DOMAIN log) /\ Len(queue) \in Nat
      /\ DOMAIN queue = 1 .. Len(queue) /\ DOMAIN queue' = 1 .. Len(queue) + 1
      /\ \A k \in DOMAIN queue : k \in DOMAIN queue' /\ queue'[k] = queue[k]
      /\ queue'[Len(queue) + 1] = i
      /\ Range(queue)' = Range(queue) \union {i}
  BY <1>0, Queued DEF Arrive
<1>2. Arrived' = Arrived \union {i}
  BY <1>1 DEF Arrived
<1>3. /\ ~disordered' => ~disordered
      /\ ~disordered' /\ i \notin Arrived => \A j \in DOMAIN log : Before(j, i) => j \in Arrived
  BY <1>0 DEF Arrive, Arrived, Before
<1>4. \A j, k : Before(j, k)' <=> Before(j, k)
  BY DEF Before
<1>5. ASSUME ~disordered', NEW k \in DOMAIN queue', queue'[k] \notin processed,
             NEW j \in DOMAIN log, Before(j, queue'[k]), j \notin processed
      PROVE  \E n \in 1 .. k - 1 : queue'[n] = j
  <2>1. CASE k \in DOMAIN queue
    <3>1. PICK n \in 1 .. k - 1 : queue[n] = j
      BY <1>1, <1>3, <1>5, <2>1 DEF IInv, QueueInv
    <3> QED
      BY <1>1, <2>1, <3>1
  <2>2. CASE k \notin DOMAIN queue
    <3>1. k = Len(queue) + 1 /\ queue'[k] = i
      BY <1>1, <1>5, <2>2
    <3>2. j \in Range(queue)
      <4>1. CASE i \notin Arrived
        BY <1>3, <1>5, <3>1, <4>1 DEF Arrived
      <4>2. CASE i \in Arrived
        <5>1. PICK m \in DOMAIN queue : queue[m] = i
          BY <1>5, <3>1, <4>2 DEF Arrived, Range
        <5>2. PICK n \in 1 .. m - 1 : queue[n] = j
          BY <1>3, <1>5, <3>1, <5>1 DEF IInv, QueueInv
        <5> QED
          BY <1>1, <5>1, <5>2 DEF Range
      <4> QED
        BY <4>1, <4>2
    <3>3. PICK n \in DOMAIN queue : queue[n] = j
      BY <3>2 DEF Range
    <3> QED
      BY <1>1, <3>1, <3>3
  <2> QED
    BY <2>1, <2>2
<1>6. QueueInv'
  BY <1>3, <1>4, <1>5 DEF IInv, QueueInv
<1> QED
  BY <1>1, <1>2, <1>3, <1>6

LEMMA FollowedTaken ==
  ASSUME IInv, Grown, followed # <<>>, followed' = Tail(followed),
         UNCHANGED <<Arrived, disordered>>
  PROVE  /\ FollowedInv' /\ OnceInv'
         /\ Head(followed) \in DOMAIN log /\ Head(followed) \notin Followed
         /\ Followed' = Followed \union {Head(followed)}
         /\ ~disordered => \A j \in Followed :
                log[j].from = log[Head(followed)].from => j < Head(followed)
<1>0. /\ TypeOK /\ followed \in Seq(DOMAIN log) /\ Followed \subseteq DOMAIN log
      /\ DOMAIN log \subseteq Nat /\ OnceInv
  BY LogTyped DEF IInv, TypeOK
<1> DEFINE h == Head(followed)
           t == Tail(followed)
<1>1. /\ h = followed[1] /\ 1 \in DOMAIN followed /\ h \in DOMAIN log
      /\ DOMAIN followed = 1 .. Len(followed) /\ Len(followed) \in Nat
      /\ \A k \in DOMAIN t : k + 1 \in DOMAIN followed /\ t[k] = followed[k + 1]
      /\ \A k \in DOMAIN followed : k = 1 \/ (k - 1 \in DOMAIN t /\ t[k - 1] = followed[k])
      /\ Range(followed) = {h} \union Range(t)
      /\ DOMAIN t = 1 .. Len(followed) - 1
      /\ followed' = t
  BY <1>0, Taken
<1> HIDE DEF h, t
<1>2. h \notin Range(t)
  BY <1>0, <1>1 DEF OnceInv, Range
<1>3. h \in Arrived /\ log[h].from # "conversation" /\ h \in Range(followed)
  BY <1>0, <1>1 DEF OnceInv, Range
<1>4. Followed' = Followed \union {h} /\ h \notin Followed
  <2>1. Followed' = Arrived \ Range(t)
    BY <1>1 DEF Followed
  <2> QED
    BY <1>1, <1>2, <1>3, <2>1 DEF Followed
<1>5. \A i, j : i \in DOMAIN log' /\ j \in DOMAIN log =>
          (Before(i, j)' <=> i \in DOMAIN log /\ Before(i, j))
  BY <1>0, SaidAlready
<1>6. \A i \in DOMAIN log : log'[i] = log[i]
  BY DEF Grown
<1>7. OnceInv'
  <2>1. \A k \in DOMAIN followed' :
            followed'[k] \in Arrived' /\ log'[followed'[k]].from # "conversation"
    <3>1. \A k \in DOMAIN followed : followed[k] \in DOMAIN log
      BY <1>0
    <3> QED
      BY <1>0, <1>1, <1>6, <3>1 DEF OnceInv
  <2>2. ASSUME NEW k \in DOMAIN followed', NEW n \in DOMAIN followed',
               followed'[k] = followed'[n]
        PROVE  k = n
    <3>1. k + 1 = n + 1 /\ k \in Nat /\ n \in Nat
      BY <1>0, <1>1, <2>2 DEF OnceInv
    <3> QED
      BY <3>1
  <2> QED
    BY <2>1, <2>2 DEF OnceInv
<1>8. ASSUME ~disordered
      PROVE  \A i \in DOMAIN log : Before(i, h) => i \in Followed
  <2>1. \A i \in DOMAIN log : Before(i, followed[1]) /\ i \notin Followed
            => \E n \in 1 .. 1 - 1 : followed[n] = i
    BY <1>1, <1>8 DEF IInv, FollowedInv
  <2> QED
    BY <1>1, <2>1
<1>9. ASSUME ~disordered, NEW j \in Followed, log[j].from = log[h].from
      PROVE  j < h
  <2>1. ~Before(h, j)
    BY <1>1, <1>3, <1>4, <1>9 DEF IInv, FollowedInv
  <2>2. j # h /\ j \in Nat /\ h \in Nat
    BY <1>0, <1>1, <1>4
  <2> QED
    BY <1>9, <2>1, <2>2 DEF Before
<1>10. ASSUME ~disordered, NEW j \in Followed', NEW i \in DOMAIN log',
              Before(i, j)', log'[i].from # "conversation"
       PROVE  i \in Followed'
  <2>1. j \in DOMAIN log /\ i \in DOMAIN log /\ Before(i, j)
    BY <1>0, <1>1, <1>4, <1>5, <1>10
  <2> QED
    BY <1>4, <1>6, <1>8, <1>10, <2>1 DEF IInv, FollowedInv
<1>11. ASSUME ~disordered, NEW k \in DOMAIN followed', NEW i \in DOMAIN log',
              Before(i, followed[k])', i \notin Followed'
       PROVE  \E n \in 1 .. k - 1 : followed'[n] = i
  <2>1. k + 1 \in DOMAIN followed /\ followed'[k] = followed[k + 1] /\ k \in Nat
    BY <1>1, <1>11
  <2>2. followed[k + 1] \in DOMAIN log
    BY <1>0, <2>1
  <2>3. i \in DOMAIN log /\ Before(i, followed[k + 1]) /\ i \notin Followed
    BY <1>4, <1>5, <1>11, <2>1, <2>2
  <2>4. PICK n \in 1 .. k + 1 - 1 : followed[n] = i
    BY <1>11, <2>1, <2>3 DEF IInv, FollowedInv
  <2>5. n # 1
    BY <1>1, <1>4, <1>11, <2>4
  <2>6. n - 1 \in 1 .. k - 1 /\ n \in DOMAIN followed
    BY <1>1, <2>1, <2>4, <2>5
  <2>7. followed'[n - 1] = i
    BY <1>1, <2>4, <2>5, <2>6
  <2> QED
    BY <2>6, <2>7
<1>12. FollowedInv'
  BY <1>10, <1>11 DEF FollowedInv
<1> QED
  BY <1>1, <1>4, <1>7, <1>9, <1>12 DEF h

LEMMA FollowedRotated ==
  ASSUME IInv, followed # <<>>, followed' = Append(Tail(followed), Head(followed)),
         UNCHANGED <<Arrived, log>>,
         disordered' = (disordered \/ Overtaken(Head(followed), Tail(followed)))
  PROVE  FollowedInv' /\ OnceInv' /\ UNCHANGED Followed
<1>0. /\ TypeOK /\ followed \in Seq(DOMAIN log) /\ Followed \subseteq DOMAIN log
      /\ DOMAIN log \subseteq Nat /\ OnceInv
  BY LogTyped DEF IInv, TypeOK
<1> DEFINE h == Head(followed)
           t == Tail(followed)
<1>1. /\ h = followed[1] /\ 1 \in DOMAIN followed /\ h \in DOMAIN log
      /\ t \in Seq(DOMAIN log)
      /\ DOMAIN followed = 1 .. Len(followed) /\ Len(followed) \in Nat
      /\ \A k \in DOMAIN t : k + 1 \in DOMAIN followed /\ t[k] = followed[k + 1]
      /\ \A k \in DOMAIN followed : k = 1 \/ (k - 1 \in DOMAIN t /\ t[k - 1] = followed[k])
      /\ Range(followed) = {h} \union Range(t)
      /\ DOMAIN t = 1 .. Len(followed) - 1
      /\ followed' = Append(t, h)
  BY <1>0, Taken
<1> HIDE DEF h, t
<1>2. /\ Len(t) \in Nat
      /\ DOMAIN t = 1 .. Len(t) /\ DOMAIN Append(t, h) = 1 .. Len(t) + 1
      /\ \A k \in DOMAIN t : k \in DOMAIN Append(t, h) /\ Append(t, h)[k] = t[k]
      /\ Append(t, h)[Len(t) + 1] = h
      /\ Range(Append(t, h)) = Range(t) \union {h}
  <2>1. t \in Seq(DOMAIN log) /\ h \in DOMAIN log
    BY <1>1
  <2> QED
    BY <2>1, Queued
<1>3. Range(followed)' = Range(followed)
  BY <1>1, <1>2
<1>4. UNCHANGED Followed
  BY <1>3 DEF Followed
<1>5. ASSUME NEW k \in DOMAIN followed'
      PROVE  \/ k = Len(t) + 1 /\ followed'[k] = followed[1]
             \/ k \in DOMAIN t /\ k + 1 \in DOMAIN followed /\ followed'[k] = followed[k + 1]
  <2>1. k = Len(t) + 1 \/ k \in DOMAIN t
    BY <1>1, <1>2, <1>5
  <2> QED
    BY <1>1, <1>2, <2>1
<1>6. OnceInv'
  <2>1. \A k \in DOMAIN followed' :
            followed'[k] \in Arrived' /\ log'[followed'[k]].from # "conversation"
    BY <1>0, <1>1, <1>5 DEF OnceInv
  <2>2. ASSUME NEW k \in DOMAIN followed', NEW n \in DOMAIN followed',
               followed'[k] = followed'[n]
        PROVE  k = n
    <3>1. CASE k \in DOMAIN t /\ n \in DOMAIN t
      <4>1. k + 1 = n + 1 /\ k \in Nat /\ n \in Nat
        BY <1>0, <1>1, <1>2, <2>2, <3>1 DEF OnceInv
      <4> QED
        BY <4>1
    <3>2. ASSUME NEW i \in DOMAIN t PROVE followed[i + 1] # followed[1]
      <4>1. i + 1 # 1 /\ i + 1 \in DOMAIN followed
        BY <1>1, <1>2
      <4> QED
        BY <1>0, <1>1, <4>1 DEF OnceInv
    <3> QED
      BY <1>5, <2>2, <3>1, <3>2
  <2> QED
    BY <2>1, <2>2 DEF OnceInv
<1>7. \A i, j : Before(i, j)' <=> Before(i, j)
  BY DEF Before
<1>8. ASSUME ~disordered', NEW k \in DOMAIN followed', NEW i \in DOMAIN log,
             Before(i, followed'[k]), i \notin Followed
      PROVE  \E n \in 1 .. k - 1 : followed'[n] = i
  <2>0. ~disordered
    BY <1>8
  <2>1. CASE k = Len(t) + 1 /\ followed'[k] = followed[1]
    <3>1. \E n \in 1 .. 1 - 1 : followed[n] = i
      BY <1>1, <1>8, <2>0, <2>1 DEF IInv, FollowedInv
    <3> QED
      BY <3>1
  <2>2. CASE k \in DOMAIN t /\ k + 1 \in DOMAIN followed /\ followed'[k] = followed[k + 1]
    <3>1. k \in Nat
      BY <1>2, <2>2
    <3>2. PICK n \in 1 .. k + 1 - 1 : followed[n] = i
      BY <1>8, <2>0, <2>2 DEF IInv, FollowedInv
    <3>3. n # 1
      <4> SUFFICES ASSUME i = h PROVE FALSE
        BY <1>1, <3>2
      <4>1. followed'[k] \in Range(t)
        BY <1>1, <2>2 DEF Range
      <4>2. followed'[k] > i /\ log[followed'[k]].from = log[i].from
        <5>1. followed'[k] \in Nat /\ i \in Nat
          BY <1>0, <1>1, <2>2
        <5> QED
          BY <1>8, <5>1 DEF Before
      <4> QED
        BY <1>8, <4>1, <4>2 DEF Overtaken, h, t
    <3>4. n - 1 \in 1 .. k - 1 /\ n \in DOMAIN followed
      BY <3>1, <3>2, <3>3, <1>1, <2>2
    <3>5. n - 1 \in DOMAIN t /\ t[n - 1] = i
      BY <1>1, <3>2, <3>3, <3>4
    <3>6. followed'[n - 1] = i
      BY <1>1, <1>2, <3>5
    <3> QED
      BY <3>4, <3>6
  <2> QED
    BY <1>5, <1>8, <2>1, <2>2
<1>9. ~disordered' => ~disordered
  OBVIOUS
<1>10. FollowedInv'
  BY <1>4, <1>7, <1>8, <1>9 DEF IInv, FollowedInv
<1> QED
  BY <1>4, <1>6, <1>10

LEMMA ArrivedFollowed ==
  ASSUME IInv, NEW i \in DOMAIN log, Arrive(i), UNCHANGED <<log, processed>>
  PROVE  /\ FollowedInv' /\ OnceInv' /\ followed' \in Seq(DOMAIN log)
         /\ Followed' \subseteq DOMAIN log
         /\ \A j \in DOMAIN log : log[j].from = "user" => (j \in Followed' <=> j \in Followed)
<1>0. /\ TypeOK /\ followed \in Seq(DOMAIN log) /\ Followed \subseteq DOMAIN log
      /\ Arrived \subseteq DOMAIN log /\ OnceInv
  BY LogTyped DEF IInv, TypeOK
<1>1. /\ Arrived' = Arrived \union {i} /\ (~disordered' => ~disordered)
      /\ ~disordered' /\ i \notin Arrived => \A j \in DOMAIN log : Before(j, i) => j \in Arrived
  BY ArrivedInOrder
<1>2. \A j, k : Before(j, k)' <=> Before(j, k)
  BY DEF Before
<1>3. CASE log[i].from # "conversation" /\ i \notin Arrived
  <2>1. followed' = Append(followed, i)
    BY <1>3 DEF Arrive, Arrived
  <2>2. /\ followed' \in Seq(DOMAIN log) /\ Len(followed) \in Nat
        /\ DOMAIN followed = 1 .. Len(followed) /\ DOMAIN followed' = 1 .. Len(followed) + 1
        /\ \A k \in DOMAIN followed : k \in DOMAIN followed' /\ followed'[k] = followed[k]
        /\ followed'[Len(followed) + 1] = i
        /\ Range(followed)' = Range(followed) \union {i}
    BY <1>0, <2>1, Queued
  <2>3. \A k \in DOMAIN followed' : k \in DOMAIN followed \/ k = Len(followed) + 1
    BY <2>2
  <2>4. UNCHANGED Followed
    BY <1>1, <1>3, <2>2 DEF Followed
  <2>5. \A k \in DOMAIN followed : followed[k] # i
    BY <1>0, <1>3 DEF OnceInv
  <2>6. OnceInv'
    <3>1. \A k \in DOMAIN followed' :
              followed'[k] \in Arrived' /\ log'[followed'[k]].from # "conversation"
      BY <1>0, <1>1, <1>3, <2>2, <2>3 DEF OnceInv
    <3>2. \A k, n \in DOMAIN followed' : followed'[k] = followed'[n] => k = n
      BY <1>0, <2>2, <2>3, <2>5 DEF OnceInv
    <3> QED
      BY <3>1, <3>2 DEF OnceInv
  <2>7. ASSUME ~disordered', NEW k \in DOMAIN followed', NEW j \in DOMAIN log,
               Before(j, followed'[k]), j \notin Followed
        PROVE  \E n \in 1 .. k - 1 : followed'[n] = j
    <3>1. CASE k \in DOMAIN followed
      <4>1. PICK n \in 1 .. k - 1 : followed[n] = j
        BY <1>1, <2>2, <2>7, <3>1 DEF IInv, FollowedInv
      <4> QED
        BY <2>2, <3>1, <4>1
    <3>2. CASE k = Len(followed) + 1
      <4>1. j \in Range(followed)
        BY <1>1, <1>3, <2>2, <2>7, <3>2 DEF Followed
      <4>2. PICK n \in DOMAIN followed : followed[n] = j
        BY <4>1 DEF Range
      <4> QED
        BY <2>2, <3>2, <4>2
    <3> QED
      BY <2>3, <3>1, <3>2
  <2>8. FollowedInv'
    BY <1>1, <1>2, <2>4, <2>7 DEF IInv, FollowedInv
  <2> QED
    BY <1>0, <2>2, <2>4, <2>6, <2>8
<1>4. CASE ~(log[i].from # "conversation" /\ i \notin Arrived)
  <2>1. followed' = followed
    BY <1>4 DEF Arrive, Arrived
  <2>2. OnceInv'
    BY <1>0, <1>1, <2>1 DEF OnceInv
  <2>3. Followed \subseteq Followed' /\ Followed' \subseteq Followed \union {i}
    BY <1>1, <2>1 DEF Followed
  <2>4. i \in Followed' => i \in Followed \/ log[i].from = "conversation"
    BY <1>4, <2>1 DEF Followed
  <2>5. FollowedInv'
    <3>1. ASSUME ~disordered', NEW j \in Followed', NEW k \in DOMAIN log,
                 Before(k, j), log[k].from # "conversation"
          PROVE  k \in Followed'
      BY <1>1, <2>3, <2>4, <3>1 DEF IInv, FollowedInv, Before
    <3>2. ASSUME ~disordered', NEW k \in DOMAIN followed, NEW j \in DOMAIN log,
                 Before(j, followed[k]), j \notin Followed'
          PROVE  \E n \in 1 .. k - 1 : followed[n] = j
      BY <1>1, <2>3, <3>2 DEF IInv, FollowedInv
    <3> QED
      BY <1>2, <2>1, <3>1, <3>2 DEF FollowedInv
  <2> QED
    BY <1>0, <2>1, <2>2, <2>3, <2>4, <2>5
<1> QED
  BY <1>3, <1>4

-----------------------------------------------------------------------------
(* The types, and what each kind of step leaves.                           *)

TableTypes ==
    /\ org \in [Member -> {"ACTIVE", "LEFT"}]
    /\ known \in [Member -> {"ACTIVE", "LEFT"}]
    /\ chat \in [Chat -> {"none", "ACTIVE", "CLOSED", "DELETED"}]
    /\ roster \in [Chat -> [Member -> {None, "ACTIVE", "LEFT"}]]
    /\ blocks \subseteq Member \X Member /\ contacts \subseteq Member \X Member
    /\ hidden \subseteq Member

LogTypes ==
    /\ log \in Seq(EventType)
    /\ pending \subseteq DOMAIN log /\ late \subseteq Rows("organization")
    /\ queue \in Seq(DOMAIN log) /\ followed \in Seq(DOMAIN log)

BatchTypes ==
    /\ open \in [Batching -> [rows : SUBSET Nat, sent : SUBSET Nat]]
    /\ \A p \in Batching : open[p].rows \union open[p].sent \subseteq Rows(p)

ProjectionTypes ==
    /\ processed \subseteq DOMAIN log
    /\ pOrg \in [Member -> {None, "ACTIVE", "LEFT"}]
    /\ pChat \in [Chat -> {"none", "ACTIVE", "CLOSED"}]
    /\ pRoster \in [Chat -> [Member -> {None, "ACTIVE", "LEFT"}]]
    /\ pBlocks \subseteq Member \X Member

OtherTypes ==
    /\ barred \subseteq Member \X Member
    /\ commands \in 0..MaxCommands /\ faults \in 0..MaxFaults /\ disordered \in BOOLEAN

LEMMA TypeParts ==
  TypeOK <=> TableTypes /\ LogTypes /\ BatchTypes /\ ProjectionTypes /\ OtherTypes
BY DEF TypeOK, TableTypes, LogTypes, BatchTypes, ProjectionTypes, OtherTypes

LEMMA TypePartsNext ==
  ASSUME TableTypes', LogTypes', BatchTypes', ProjectionTypes', OtherTypes'
  PROVE  TypeOK'
BY DEF TypeOK, TableTypes, LogTypes, BatchTypes, ProjectionTypes, OtherTypes

LEMMA WiderSeq ==
  ASSUME NEW S, NEW T, S \subseteq T, NEW s \in Seq(S)
  PROVE  s \in Seq(T)
OBVIOUS

LEMMA StagedTypes ==
  ASSUME TypeOK, NEW events \in Seq(EventType), Stage(events),
         UNCHANGED <<publishing, queue>>, followed' \in Seq(DOMAIN log)
  PROVE  LogTypes' /\ BatchTypes'
<1>1. /\ log' \in Seq(EventType) /\ DOMAIN log \subseteq DOMAIN log' /\ Grown
      /\ pending' = pending \union (DOMAIN log' \ DOMAIN log)
  BY Staged DEF Grown
<1>2. pending' \subseteq DOMAIN log' /\ pending \subseteq pending'
  BY <1>1 DEF TypeOK
<1>3. queue' \in Seq(DOMAIN log') /\ followed' \in Seq(DOMAIN log')
  BY <1>1, WiderSeq DEF TypeOK
<1>4. \A p : Rows(p) \subseteq Rows(p)'
  BY <1>1, <1>2 DEF Rows, Grown, TypeOK
<1>5. late' \subseteq Rows("organization")'
  BY <1>4 DEF TypeOK, publishing
<1>6. LogTypes'
  BY <1>1, <1>2, <1>3, <1>5 DEF LogTypes
<1>7. BatchTypes'
  BY <1>4 DEF BatchTypes, TypeOK, publishing
<1> QED
  BY <1>6, <1>7

LEMMA BegunChat ==
  ASSUME IInv, NEW c \in Chat, chat[c] # "none"
  PROVE  \E j \in DOMAIN log : log[j] = Creation(c)
<1> DEFINE k == [of |-> "chat", chat |-> c]
<1>1. k \in Keys /\ k.of = "chat" /\ k.chat = c
  BY DEF Keys
<1>2. Table(k) = chat[c] /\ AtFirst(k) = "none"
  BY <1>1 DEF Table, AtFirst
<1>3. PICK i \in OfKey(DOMAIN log, k) : TRUE
  BY <1>1, <1>2 DEF IInv, TablesInv, Reflects
<1>4. i \in DOMAIN log /\ log[i].from = "conversation" /\ log[i].chat = c
  BY <1>1, <1>3 DEF OfKey, Concerns
<1>5. PICK j \in 1 .. i : log[j] = Creation(c)
  BY <1>4 DEF IInv, LogInv
<1>6. j \in DOMAIN log
  BY <1>4, <1>5, LogTyped DEF IInv
<1> QED
  BY <1>5, <1>6

\* What the log says stays well formed, and new events follow the creation of their chat.
LEMMA LogContinued ==
  ASSUME IInv, NEW events \in Seq(EventType), Stage(events),
         \A n \in DOMAIN events :
             /\ WellFormed(events[n])
             /\ events[n].from = "conversation" =>
                    events[n] = Creation(events[n].chat) \/ chat[events[n].chat] # "none"
  PROVE  LogInv'
<1>0. TypeOK /\ DOMAIN log = 1 .. Len(log) /\ Len(log) \in Nat
  BY LogTyped DEF IInv
<1>1. /\ Grown
      /\ DOMAIN log' = DOMAIN log \union {Len(log) + n : n \in DOMAIN events}
      /\ \A n \in DOMAIN events :
            /\ log'[Len(log) + n] = events[n] /\ Len(log) + n \in Nat
            /\ Len(log) + n \notin DOMAIN log
  BY <1>0, Staged
<1>2. ASSUME NEW i \in DOMAIN log'
      PROVE  /\ WellFormed(log'[i])
             /\ log'[i].from = "conversation" =>
                    \E j \in 1 .. i : log'[j] = Creation(log'[i].chat)
  <2>1. CASE i \in DOMAIN log
    <3>1. log'[i] = log[i] /\ i \in Nat /\ 1 .. i \subseteq DOMAIN log
      BY <1>0, <1>1, <2>1 DEF Grown
    <3>2. \A j \in 1 .. i : log'[j] = log[j]
      BY <1>1, <3>1 DEF Grown
    <3> QED
      BY <2>1, <3>1, <3>2 DEF IInv, LogInv
  <2>2. CASE i \notin DOMAIN log
    <3>1. PICK n \in DOMAIN events : i = Len(log) + n /\ log'[i] = events[n] /\ i \in Nat
      BY <1>1, <2>2
    <3>2. WellFormed(log'[i])
      BY <3>1
    <3>3. ASSUME log'[i].from = "conversation"
          PROVE  \E j \in 1 .. i : log'[j] = Creation(log'[i].chat)
      <4>0. i \in 1 .. i /\ DOMAIN log \subseteq 1 .. i
        <5>1. n \in Nat /\ n >= 1
          BY <3>1
        <5> QED
          BY <1>0, <3>1, <5>1
      <4>1. CASE events[n] = Creation(events[n].chat)
        BY <3>1, <4>0, <4>1
      <4>2. CASE chat[events[n].chat] # "none"
        <5>1. events[n] \in EventType /\ events[n].chat \in Chat
          BY <3>1, <3>3 DEF EventType
        <5>2. PICK j \in DOMAIN log : log[j] = Creation(events[n].chat)
          BY <4>2, <5>1, BegunChat
        <5>3. log'[j] = Creation(events[n].chat) /\ j \in 1 .. i
          BY <1>1, <4>0, <5>2 DEF Grown
        <5> QED
          BY <3>1, <5>3
      <4> QED
        BY <3>1, <3>3, <4>1, <4>2
    <3> QED
      BY <3>2, <3>3
  <2> QED
    BY <2>1, <2>2
<1> QED
  BY <1>2 DEF LogInv

-----------------------------------------------------------------------------
(* Commands.                                                               *)

\* What the commands leave to others, with whatever they stage.
LEMMA OthersKept ==
  ASSUME IInv, NEW events \in Seq(EventType), Stage(events), commands' \in 0..MaxCommands,
         UNCHANGED <<barred, followed, publishing, queue, projections, faults, disordered>>
  PROVE  /\ ProjectionsInv' /\ QueueInv' /\ FollowedInv' /\ KeptInv' /\ OnceInv'
         /\ LogTypes' /\ BatchTypes' /\ ProjectionTypes' /\ OtherTypes'
<1>0. TypeOK /\ Grown /\ DOMAIN log \subseteq DOMAIN log' /\ Followed \subseteq DOMAIN log
  BY Staged, LogTyped DEF IInv, Grown
<1>1. UNCHANGED <<processed, queue, followed, disordered, barred>> /\ UNCHANGED Arrived
  BY DEF projections, Arrived
<1>2. FollowedInv' /\ UNCHANGED Followed
  BY <1>0, <1>1, FollowedKept
<1>3. ProjectionsInv'
  BY <1>0, <1>1, <1>2, ProjectionsKept
<1>4. QueueInv'
  BY <1>0, <1>1, QueueKept
<1>5. OnceInv'
  <2>1. \A k \in DOMAIN followed : followed[k] \in DOMAIN log
    BY <1>0 DEF TypeOK
  <2> QED
    BY <1>0, <1>1, <2>1 DEF IInv, OnceInv, Grown
<1>6. KeptInv'
  <2>1. pending' = pending \union (DOMAIN log' \ DOMAIN log)
    BY <1>0, Staged
  <2> QED
    BY <1>0, <1>1, <2>1 DEF IInv, KeptInv, publishing
<1>7. LogTypes' /\ BatchTypes'
  <2>1. followed' \in Seq(DOMAIN log)
    BY <1>0, <1>1 DEF TypeOK
  <2> QED
    BY <1>0, <2>1, StagedTypes
<1>8. ProjectionTypes' /\ OtherTypes'
  BY <1>0 DEF TypeOK, ProjectionTypes, OtherTypes, projections
<1> QED
  BY <1>2, <1>3, <1>4, <1>5, <1>6, <1>7, <1>8

LEMMA OneCommand ==
  ASSUME IInv, Command, NEW e \in EventType, Stage(<<e>>),
         WellFormed(e),
         e.from = "conversation" => e = Creation(e.chat) \/ chat[e.chat] # "none",
         \A k \in Keys : Table(k)' = IF Concerns(e, k) THEN Value(e) ELSE Table(k),
         TableTypes', RosterInv'
  PROVE  IInv'
<1>1. <<e>> \in Seq(EventType) /\ DOMAIN <<e>> = {1} /\ <<e>>[1] = e
  OBVIOUS
<1>2. commands' \in 0..MaxCommands
  BY FoundersAssumption DEF Command, IInv, TypeOK
<1>3. /\ ProjectionsInv' /\ QueueInv' /\ FollowedInv' /\ KeptInv' /\ OnceInv'
      /\ LogTypes' /\ BatchTypes' /\ ProjectionTypes' /\ OtherTypes'
  BY <1>1, <1>2, OthersKept DEF Command
<1>4. TypeOK'
  BY <1>3, TypePartsNext
<1>5. LogInv'
  BY <1>1, LogContinued
<1>6. TablesInv'
  BY OneTold
<1> QED
  BY <1>3, <1>4, <1>5, <1>6 DEF IInv

\* The tables as a key sees them.
LEMMA KeyCases ==
  ASSUME NEW k \in Keys
  PROVE  \/ /\ k.of = "member" /\ k.who \in Member
            /\ Table(k) = org[k.who] /\ Table(k)' = org'[k.who]
         \/ /\ k.of = "chat" /\ k.chat \in Chat
            /\ Table(k) = chat[k.chat] /\ Table(k)' = chat'[k.chat]
         \/ /\ k.of = "place" /\ k.chat \in Chat /\ k.who \in Member /\ k.who \in Founders[k.chat]
            /\ Table(k) = roster[k.chat][k.who] /\ Table(k)' = roster'[k.chat][k.who]
         \/ /\ k.of = "pair" /\ k.pair \in Member \X Member
            /\ Table(k) = Blocking(blocks, k.pair) /\ Table(k)' = Blocking(blocks', k.pair)
BY DEF Keys, Table, Blocking

LEMMA FoundStep ==
  ASSUME IInv, NEW c \in Chat, Found(c)
  PROVE  IInv'
<1> DEFINE e == Told("created", c, None, "ACTIVE")
<1>2. e \in EventType
  BY DEF EventType, Told
<1>3. /\ e.from = "conversation" /\ e.kind = "created" /\ e.chat = c /\ e.who = None
      /\ e.status = "ACTIVE" /\ e = Creation(c)
  BY DEF Told, Creation
<1>4. /\ Command /\ Stage(<<e>>) /\ chat[c] = "none"
      /\ chat' = [chat EXCEPT ![c] = "ACTIVE"]
      /\ roster' = [roster EXCEPT ![c] =
                        [m \in Member |-> IF m \in Founders[c] THEN "ACTIVE" ELSE None]]
      /\ UNCHANGED <<org, blocks, contacts, hidden, known>>
  BY DEF Found, book
<1> HIDE DEF e
<1>5. TableTypes /\ TypeOK
  BY TypeParts DEF IInv
<1>6. TableTypes'
  BY <1>4, <1>5 DEF TableTypes
<1>7. RosterInv'
  BY <1>4, <1>5, FoundersAssumption DEF IInv, RosterInv, TableTypes, Command, projections
<1>8. WellFormed(e)
  BY <1>3 DEF WellFormed
<1>9. ASSUME NEW k \in Keys
      PROVE  Table(k)' = IF Concerns(e, k) THEN Value(e) ELSE Table(k)
  <2>1. CASE k.of = "chat"
    BY <1>3, <1>4, <1>5, <2>1, KeyCases DEF Concerns, Value, TableTypes
  <2>2. CASE k.of = "place"
    BY <1>3, <1>4, <1>5, <2>2, KeyCases DEF Concerns, Value, TableTypes
  <2>3. CASE k.of \in {"member", "pair"}
    BY <1>3, <1>4, <1>5, <2>3, KeyCases DEF Concerns, Value
  <2> QED
    BY <2>1, <2>2, <2>3, KeyCases
<1> QED
  BY <1>2, <1>3, <1>4, <1>6, <1>7, <1>8, <1>9, OneCommand

LEMMA EndStep ==
  ASSUME IInv, NEW c \in Chat, Close(c) \/ Delete(c)
  PROVE  IInv'
<1>1. PICK status \in {"CLOSED", "DELETED"}, kind \in {"closed", "deleted"} :
          /\ Command /\ Stage(<<Told(kind, c, None, status)>>)
          /\ (kind = "closed" <=> status = "CLOSED")
          /\ chat[c] # "none" /\ c \notin Direct
          /\ chat' = [chat EXCEPT ![c] = status]
          /\ UNCHANGED <<org, roster, blocks, contacts, hidden, known>>
  BY DEF Close, Delete, book
<1> DEFINE e == Told(kind, c, None, status)
<1>2. /\ e.from = "conversation" /\ e.kind = kind /\ e.chat = c /\ e.who = None
      /\ e.status = status /\ e \in EventType
  BY DEF Told, EventType
<1>3. Stage(<<e>>)
  BY <1>1
<1> HIDE DEF e
<1>4. TableTypes /\ TypeOK
  BY TypeParts DEF IInv
<1>5. TableTypes'
  BY <1>1, <1>4 DEF TableTypes
<1>6. RosterInv'
  BY <1>1, <1>4 DEF IInv, RosterInv, TableTypes, Command, projections
<1>7. WellFormed(e)
  BY <1>1, <1>2 DEF WellFormed
<1>8. ASSUME NEW k \in Keys
      PROVE  Table(k)' = IF Concerns(e, k) THEN Value(e) ELSE Table(k)
  <2>1. CASE k.of = "chat"
    BY <1>1, <1>2, <1>4, <2>1, KeyCases DEF Concerns, Value, TableTypes
  <2>2. CASE k.of \in {"place", "member", "pair"}
    BY <1>1, <1>2, <2>2, KeyCases DEF Concerns, Value
  <2> QED
    BY <2>1, <2>2, KeyCases
<1> QED
  BY <1>1, <1>2, <1>3, <1>5, <1>6, <1>7, <1>8, OneCommand

\* A place is one key, and an event of it is about no other.
LEMMA PlaceStep ==
  ASSUME IInv, NEW c \in Chat, NEW m \in Member, AddMember(c, m) \/ RemoveMember(c, m)
  PROVE  IInv'
<1>1. PICK status \in {"ACTIVE", "LEFT"} :
          /\ Command /\ Stage(<<Told("member", c, m, status)>>)
          /\ Active(c) # {} /\ c \notin Direct
          /\ roster' = [roster EXCEPT ![c][m] = status]
          /\ UNCHANGED <<org, chat, blocks, contacts, hidden, known>>
  BY DEF AddMember, RemoveMember, book
<1> DEFINE e == Told("member", c, m, status)
<1>2. /\ e.from = "conversation" /\ e.kind = "member" /\ e.chat = c /\ e.who = m
      /\ e.status = status /\ e \in EventType
  BY DEF Told, EventType
<1>3. Stage(<<e>>)
  BY <1>1
<1> HIDE DEF e
<1>4. TableTypes /\ TypeOK /\ None \notin Member /\ None # "ACTIVE" /\ Personal \subseteq Direct
  BY TypeParts, FoundersAssumption DEF IInv
<1>5. TableTypes'
  BY <1>1, <1>4 DEF TableTypes
<1>6. chat[c] # "none"
  BY <1>1, <1>4 DEF IInv, RosterInv, Active
<1>7. RosterInv'
  BY <1>1, <1>4, <1>6, FoundersAssumption DEF IInv, RosterInv, TableTypes, Command, projections
<1>8. WellFormed(e)
  BY <1>1, <1>2 DEF WellFormed
<1>9. ASSUME NEW k \in Keys
      PROVE  Table(k)' = IF Concerns(e, k) THEN Value(e) ELSE Table(k)
  <2>1. CASE k.of = "place"
    BY <1>1, <1>2, <1>4, <2>1, KeyCases DEF Concerns, Value, TableTypes
  <2>2. CASE k.of \in {"chat", "member", "pair"}
    BY <1>1, <1>2, <2>2, KeyCases DEF Concerns, Value
  <2> QED
    BY <2>1, <2>2, KeyCases
<1> QED
  BY <1>1, <1>2, <1>3, <1>5, <1>6, <1>7, <1>8, <1>9, OneCommand

LEMMA MembershipStep ==
  ASSUME IInv, NEW m \in Member, Depart(m) \/ Return(m)
  PROVE  IInv'
<1>1. PICK status \in {"ACTIVE", "LEFT"} :
          /\ Command
          /\ Stage(<<[from |-> "organization", who |-> m, status |-> status]>>)
          /\ org' = [org EXCEPT ![m] = status]
          /\ UNCHANGED <<chat, roster, blocks, contacts, hidden, known>>
  BY DEF Depart, Return, book
<1> DEFINE e == [from |-> "organization", who |-> m, status |-> status]
<1>2. e.from = "organization" /\ e.who = m /\ e.status = status /\ e \in EventType
  BY DEF EventType
<1>3. Stage(<<e>>)
  BY <1>1
<1> HIDE DEF e
<1>4. TableTypes /\ TypeOK
  BY TypeParts DEF IInv
<1>5. TableTypes'
  BY <1>1, <1>4 DEF TableTypes
<1>6. RosterInv'
  BY <1>1 DEF IInv, RosterInv, Command, projections
<1>7. WellFormed(e)
  BY <1>2 DEF WellFormed
<1>8. ASSUME NEW k \in Keys
      PROVE  Table(k)' = IF Concerns(e, k) THEN Value(e) ELSE Table(k)
  <2>1. CASE k.of = "member"
    BY <1>1, <1>2, <1>4, <2>1, KeyCases DEF Concerns, Value, TableTypes
  <2>2. CASE k.of \in {"chat", "place", "pair"}
    BY <1>1, <1>2, <2>2, KeyCases DEF Concerns, Value
  <2> QED
    BY <2>1, <2>2, KeyCases
<1> QED
  BY <1>1, <1>2, <1>3, <1>5, <1>6, <1>7, <1>8, OneCommand

LEMMA BlockStep ==
  ASSUME IInv, NEW m \in Member, NEW n \in Member, Block(m, n) \/ Unblock(m, n)
  PROVE  IInv'
<1>1. PICK kind \in {"blocked", "unblocked"} :
          /\ Command /\ Stage(<<ToldByUser(kind, m, n)>>)
          /\ blocks' = IF kind = "blocked" THEN blocks \union {<<m, n>>} ELSE blocks \ {<<m, n>>}
          /\ UNCHANGED <<org, chat, roster, contacts, hidden, known>>
  BY DEF Block, Unblock, book
<1> DEFINE e == ToldByUser(kind, m, n)
<1>2. e.from = "user" /\ e.kind = kind /\ e.pair = <<m, n>> /\ e \in EventType
  BY DEF EventType, ToldByUser
<1>3. Stage(<<e>>)
  BY <1>1
<1> HIDE DEF e
<1>4. TableTypes /\ TypeOK
  BY TypeParts DEF IInv
<1>5. TableTypes'
  BY <1>1, <1>4 DEF TableTypes
<1>6. RosterInv'
  BY <1>1 DEF IInv, RosterInv, Command, projections
<1>7. WellFormed(e)
  BY <1>2 DEF WellFormed
<1>8. ASSUME NEW k \in Keys
      PROVE  Table(k)' = IF Concerns(e, k) THEN Value(e) ELSE Table(k)
  <2>1. CASE k.of = "pair"
    BY <1>1, <1>2, <2>1, KeyCases DEF Concerns, Value, Blocking
  <2>2. CASE k.of \in {"chat", "place", "member"}
    BY <1>1, <1>2, <2>2, KeyCases DEF Concerns, Value
  <2> QED
    BY <2>1, <2>2, KeyCases
<1> QED
  BY <1>1, <1>2, <1>3, <1>5, <1>6, <1>7, <1>8, OneCommand

\* Where no table changes and nothing is told.
LEMMA BooksKept ==
  ASSUME IInv, UNCHANGED <<org, chat, roster, blocks, log>>
  PROVE  /\ TablesInv' /\ LogInv' /\ Grown
         /\ UNCHANGED pRoster => RosterInv'
<1>1. ASSUME NEW k \in Keys
      PROVE  Table(k)' = Table(k) /\ OfKey(DOMAIN log, k)' = OfKey(DOMAIN log, k)
  BY KeyCases DEF OfKey
<1>2. ASSUME NEW k \in Keys
      PROVE  Reflects(log, OfKey(DOMAIN log, k), Table(k), AtFirst(k))'
  <2>1. AtFirst(k)' = AtFirst(k)
    BY DEF AtFirst
  <2> QED
    BY <1>1, <2>1 DEF IInv, TablesInv
<1>3. TablesInv'
  BY <1>2 DEF TablesInv, Keys
<1>4. LogInv'
  BY DEF IInv, LogInv
<1>5. UNCHANGED pRoster => RosterInv'
  BY DEF IInv, RosterInv
<1> QED
  BY <1>3, <1>4, <1>5 DEF Grown

LEMMA Quiet ==
  ASSUME IInv, UNCHANGED <<org, chat, roster, blocks, barred, followed, log, pending, publishing,
                           queue, projections, disordered>>,
         TypeOK'
  PROVE  IInv'
<1>1. TablesInv' /\ LogInv' /\ Grown /\ RosterInv'
  BY BooksKept DEF projections
<1>2. UNCHANGED Arrived /\ UNCHANGED processed
  BY DEF projections, Arrived
<1>3. FollowedInv' /\ UNCHANGED Followed /\ QueueInv'
  BY <1>1, <1>2, FollowedKept, QueueKept
<1>4. ProjectionsInv'
  <2>1. Followed' \subseteq DOMAIN log
    BY <1>3, LogTyped DEF IInv
  <2> QED
    BY <1>1, <1>3, <2>1, ProjectionsKept
<1>5. KeptInv' /\ OnceInv'
  BY <1>2 DEF IInv, KeptInv, OnceInv, publishing
<1> QED
  BY <1>1, <1>3, <1>4, <1>5 DEF IInv

LEMMA ContactStep ==
  ASSUME IInv, NEW m \in Member, NEW n \in Member,
         SaveContact(m, n) \/ ForgetContact(m, n) \/ SetDiscoverable(m)
  PROVE  IInv'
<1>1. /\ Command
      /\ contacts' \in {contacts, contacts \union {<<m, n>>}, contacts \ {<<m, n>>}}
      /\ hidden' \in {hidden, hidden \union {m}, hidden \ {m}}
      /\ UNCHANGED <<org, chat, roster, blocks, known, log, pending>>
  BY DEF SaveContact, ForgetContact, SetDiscoverable
<1>2. TypeOK /\ TypeOK'
  <2>1. TypeOK
    BY DEF IInv
  <2>2. TableTypes'
    BY <1>1, <2>1 DEF TypeOK, TableTypes
  <2>3. commands' \in 0..MaxCommands
    BY <1>1, <2>1, FoundersAssumption DEF TypeOK, Command
  <2>4. LogTypes' /\ ProjectionTypes' /\ OtherTypes'
    BY <1>1, <2>1, <2>3 DEF TypeOK, Command, LogTypes, ProjectionTypes, OtherTypes,
       Rows, projections, publishing
  <2>5. BatchTypes'
    BY <1>1, <2>1 DEF TypeOK, Command, BatchTypes, Rows, publishing
  <2> QED
    BY <2>1, <2>2, <2>4, <2>5, TypePartsNext
<1> QED
  BY <1>1, <1>2, Quiet DEF Command

-----------------------------------------------------------------------------
(* conversation-service follows.                                           *)

LEMMA FollowBlockStep == IInv /\ FollowBlock => IInv'
<1> SUFFICES ASSUME IInv, FollowBlock PROVE IInv'
  OBVIOUS
<1> DEFINE h == Head(followed)
<1>1. /\ followed # <<>> /\ log[h].from = "user" /\ barred' = WithBlock(barred, log[h])
      /\ followed' = Tail(followed)
      /\ UNCHANGED <<org, chat, roster, blocks, contacts, hidden, known, log, pending, commands,
                     publishing, queue, projections, faults, disordered>>
  BY DEF FollowBlock, book, outbox
<1>2. TypeOK
  BY DEF IInv
<1>3. TablesInv' /\ LogInv' /\ Grown /\ RosterInv'
  BY <1>1, BooksKept DEF projections
<1>4. UNCHANGED Arrived /\ UNCHANGED processed
  BY <1>1 DEF projections, Arrived
<1>5. /\ FollowedInv' /\ OnceInv' /\ h \in DOMAIN log /\ h \notin Followed
      /\ Followed' = Followed \union {h}
      /\ ~disordered => \A j \in Followed : log[j].from = log[h].from => j < h
  BY <1>1, <1>3, <1>4, FollowedTaken
<1> HIDE DEF h
<1>6. QueueInv' /\ KeptInv'
  BY <1>1, <1>3, <1>4, QueueKept DEF IInv, KeptInv, publishing
<1>7. DOMAIN log \subseteq Nat /\ Followed \subseteq DOMAIN log /\ log[h] \in EventType
  BY <1>2, <1>5, LogTyped
<1>8. ASSUME ~disordered, NEW k \in Keys
      PROVE  /\ Reflects(log, ToldOf(processed, k), Projection(k), ProjectedAtFirst(k))'
             /\ k.of = "pair" =>
                   Reflects(log, OfKey(Followed, k), Blocking(barred, k.pair), AtFirst(k))'
  <2>1. /\ Reflects(log, ToldOf(processed, k), Projection(k), ProjectedAtFirst(k))
        /\ k.of = "pair" =>
             Reflects(log, OfKey(Followed, k), Blocking(barred, k.pair), AtFirst(k))
    BY <1>8 DEF IInv, ProjectionsInv
  <2>2. /\ ToldOf(processed, k)' = ToldOf(processed, k) /\ Projection(k)' = Projection(k)
        /\ ProjectedAtFirst(k)' = ProjectedAtFirst(k) /\ AtFirst(k)' = AtFirst(k)
    BY <1>1 DEF projections, ToldOf, Projection, ProjectedAtFirst, AtFirst
  <2>3. Reflects(log, ToldOf(processed, k), Projection(k), ProjectedAtFirst(k))'
    BY <1>1, <2>1, <2>2
  <2>4. CASE k.of = "pair" /\ Concerns(log[h], k)
    <3>1. h \in OfKey(Followed, k)' /\ \A j \in OfKey(Followed, k)' : j <= h
      BY <1>1, <1>5, <1>7, <1>8, <2>4 DEF OfKey, Concerns
    <3>2. Blocking(barred, k.pair)' = Value(log'[h])
      BY <1>1, <1>7, <2>4 DEF Blocking, Value, WithBlock, Concerns, EventType
    <3> QED
      BY <2>3, <3>1, <3>2 DEF Reflects
  <2>5. CASE k.of = "pair" /\ ~Concerns(log[h], k)
    <3>1. OfKey(Followed, k)' = OfKey(Followed, k)
      BY <1>1, <1>5, <2>5 DEF OfKey
    <3>2. Blocking(barred, k.pair)' = Blocking(barred, k.pair)
      BY <1>1, <2>5 DEF Blocking, WithBlock, Concerns
    <3> QED
      BY <1>1, <2>1, <2>2, <2>3, <3>1, <3>2
  <2> QED
    BY <2>3, <2>4, <2>5
<1>9. ProjectionsInv'
  BY <1>1, <1>8 DEF ProjectionsInv, Keys
<1>10. TypeOK'
  <2>1. TableTypes' /\ ProjectionTypes'
    BY <1>1, <1>2 DEF TypeOK, TableTypes, ProjectionTypes, projections
  <2>2. LogTypes'
    BY <1>1, <1>2, Taken DEF TypeOK, LogTypes, Rows, publishing
  <2>3. BatchTypes'
    BY <1>1, <1>2 DEF TypeOK, BatchTypes, Rows, publishing
  <2>4. barred' \subseteq Member \X Member
    BY <1>1, <1>2, <1>7 DEF TypeOK, WithBlock, EventType
  <2>5. OtherTypes'
    BY <1>1, <1>2, <2>4 DEF TypeOK, OtherTypes
  <2> QED
    BY <2>1, <2>2, <2>3, <2>5, TypePartsNext
<1> QED
  BY <1>3, <1>5, <1>6, <1>9, <1>10 DEF IInv

LEMMA FollowLaterStep == IInv /\ FollowLater => IInv'
<1> SUFFICES ASSUME IInv, FollowLater PROVE IInv'
  OBVIOUS
<1>1. /\ followed # <<>> /\ followed' = Append(Tail(followed), Head(followed))
      /\ disordered' = (disordered \/ Overtaken(Head(followed), Tail(followed)))
      /\ UNCHANGED <<org, chat, roster, blocks, contacts, hidden, known, barred, log, pending,
                     commands, publishing, queue, projections>>
      /\ UNCHANGED faults \/ Fault
  BY DEF FollowLater, tables, book, outbox
<1>2. TypeOK
  BY DEF IInv
<1>3. TablesInv' /\ LogInv' /\ Grown /\ RosterInv'
  BY <1>1, BooksKept DEF projections
<1>4. UNCHANGED Arrived /\ UNCHANGED processed
  BY <1>1 DEF projections, Arrived
<1>5. FollowedInv' /\ OnceInv' /\ UNCHANGED Followed
  BY <1>1, <1>4, FollowedRotated
<1>6. ~disordered' => ~disordered
  BY <1>1
<1>7. ProjectionsInv'
  <2>1. Followed' \subseteq DOMAIN log
    BY <1>2, <1>5, LogTyped
  <2> QED
    BY <1>1, <1>3, <1>5, <1>6, <2>1, ProjectionsKept
<1>8. QueueInv'
  <2>1. \A i, j : Before(i, j)' <=> Before(i, j)
    BY <1>1 DEF Before
  <2> QED
    BY <1>1, <1>4, <1>6, <2>1 DEF IInv, QueueInv
<1>9. KeptInv'
  BY <1>1, <1>4 DEF IInv, KeptInv, publishing
<1>10. TypeOK'
  <2>1. TableTypes' /\ ProjectionTypes'
    BY <1>1, <1>2 DEF TypeOK, TableTypes, ProjectionTypes, projections
  <2>2. LogTypes'
    <3>1. Tail(followed) \in Seq(DOMAIN log) /\ Head(followed) \in DOMAIN log
      BY <1>1, <1>2, Taken DEF TypeOK
    <3>2. followed' \in Seq(DOMAIN log)
      BY <1>1, <3>1, Queued
    <3> QED
      BY <1>1, <1>2, <3>2 DEF TypeOK, LogTypes, Rows, publishing
  <2>3. BatchTypes'
    BY <1>1, <1>2 DEF TypeOK, BatchTypes, Rows, publishing
  <2>4. disordered' \in BOOLEAN
    BY <1>1, <1>2 DEF TypeOK, Overtaken
  <2>5. OtherTypes'
    BY <1>1, <1>2, <2>4, FoundersAssumption DEF TypeOK, OtherTypes, Fault
  <2> QED
    BY <2>1, <2>2, <2>3, <2>5, TypePartsNext
<1> QED
  BY <1>3, <1>5, <1>7, <1>8, <1>9, <1>10 DEF IInv

\* One event for each chat that a member leaves.
LEMMA OneEach ==
  ASSUME NEW S, IsFiniteSet(S), NEW s, s = SetToSeq(S)
  PROVE  /\ s \in Seq(S)
         /\ \A n \in DOMAIN s : s[n] \in S
         /\ \A x \in S : \E n \in DOMAIN s : s[n] = x
         /\ \A m, n \in DOMAIN s : s[m] = s[n] => m = n
<1> DEFINE N == Cardinality(S)
<1>1. N \in Nat
  BY FS_CardinalityType
<1>2. ExistsBijection(1 .. N, S)
  BY FS_CardinalityType
<1>3. PICK f \in Bijection(1 .. N, S) : TRUE
  BY <1>2 DEF ExistsBijection
<1>4. \E g \in [1 .. N -> S] : IsInjective(g)
  BY <1>3 DEF Bijection, Injection, IsInjective
<1>5. s \in [1 .. N -> S] /\ IsInjective(s)
  BY <1>4 DEF SetToSeq
<1>6. s \in Injection(1 .. N, S)
  BY <1>5 DEF Injection
<1>7. Cardinality(1 .. N) = N
  BY <1>1, FS_Interval
<1>8. s \in Surjection(1 .. N, S)
  BY <1>6, <1>7, FS_Injection
<1>9. s \in Seq(S) /\ DOMAIN s = 1 .. N /\ \A n \in 1 .. N : s[n] \in S
  BY <1>1, <1>5
<1> QED
  BY <1>5, <1>8, <1>9 DEF Surjection, IsInjective

Leavings(left, m, status) == {Told("member", c, m, status) : c \in left}

Tells(events, left, m, status) ==
    /\ \A n \in DOMAIN events : \E c \in left : events[n] = Told("member", c, m, status)
    /\ \A c \in left : \E n \in DOMAIN events : events[n] = Told("member", c, m, status)
    /\ \A n, k \in DOMAIN events : events[n] = events[k] => n = k

LEMMA OneEachChat ==
  ASSUME NEW left \in SUBSET Chat, NEW m \in Member, NEW status \in {"ACTIVE", "LEFT"},
         NEW events, events = SetToSeq(Leavings(left, m, status))
  PROVE  events \in Seq(EventType) /\ Tells(events, left, m, status)
<1> DEFINE f == [c \in left |-> Told("member", c, m, status)]
           T == Leavings(left, m, status)
<1>0. /\ \A c \in left : Told("member", c, m, status) \in T
      /\ \A x \in T : \E c \in left : x = Told("member", c, m, status)
  BY DEF Leavings
<1> HIDE DEF T
<1>1. IsFiniteSet(left)
  BY FoundersAssumption, FS_Subset
<1>2. f \in Surjection(left, T)
  BY <1>0 DEF Surjection
<1>3. IsFiniteSet(T)
  BY <1>1, <1>2, FS_Surjection
<1>4. T \subseteq EventType
  BY <1>0 DEF EventType, Told
<1> HIDE DEF f
<1>5. /\ events \in Seq(T)
      /\ \A n \in DOMAIN events : events[n] \in T
      /\ \A x \in T : \E n \in DOMAIN events : events[n] = x
      /\ \A n, k \in DOMAIN events : events[n] = events[k] => n = k
  BY <1>3, OneEach DEF T
<1>6. events \in Seq(EventType)
  BY <1>4, <1>5, WiderSeq
<1> QED
  BY <1>0, <1>5, <1>6 DEF Tells

LEMMA FollowMemberStep == IInv /\ FollowMember => IInv'
<1> SUFFICES ASSUME IInv, FollowMember PROVE IInv'
  OBVIOUS
<1> PICK h : h = Head(followed)
  OBVIOUS
<1> PICK m : m = log[h].who
  OBVIOUS
<1> PICK status : status = log[h].status
  OBVIOUS
<1> PICK left : left = IF status = "ACTIVE" THEN {} ELSE {c \in Chat \ Personal : m \in Active(c)}
  OBVIOUS
<1>0. PICK events : events = SetToSeq(Leavings(left, m, status))
  OBVIOUS
<1>1. /\ followed # <<>> /\ log[h].from = "organization" /\ followed' = Tail(followed)
      /\ known' = [known EXCEPT ![m] = status]
      /\ roster' = [c \in Chat |->
                       IF c \in left THEN [roster[c] EXCEPT ![m] = status] ELSE roster[c]]
      /\ Stage(events)
      /\ UNCHANGED <<org, chat, blocks, contacts, hidden, barred, commands, publishing, queue,
                     projections, faults, disordered>>
  BY <1>0 DEF FollowMember, Leavings, book
<1>2. TypeOK /\ TableTypes /\ DOMAIN log = 1 .. Len(log) /\ Len(log) \in Nat
  BY TypeParts, LogTyped DEF IInv
<1>3. h \in DOMAIN log /\ log[h] \in EventType
  BY <1>1, <1>2, Taken, LogTyped DEF TypeOK
<1>4. m \in Member /\ status \in {"ACTIVE", "LEFT"}
  BY <1>1, <1>3 DEF EventType
<1>5. left \in SUBSET Chat /\ \A c \in left : c \notin Personal /\ roster[c][m] = "ACTIVE"
  BY DEF Active
<1>6. /\ events \in Seq(EventType)
      /\ \A n \in DOMAIN events : \E c \in left : events[n] = Told("member", c, m, status)
      /\ \A c \in left : \E n \in DOMAIN events : events[n] = Told("member", c, m, status)
      /\ \A n, k \in DOMAIN events : events[n] = events[k] => n = k
  <2>1. left \in SUBSET Chat
    BY <1>5
  <2>2. events \in Seq(EventType) /\ Tells(events, left, m, status)
    BY <1>0, <1>4, <2>1, OneEachChat
  <2> QED
    BY <2>2 DEF Tells
<1>7. \A c \in left : chat[c] # "none" /\ (c \in Direct => m \in Founders[c])
  BY <1>4, <1>5, FoundersAssumption DEF IInv, RosterInv
<1>8. /\ Grown
      /\ DOMAIN log' = DOMAIN log \union {Len(log) + n : n \in DOMAIN events}
      /\ \A n \in DOMAIN events :
            /\ log'[Len(log) + n] = events[n] /\ Len(log) + n \in Nat
            /\ Len(log) + n \notin DOMAIN log
      /\ pending' = pending \union (DOMAIN log' \ DOMAIN log)
  BY <1>1, <1>2, <1>6, Staged
<1>9. UNCHANGED Arrived /\ UNCHANGED processed
  BY <1>1 DEF projections, Arrived
<1>10. FollowedInv' /\ OnceInv' /\ Followed' = Followed \union {h}
  BY <1>1, <1>8, <1>9, FollowedTaken
<1>11. ProjectionsInv'
  <2>1. Followed' \subseteq DOMAIN log
    BY <1>2, <1>3, <1>10, LogTyped
  <2>2. \A i \in DOMAIN log : log[i].from = "user" => (i \in Followed' <=> i \in Followed)
    BY <1>1, <1>10
  <2> QED
    BY <1>1, <1>8, <2>1, <2>2, ProjectionsKept
<1>12. QueueInv'
  BY <1>1, <1>8, <1>9, QueueKept
<1>13. KeptInv'
  BY <1>1, <1>2, <1>8, <1>9 DEF IInv, KeptInv, publishing, Grown
<1>14. LogInv'
  <2>1. ASSUME NEW n \in DOMAIN events
        PROVE  /\ WellFormed(events[n])
               /\ events[n].from = "conversation" =>
                      events[n] = Creation(events[n].chat) \/ chat[events[n].chat] # "none"
    <3>1. PICK c \in left : events[n] = Told("member", c, m, status)
      BY <1>6
    <3>2. /\ events[n].kind = "member" /\ events[n].who = m /\ events[n].chat = c
          /\ events[n].status = status
      BY <3>1 DEF Told
    <3> QED
      BY <1>4, <1>7, <3>2 DEF WellFormed
  <2> QED
    BY <1>1, <1>6, <2>1, LogContinued
<1>15. RosterInv'
  <2>1. /\ \A c \in Chat : c \notin left => roster'[c] = roster[c]
        /\ \A c \in left : \A n \in Member : n # m => roster'[c][n] = roster[c][n]
    BY <1>1, <1>2, <1>5 DEF TableTypes
  <2>2. Direct \subseteq Chat /\ Personal \subseteq Chat
    BY FoundersAssumption
  <2> QED
    BY <1>1, <1>5, <1>7, <2>1, <2>2 DEF IInv, RosterInv, projections
<1>16. TypeOK'
  <2>1. TableTypes'
    BY <1>1, <1>2, <1>4 DEF TableTypes
  <2>2. ProjectionTypes' /\ OtherTypes'
    BY <1>1, <1>2, <1>8 DEF TypeOK, ProjectionTypes, OtherTypes, projections, Grown
  <2>3. followed' \in Seq(DOMAIN log)
    BY <1>1, <1>2, Taken DEF TypeOK
  <2>4. LogTypes' /\ BatchTypes'
    BY <1>1, <1>2, <1>6, <2>3, StagedTypes
  <2> QED
    BY <2>1, <2>2, <2>4, TypePartsNext
<1>17. ASSUME NEW k \in Keys
       PROVE  Reflects(log, OfKey(DOMAIN log, k), Table(k), AtFirst(k))'
  <2>1. \A i \in DOMAIN log' \ DOMAIN log :
            \E c \in left : log'[i] = Told("member", c, m, status)
    BY <1>6, <1>8
  <2>2. ASSUME NEW i \in DOMAIN log' \ DOMAIN log
        PROVE  /\ log'[i].from = "conversation" /\ log'[i].kind = "member"
               /\ log'[i].who = m /\ log'[i].chat \in left /\ log'[i].status = status
               /\ log'[i] = Told("member", log'[i].chat, m, status)
    BY <2>1 DEF Told
  <2>3. CASE k.of = "place" /\ k.chat \in left /\ k.who = m
    <3>1. PICK n \in DOMAIN events : events[n] = Told("member", k.chat, m, status)
      BY <1>6, <2>3
    <3> DEFINE i == Len(log) + n
    <3>2. i \in DOMAIN log' \ DOMAIN log /\ log'[i] = Told("member", k.chat, m, status)
      BY <1>8, <3>1
    <3>3. ASSUME NEW j \in DOMAIN log' \ DOMAIN log, Concerns(log'[j], k)
          PROVE  j = i
      <4>1. log'[j] = Told("member", k.chat, m, status)
        BY <2>2, <2>3, <3>3 DEF Concerns
      <4>2. PICK l \in DOMAIN events : j = Len(log) + l /\ log'[j] = events[l]
        BY <1>8, <3>3
      <4> QED
        BY <1>6, <3>1, <4>1, <4>2
    <3>4. Concerns(log'[i], k)
      BY <2>3, <3>2 DEF Concerns, Told
    <3>5. Table(k)' = Value(log'[i])
      <4>1. Value(log'[i]) = status
        BY <3>2 DEF Value, Told
      <4>2. roster'[k.chat][m] = status
        BY <1>1, <1>2, <1>4, <1>5, <2>3 DEF TableTypes
      <4> QED
        BY <2>3, <4>1, <4>2, KeyCases
    <3>6. DOMAIN log' \subseteq Nat /\ i \in Nat
      BY <1>2, <1>8
    <3> HIDE DEF i
    <3> QED
      BY <1>8, <3>2, <3>3, <3>4, <3>5, <3>6, TableWritten
  <2>4. CASE ~(k.of = "place" /\ k.chat \in left /\ k.who = m)
    <3>1. \A j \in DOMAIN log' \ DOMAIN log : ~Concerns(log'[j], k)
      BY <1>4, <2>2, <2>4, FoundersAssumption DEF Concerns
    <3>2. Table(k)' = Table(k)
      BY <1>1, <1>2, <2>4, KeyCases DEF TableTypes
    <3> QED
      BY <1>8, <3>1, <3>2, TableUnwritten
  <2> QED
    BY <2>3, <2>4
<1>18. TablesInv'
  BY <1>17 DEF TablesInv, Keys
<1> QED
  BY <1>10, <1>11, <1>12, <1>13, <1>14, <1>15, <1>16, <1>18 DEF IInv

-----------------------------------------------------------------------------
(* The outboxes.                                                           *)

\* What the sending of an event disturbs, whether it arrives or is lost.
Delivered ==
    /\ TablesInv' /\ ProjectionsInv' /\ QueueInv' /\ FollowedInv' /\ OnceInv'
    /\ LogInv' /\ RosterInv'
    /\ TableTypes' /\ ProjectionTypes'
    /\ queue' \in Seq(DOMAIN log) /\ followed' \in Seq(DOMAIN log) /\ disordered' \in BOOLEAN
    /\ Arrived \subseteq Arrived'

LEMMA Resting ==
  ASSUME IInv, UNCHANGED <<tables, followed, log, queue, projections, disordered>>
  PROVE  Delivered
<1>0. /\ UNCHANGED <<org, chat, roster, blocks, contacts, hidden, known, barred, log>>
      /\ UNCHANGED <<processed, pOrg, pChat, pRoster, pBlocks, queue, followed, disordered>>
  BY DEF tables, book, projections
<1>1. TablesInv' /\ LogInv' /\ Grown /\ RosterInv'
  BY <1>0, BooksKept
<1>2. UNCHANGED Arrived /\ TypeOK
  BY <1>0 DEF Arrived, IInv
<1>3. FollowedInv' /\ UNCHANGED Followed /\ QueueInv'
  BY <1>0, <1>1, <1>2, FollowedKept, QueueKept
<1>4. ProjectionsInv'
  <2>1. Followed' \subseteq DOMAIN log
    BY <1>2, <1>3, LogTyped
  <2> QED
    BY <1>0, <1>1, <1>3, <2>1, ProjectionsKept
<1>5. OnceInv'
  BY <1>0, <1>2 DEF IInv, OnceInv
<1>6. TableTypes' /\ ProjectionTypes'
  BY <1>0, <1>2 DEF TypeOK, TableTypes, ProjectionTypes
<1> QED
  BY <1>0, <1>1, <1>2, <1>3, <1>4, <1>5, <1>6 DEF Delivered, TypeOK

LEMMA Arriving ==
  ASSUME IInv, NEW i \in DOMAIN log, Arrive(i), UNCHANGED <<tables, log, projections>>
  PROVE  Delivered /\ Arrived' = Arrived \union {i}
<1>0. /\ UNCHANGED <<org, chat, roster, blocks, contacts, hidden, known, barred, log>>
      /\ UNCHANGED <<processed, pOrg, pChat, pRoster, pBlocks>>
      /\ UNCHANGED projections
  BY DEF tables, book, projections
<1>1. TablesInv' /\ LogInv' /\ Grown /\ RosterInv' /\ TypeOK
  BY <1>0, BooksKept DEF IInv
<1>2. /\ QueueInv' /\ queue' \in Seq(DOMAIN log)
      /\ Arrived' = Arrived \union {i}
      /\ ~disordered' => ~disordered
  BY <1>0, ArrivedInOrder
<1>3. /\ FollowedInv' /\ OnceInv' /\ followed' \in Seq(DOMAIN log)
      /\ Followed' \subseteq DOMAIN log
      /\ \A j \in DOMAIN log : log[j].from = "user" => (j \in Followed' <=> j \in Followed)
  BY <1>0, ArrivedFollowed
<1>4. ProjectionsInv'
  BY <1>0, <1>1, <1>2, <1>3, ProjectionsKept
<1>5. TableTypes' /\ ProjectionTypes'
  BY <1>0, <1>1 DEF TypeOK, TableTypes, ProjectionTypes
<1>6. disordered' \in BOOLEAN
  BY <1>1 DEF Arrive, TypeOK
<1> QED
  BY <1>1, <1>2, <1>3, <1>4, <1>5, <1>6 DEF Delivered

\* Where nothing is staged, what is left is the outboxes' own state.
LEMMA Sent ==
  ASSUME IInv, Delivered, UNCHANGED <<log, commands, barred>>, faults' \in 0..MaxFaults,
         KeptInv', BatchTypes', pending' \subseteq pending, late' \subseteq Rows("organization")'
  PROVE  IInv'
<1>1. TypeOK
  BY DEF IInv
<1>2. LogTypes'
  BY <1>1 DEF LogTypes, TypeOK, Delivered
<1>3. OtherTypes'
  BY <1>1 DEF OtherTypes, TypeOK, Delivered
<1>4. TypeOK'
  BY <1>2, <1>3, TypePartsNext DEF Delivered
<1> QED
  BY <1>4 DEF IInv, Delivered

LEMMA Faulted ==
  ASSUME IInv, Fault
  PROVE  faults' \in 0..MaxFaults
BY FoundersAssumption DEF IInv, TypeOK, Fault

LEMMA ToSendTyped ==
  ASSUME TypeOK, NEW p \in Batching
  PROVE  /\ ToSend(p) \subseteq Rows(p) /\ Rows(p) \subseteq DOMAIN log
         /\ DOMAIN log \subseteq Nat /\ Rows(p) \subseteq pending
BY LogTyped DEF TypeOK, ToSend, Rows

LEMMA SendStep ==
  ASSUME IInv, NEW p \in Batching, Send(p)
  PROVE  IInv'
<1>1. PICK i \in First(p) :
          /\ open' = [open EXCEPT ![p] = [rows |-> ToSend(p) \ {i}, sent |-> @.sent \union {i}]]
          /\ Arrive(i)
  BY DEF Send
<1>2. /\ UNCHANGED <<tables, log, projections>> /\ UNCHANGED <<pending, commands, late, faults>>
      /\ UNCHANGED barred
  BY DEF Send, outbox, tables
<1>3. TypeOK /\ i \in ToSend(p) /\ i \in Rows(p) /\ i \in DOMAIN log /\ i \in Nat
  BY ToSendTyped DEF IInv, First
<1>4. Delivered /\ Arrived' = Arrived \union {i}
  BY <1>1, <1>2, <1>3, Arriving
<1>5. /\ open' \in [Batching -> [rows : SUBSET Nat, sent : SUBSET Nat]]
      /\ \A q \in Batching : q # p => open'[q] = open[q]
      /\ open'[p].rows = ToSend(p) \ {i} /\ open'[p].sent = open[p].sent \union {i}
  <2>1. ToSend(p) \ {i} \in SUBSET Nat
    BY <1>3, ToSendTyped
  <2> QED
    BY <1>1, <1>3, <2>1 DEF TypeOK
<1>6. BatchTypes'
  <2>1. \A q \in Batching : Rows(q)' = Rows(q)
    BY <1>2 DEF Rows
  <2>2. ToSend(p) \subseteq Rows(p)
    BY <1>3, ToSendTyped
  <2>3. open'[p].rows \union open'[p].sent \subseteq Rows(p)
    BY <1>3, <1>5, <2>2 DEF TypeOK
  <2>4. \A q \in Batching : open'[q].rows \union open'[q].sent \subseteq Rows(q)
    BY <1>3, <1>5, <2>3 DEF TypeOK
  <2> QED
    BY <1>5, <2>1, <2>4 DEF BatchTypes
<1>7. KeptInv'
  BY <1>2, <1>3, <1>4, <1>5 DEF IInv, KeptInv
<1>8. faults' \in 0..MaxFaults /\ late' \subseteq Rows("organization")'
  BY <1>2, <1>3 DEF TypeOK, Rows
<1> QED
  BY <1>2, <1>4, <1>6, <1>7, <1>8, Sent

LEMMA FailSendStep ==
  ASSUME IInv, NEW p \in Batching, FailSend(p)
  PROVE  IInv'
<1>1. PICK i \in First(p) :
          /\ open' = [open EXCEPT ![p].rows = ToSend(p) \ {i}]
          /\ Arrive(i) \/ UNCHANGED <<queue, followed, disordered>>
  BY DEF FailSend
<1>2. /\ UNCHANGED <<tables, log, projections>> /\ UNCHANGED <<pending, commands, late>>
      /\ UNCHANGED barred /\ Fault
  BY DEF FailSend, outbox, tables
<1>3. TypeOK /\ i \in ToSend(p) /\ i \in Rows(p) /\ i \in DOMAIN log /\ i \in Nat
  BY ToSendTyped DEF IInv, First
<1>4. Delivered
  <2>1. CASE Arrive(i)
    BY <1>2, <1>3, <2>1, Arriving
  <2>2. CASE UNCHANGED <<queue, followed, disordered>>
    BY <1>2, <2>2, Resting
  <2> QED
    BY <1>1, <2>1, <2>2
<1>5. /\ open' \in [Batching -> [rows : SUBSET Nat, sent : SUBSET Nat]]
      /\ \A q \in Batching : q # p => open'[q] = open[q]
      /\ open'[p].rows = ToSend(p) \ {i} /\ open'[p].sent = open[p].sent
  <2>1. ToSend(p) \ {i} \in SUBSET Nat
    BY <1>3, ToSendTyped
  <2>2. open[p] \in [rows : SUBSET Nat, sent : SUBSET Nat]
    BY <1>3 DEF TypeOK
  <2>3. open' = [open EXCEPT ![p] = [open[p] EXCEPT !.rows = ToSend(p) \ {i}]]
    BY <1>1
  <2>4. [open[p] EXCEPT !.rows = ToSend(p) \ {i}] =
           [rows |-> ToSend(p) \ {i}, sent |-> open[p].sent]
    BY <2>2
  <2> QED
    BY <1>3, <2>1, <2>2, <2>3, <2>4 DEF TypeOK
<1>6. BatchTypes'
  <2>1. \A q \in Batching : Rows(q)' = Rows(q)
    BY <1>2 DEF Rows
  <2>2. ToSend(p) \subseteq Rows(p)
    BY <1>3, ToSendTyped
  <2>3. open'[p].rows \union open'[p].sent \subseteq Rows(p)
    BY <1>3, <1>5, <2>2 DEF TypeOK
  <2>4. \A q \in Batching : open'[q].rows \union open'[q].sent \subseteq Rows(q)
    BY <1>3, <1>5, <2>3 DEF TypeOK
  <2> QED
    BY <1>5, <2>1, <2>4 DEF BatchTypes
<1>7. KeptInv'
  <2>1. Arrived \subseteq Arrived' /\ Arrived' \subseteq DOMAIN log
    <3>1. Range(queue)' \subseteq DOMAIN log /\ processed' \subseteq DOMAIN log'
      BY <1>4 DEF Delivered, ProjectionTypes, Range
    <3> QED
      BY <1>2, <1>4, <3>1 DEF Delivered, Arrived
  <2>2. \A q \in Batching : open'[q].sent = open[q].sent
    BY <1>5
  <2> QED
    BY <1>2, <2>1, <2>2 DEF IInv, KeptInv
<1>8. faults' \in 0..MaxFaults /\ late' \subseteq Rows("organization")'
  BY <1>2, <1>3, Faulted DEF TypeOK, Rows
<1> QED
  BY <1>2, <1>4, <1>6, <1>7, <1>8, Sent

LEMMA CommitBatchStep ==
  ASSUME IInv, NEW p \in Batching, CommitBatch(p)
  PROVE  IInv'
<1>1. /\ pending' = pending \ open[p].sent /\ open' = [open EXCEPT ![p] = Idle]
      /\ UNCHANGED <<tables, followed, log, queue, projections, disordered>>
      /\ UNCHANGED <<barred, commands, late, faults, processed>>
  BY DEF CommitBatch, tables, projections
<1>2. TypeOK
  BY DEF IInv
<1>3. Delivered /\ UNCHANGED Arrived
  BY <1>1, Resting DEF Arrived
<1>4. /\ open' \in [Batching -> [rows : SUBSET Nat, sent : SUBSET Nat]]
      /\ \A q \in Batching : q # p => open'[q] = open[q]
      /\ open'[p].rows = {} /\ open'[p].sent = {}
  BY <1>1, <1>2 DEF TypeOK, Idle
<1>5. \A i \in open[p].sent : log[i].from = p
  BY <1>2 DEF TypeOK, Rows
<1>6. BatchTypes'
  <2>1. \A q \in Batching : q # p => Rows(q)' = Rows(q)
    BY <1>1, <1>5 DEF Rows
  <2>2. ASSUME NEW q \in Batching
        PROVE  open'[q].rows \union open'[q].sent \subseteq Rows(q)'
    <3>1. CASE q = p
      BY <1>4, <3>1
    <3>2. CASE q # p
      <4>1. open'[q] = open[q] /\ Rows(q)' = Rows(q)
        BY <1>4, <2>1, <3>2
      <4>2. open[q].rows \union open[q].sent \subseteq Rows(q)
        BY <1>2 DEF TypeOK
      <4> QED
        BY <4>1, <4>2
    <3> QED
      BY <3>1, <3>2
  <2> QED
    BY <1>4, <2>2 DEF BatchTypes
<1>7. KeptInv'
  BY <1>1, <1>3, <1>4 DEF IInv, KeptInv
<1>8. late' \subseteq Rows("organization")' /\ faults' \in 0..MaxFaults
  BY <1>1, <1>2, <1>5 DEF TypeOK, Rows, Batching
<1> QED
  BY <1>1, <1>3, <1>6, <1>7, <1>8, Sent

LEMMA CrashBatchStep ==
  ASSUME IInv, NEW p \in Batching, CrashBatch(p)
  PROVE  IInv'
<1>1. /\ open' = [open EXCEPT ![p] = Idle] /\ Fault
      /\ UNCHANGED <<tables, followed, log, queue, projections, disordered>>
      /\ UNCHANGED <<barred, commands, pending, late, processed>>
  BY DEF CrashBatch, tables, projections, outbox
<1>2. TypeOK
  BY DEF IInv
<1>3. Delivered /\ UNCHANGED Arrived
  BY <1>1, Resting DEF Arrived
<1>4. /\ open' \in [Batching -> [rows : SUBSET Nat, sent : SUBSET Nat]]
      /\ \A q \in Batching : q # p => open'[q] = open[q]
      /\ open'[p].rows = {} /\ open'[p].sent = {}
  BY <1>1, <1>2 DEF TypeOK, Idle
<1>5. BatchTypes'
  BY <1>1, <1>2, <1>4 DEF BatchTypes, TypeOK, Rows
<1>6. KeptInv'
  BY <1>1, <1>3, <1>4 DEF IInv, KeptInv
<1>7. late' \subseteq Rows("organization")' /\ faults' \in 0..MaxFaults
  BY <1>1, <1>2, Faulted DEF TypeOK, Rows
<1> QED
  BY <1>1, <1>3, <1>5, <1>6, <1>7, Sent

LEMMA PublishOneStep == IInv /\ PublishOne => IInv'
<1> SUFFICES ASSUME IInv, PublishOne PROVE IInv'
  OBVIOUS
<1>1. PICK i \in Rows("organization") :
          Arrive(i) /\ pending' = pending \ {i} /\ late' = late \ {i}
  BY DEF PublishOne
<1>2. /\ UNCHANGED <<tables, log, projections>> /\ UNCHANGED <<commands, open, faults>>
      /\ UNCHANGED barred
  BY DEF PublishOne, tables
<1>3. TypeOK /\ i \in DOMAIN log /\ log[i].from = "organization"
  BY DEF IInv, TypeOK, Rows
<1>4. Delivered /\ Arrived' = Arrived \union {i}
  BY <1>1, <1>2, <1>3, Arriving
<1>5. BatchTypes'
  <2>1. \A q \in Batching : Rows(q)' = Rows(q)
    BY <1>1, <1>2, <1>3 DEF Rows, Batching
  <2> QED
    BY <1>2, <1>3, <2>1 DEF BatchTypes, TypeOK
<1>6. KeptInv'
  BY <1>1, <1>2, <1>3, <1>4 DEF IInv, KeptInv
<1>7. faults' \in 0..MaxFaults /\ late' \subseteq Rows("organization")'
  BY <1>1, <1>2, <1>3 DEF TypeOK, Rows
<1> QED
  BY <1>1, <1>2, <1>4, <1>5, <1>6, <1>7, Sent

LEMMA RetryOneStep == IInv /\ RetryOne => IInv'
<1> SUFFICES ASSUME IInv, RetryOne PROVE IInv'
  OBVIOUS
<1>1. PICK i \in Rows("organization") :
          /\ Arrive(i) \/ UNCHANGED <<queue, followed, disordered>>
          /\ late' = late \union {i}
  BY DEF RetryOne
<1>2. /\ UNCHANGED <<tables, log, projections>> /\ UNCHANGED <<pending, commands, open>>
      /\ UNCHANGED barred /\ Fault
  BY DEF RetryOne, tables, outbox
<1>3. TypeOK /\ i \in DOMAIN log /\ log[i].from = "organization"
  BY DEF IInv, TypeOK, Rows
<1>4. Delivered
  <2>1. CASE Arrive(i)
    BY <1>2, <1>3, <2>1, Arriving
  <2>2. CASE UNCHANGED <<queue, followed, disordered>>
    BY <1>2, <2>2, Resting
  <2> QED
    BY <1>1, <2>1, <2>2
<1>5. BatchTypes'
  BY <1>2, <1>3 DEF BatchTypes, TypeOK, Rows
<1>6. KeptInv'
  <2>1. Arrived \subseteq Arrived' /\ Arrived' \subseteq DOMAIN log
    <3>1. Range(queue)' \subseteq DOMAIN log /\ processed' \subseteq DOMAIN log'
      BY <1>4 DEF Delivered, ProjectionTypes, Range
    <3> QED
      BY <1>2, <1>4, <3>1 DEF Delivered, Arrived
  <2> QED
    BY <1>2, <2>1 DEF IInv, KeptInv
<1>7. faults' \in 0..MaxFaults /\ late' \subseteq Rows("organization")'
  BY <1>1, <1>2, <1>3, Faulted DEF TypeOK, Rows
<1> QED
  BY <1>2, <1>4, <1>5, <1>6, <1>7, Sent

-----------------------------------------------------------------------------
(* The consumer.                                                           *)

LEMMA RequeueStep == IInv /\ Requeue => IInv'
<1> SUFFICES ASSUME IInv, Requeue PROVE IInv'
  OBVIOUS
<1>1. /\ queue # <<>> /\ queue' = Append(Tail(queue), Head(queue))
      /\ disordered' = \/ disordered
                       \/ Head(queue) \notin processed /\ Overtaken(Head(queue), Tail(queue))
      /\ UNCHANGED <<tables, followed, log, pending, commands, late, open, projections>>
      /\ UNCHANGED <<processed, barred, org, chat, roster, blocks, pRoster>>
      /\ UNCHANGED faults \/ Fault
  BY DEF Requeue, outbox, publishing, projections, tables
<1>2. TypeOK
  BY DEF IInv
<1>3. TablesInv' /\ LogInv' /\ Grown /\ RosterInv'
  BY <1>1, BooksKept
<1>4. QueueInv' /\ UNCHANGED Arrived
  BY <1>1, RequeuedInOrder
<1>5. ~disordered' => ~disordered
  BY <1>1
<1>6. UNCHANGED Followed /\ FollowedInv' /\ OnceInv'
  <2>1. UNCHANGED Followed
    BY <1>1, <1>4 DEF Followed
  <2>2. \A i, j : Before(i, j)' <=> Before(i, j)
    BY <1>1 DEF Before
  <2>3. FollowedInv'
    BY <1>1, <1>5, <2>1, <2>2 DEF IInv, FollowedInv
  <2> QED
    BY <1>1, <1>4, <2>1, <2>3 DEF IInv, OnceInv
<1>7. ProjectionsInv'
  <2>1. Followed' \subseteq DOMAIN log
    BY <1>2, <1>6, LogTyped
  <2> QED
    BY <1>1, <1>3, <1>5, <1>6, <2>1, ProjectionsKept
<1>8. KeptInv' /\ BatchTypes'
  BY <1>1, <1>2, <1>4 DEF IInv, KeptInv, TypeOK, BatchTypes, Rows
<1>9. TableTypes' /\ ProjectionTypes'
  BY <1>1, <1>2 DEF TypeOK, TableTypes, ProjectionTypes, tables, book, projections
<1>10. LogTypes'
  <2>1. Tail(queue) \in Seq(DOMAIN log) /\ Head(queue) \in DOMAIN log
    BY <1>1, <1>2, Taken DEF TypeOK
  <2>2. queue' \in Seq(DOMAIN log)
    BY <1>1, <2>1, Queued
  <2> QED
    BY <1>1, <1>2, <2>2 DEF TypeOK, LogTypes, Rows
<1>11. OtherTypes'
  <2>1. disordered' \in BOOLEAN
    BY <1>1, <1>2 DEF TypeOK, Overtaken
  <2> QED
    BY <1>1, <1>2, <2>1, FoundersAssumption DEF TypeOK, OtherTypes, Fault
<1>12. TypeOK'
  BY <1>8, <1>9, <1>10, <1>11, TypePartsNext
<1> QED
  BY <1>3, <1>4, <1>6, <1>7, <1>8, <1>12 DEF IInv

\* What messaging-service makes of an event of a conversation.
ChatOutcome(e) ==
    /\ e.kind \in {"created", "closed", "deleted", "member"} /\ e.chat \in Chat
    /\ e.kind = "created" =>
          /\ pChat' = [pChat EXCEPT ![e.chat] = "ACTIVE"]
          /\ pRoster' = [pRoster EXCEPT ![e.chat] = [m \in Member |->
                             IF m \in Founders[e.chat] THEN "ACTIVE" ELSE None]]
    /\ e.kind = "closed" =>
          /\ pChat[e.chat] # "none" => pChat' = [pChat EXCEPT ![e.chat] = "CLOSED"]
          /\ pChat[e.chat] = "none" => pChat' = pChat
    /\ e.kind = "member" =>
          /\ pRoster[e.chat][e.who] # None =>
                 pRoster' = [pRoster EXCEPT ![e.chat][e.who] = e.status]
          /\ pRoster[e.chat][e.who] = None => pRoster' = pRoster
    /\ e.kind \in {"member", "deleted"} => pChat' = pChat
    /\ e.kind \in {"closed", "deleted"} => pRoster' = pRoster
    /\ UNCHANGED <<pOrg, pBlocks>>

LEMMA ChatProjected ==
  ASSUME NEW e \in EventType, e.from = "conversation", ProjectChat(e)
  PROVE  ChatOutcome(e)
<1>1. e.kind \in {"created", "closed", "deleted", "member"} /\ e.chat \in Chat
  BY DEF EventType
<1>2. CASE e.kind = "created"
  BY <1>1, <1>2 DEF ProjectChat, ChatOutcome
<1>3. CASE e.kind = "closed"
  BY <1>1, <1>3 DEF ProjectChat, ChatOutcome
<1>4. CASE e.kind = "deleted"
  BY <1>1, <1>4 DEF ProjectChat, ChatOutcome
<1>5. CASE e.kind = "member"
  BY <1>1, <1>5 DEF ProjectChat, ChatOutcome
<1> QED
  BY <1>1, <1>2, <1>3, <1>4, <1>5

\* apply_projection, by the service an event is from.
ProjectEvent(e) ==
    /\ e.from = "conversation" => ProjectChat(e)
    /\ e.from = "organization" => ProjectMember(e)
    /\ e.from = "user" => ProjectBlock(e)

LEMMA ProjectedTypes ==
  ASSUME IInv, NEW e \in EventType, WellFormed(e), ProjectEvent(e)
  PROVE  /\ pOrg' \in [Member -> {None, "ACTIVE", "LEFT"}]
         /\ pChat' \in [Chat -> {"none", "ACTIVE", "CLOSED"}]
         /\ pRoster' \in [Chat -> [Member -> {None, "ACTIVE", "LEFT"}]]
         /\ pBlocks' \subseteq Member \X Member
         /\ \A c \in Direct : \A m \in Member \ Founders[c] : pRoster'[c][m] = None
<1>0. /\ ProjectionTypes /\ Direct \subseteq Chat
      /\ \A c \in Direct : \A m \in Member \ Founders[c] : pRoster[c][m] = None
  BY TypeParts, FoundersAssumption DEF IInv, RosterInv
<1>1. CASE e.from = "conversation"
  <2>1. ChatOutcome(e)
    BY <1>1, ChatProjected DEF ProjectEvent
  <2>2. CASE e.kind = "created"
    <3> DEFINE place == [m \in Member |-> IF m \in Founders[e.chat] THEN "ACTIVE" ELSE None]
    <3>1. /\ pChat' = [pChat EXCEPT ![e.chat] = "ACTIVE"] /\ e.chat \in Chat
          /\ pRoster' = [pRoster EXCEPT ![e.chat] = place]
          /\ UNCHANGED <<pOrg, pBlocks>>
      BY <2>1, <2>2 DEF ChatOutcome
    <3>2. /\ place \in [Member -> {None, "ACTIVE", "LEFT"}]
          /\ \A m \in Member \ Founders[e.chat] : place[m] = None
      OBVIOUS
    <3> HIDE DEF place
    <3> QED
      BY <1>0, <3>1, <3>2 DEF ProjectionTypes
  <2>3. CASE e.kind = "closed"
    BY <1>0, <1>1, <2>1, <2>3 DEF ProjectionTypes, ChatOutcome
  <2>4. CASE e.kind = "deleted"
    BY <1>0, <1>1, <2>1, <2>4 DEF ProjectionTypes, ChatOutcome
  <2>5. CASE e.kind = "member"
    <3>1. e.who \in Member /\ e.status \in {"ACTIVE", "LEFT"} /\ e.chat \in Chat
      BY <1>1, <2>1, <2>5 DEF WellFormed, ChatOutcome
    <3>2. CASE pRoster[e.chat][e.who] = None
      BY <1>0, <1>1, <2>1, <2>5, <3>2 DEF ProjectionTypes, ChatOutcome
    <3>3. CASE pRoster[e.chat][e.who] # None
      <4>1. /\ pRoster' = [pRoster EXCEPT ![e.chat][e.who] = e.status]
            /\ UNCHANGED <<pChat, pOrg, pBlocks>>
        BY <1>1, <2>1, <2>5, <3>3 DEF ChatOutcome
      <4>2. ~(e.chat \in Direct /\ e.who \notin Founders[e.chat])
        BY <1>0, <3>1, <3>3
      <4> QED
        BY <1>0, <3>1, <4>1, <4>2 DEF ProjectionTypes
    <3> QED
      BY <3>2, <3>3
  <2> QED
    BY <1>1, <2>1, <2>2, <2>3, <2>4, <2>5 DEF ChatOutcome
<1>2. CASE e.from = "organization"
  <2>1. e.who \in Member /\ e.status \in {"ACTIVE", "LEFT"}
    BY <1>2 DEF EventType
  <2> QED
    BY <1>0, <1>2, <2>1 DEF ProjectEvent, ProjectMember, ProjectionTypes
<1>3. CASE e.from = "user"
  <2>1. e.pair \in Member \X Member
    BY <1>3 DEF EventType
  <2> QED
    BY <1>0, <1>3, <2>1 DEF ProjectEvent, ProjectBlock, WithBlock, ProjectionTypes
<1>4. e.from \in {"conversation", "organization", "user"}
  BY DEF EventType
<1> QED
  BY <1>1, <1>2, <1>3, <1>4

\* Of a chat the consumer hears first that it was created.
LEMMA HeardCreation ==
  ASSUME IInv, ~disordered, queue # <<>>, NEW h, h = Head(queue), h \notin processed,
         log[h].from = "conversation", log[h].kind # "created"
  PROVE  \E j \in processed : log[j] = Creation(log[h].chat)
<1>0. TypeOK /\ h \in DOMAIN log /\ DOMAIN log = 1 .. Len(log) /\ Len(log) \in Nat
  BY LogTyped, Taken DEF IInv, TypeOK
<1>1. PICK j \in 1 .. h : log[j] = Creation(log[h].chat)
  BY <1>0 DEF IInv, LogInv
<1>2. log[j].from = "conversation" /\ log[j].kind = "created"
  BY <1>1 DEF Creation, Told
<1>3. j # h /\ j < h /\ j \in DOMAIN log
  BY <1>0, <1>1, <1>2
<1>4. Before(j, h)
  BY <1>2, <1>3 DEF Before
<1> QED
  BY <1>1, <1>3, <1>4, HeadIsNext

LEMMA KnownOnceCreated ==
  ASSUME IInv, ~disordered, NEW c \in Chat, NEW j \in processed, log[j] = Creation(c)
  PROVE  pChat[c] # "none" /\ \A m \in Member : m \in Founders[c] => pRoster[c][m] # None
<1>0. /\ log[j].from = "conversation" /\ log[j].kind = "created" /\ log[j].chat = c
      /\ log[j].who = None
  BY DEF Creation, Told
<1>1. \A i \in processed : log[i] \in EventType /\ WellFormed(log[i])
  BY LogTyped DEF IInv, LogInv
<1>2. pChat[c] # "none"
  <2> DEFINE k == [of |-> "chat", chat |-> c]
  <2>1. k \in Keys /\ k.of = "chat" /\ k.chat = c
    BY DEF Keys
  <2>2. Projection(k) = pChat[c] /\ j \in ToldOf(processed, k)
    BY <1>0, <2>1 DEF Projection, ToldOf, Concerns, Telling
  <2> HIDE DEF k
  <2>3. PICK i \in ToldOf(processed, k) : pChat[c] = Value(log[i])
    BY <2>1, <2>2 DEF IInv, ProjectionsInv, Reflects
  <2>4. i \in processed /\ log[i].from = "conversation" /\ log[i].kind \in {"created", "closed"}
    BY <1>1, <2>1, <2>3 DEF ToldOf, Concerns, Telling, EventType
  <2> QED
    BY <1>1, <2>3, <2>4 DEF WellFormed, Value
<1>3. ASSUME NEW m \in Member, m \in Founders[c]
      PROVE  pRoster[c][m] # None
  <2> DEFINE k == [of |-> "place", chat |-> c, who |-> m]
  <2>1. k \in Keys /\ k.of = "place" /\ k.chat = c /\ k.who = m
    BY <1>3 DEF Keys
  <2>2. Projection(k) = pRoster[c][m] /\ j \in ToldOf(processed, k)
    BY <1>0, <2>1 DEF Projection, ToldOf, Concerns, Telling
  <2> HIDE DEF k
  <2>3. PICK i \in ToldOf(processed, k) : pRoster[c][m] = Value(log[i])
    BY <2>1, <2>2 DEF IInv, ProjectionsInv, Reflects
  <2>4. i \in processed /\ log[i].from = "conversation" /\ log[i].kind \in {"created", "member"}
    BY <2>1, <2>3 DEF ToldOf, Concerns
  <2>5. Value(log[i]) \in {"ACTIVE", "LEFT"}
    BY <1>1, <2>4 DEF WellFormed, Value
  <2> QED
    BY <2>3, <2>5, FoundersAssumption
<1> QED
  BY <1>2, <1>3

LEMMA KeyProjections ==
  ASSUME NEW k \in Keys
  PROVE  \/ /\ k.of = "member" /\ k.who \in Member
            /\ Projection(k) = pOrg[k.who] /\ Projection(k)' = pOrg'[k.who]
         \/ /\ k.of = "chat" /\ k.chat \in Chat
            /\ Projection(k) = pChat[k.chat] /\ Projection(k)' = pChat'[k.chat]
         \/ /\ k.of = "place" /\ k.chat \in Chat /\ k.who \in Member /\ k.who \in Founders[k.chat]
            /\ Projection(k) = pRoster[k.chat][k.who] /\ Projection(k)' = pRoster'[k.chat][k.who]
         \/ /\ k.of = "pair" /\ k.pair \in Member \X Member
            /\ Projection(k) = Blocking(pBlocks, k.pair)
            /\ Projection(k)' = Blocking(pBlocks', k.pair)
BY DEF Keys, Projection, Blocking

\* What messaging-service knows of a key is what the event says if it is about the key.
LEMMA ProjectionWritten ==
  ASSUME IInv, ~disordered, queue # <<>>, NEW h, h = Head(queue), h \notin processed,
         ProjectEvent(log[h]), NEW k \in Keys
  PROVE  /\ Concerns(log[h], k) /\ Telling(log[h]) => Projection(k)' = Value(log[h])
         /\ ~(Concerns(log[h], k) /\ Telling(log[h])) => Projection(k)' = Projection(k)
<1>1. /\ TypeOK /\ ProjectionTypes /\ h \in DOMAIN log
      /\ log[h] \in EventType /\ WellFormed(log[h])
  BY TypeParts, LogTyped, Taken DEF IInv, TypeOK, LogInv
<1> DEFINE e == log[h]
<1>2. CASE e.from = "organization"
  <2>1. pOrg' = [pOrg EXCEPT ![e.who] = e.status] /\ UNCHANGED <<pChat, pRoster, pBlocks>>
    BY <1>2 DEF ProjectEvent, ProjectMember
  <2> HIDE DEF e
  <2>2. CASE k.of = "member"
    BY <1>1, <1>2, <2>1, <2>2, KeyProjections DEF ProjectionTypes, Concerns, Telling, Value, e
  <2>3. CASE k.of \in {"chat", "place", "pair"}
    BY <1>2, <2>1, <2>3, KeyProjections DEF Concerns, e
  <2> QED
    BY <2>2, <2>3, KeyProjections
<1>3. CASE e.from = "user"
  <2>1. pBlocks' = WithBlock(pBlocks, e) /\ UNCHANGED <<pOrg, pChat, pRoster>>
    BY <1>3 DEF ProjectEvent, ProjectBlock
  <2>2. e.kind \in {"blocked", "unblocked"}
    BY <1>1, <1>3 DEF EventType
  <2> HIDE DEF e
  <2>3. CASE k.of = "pair"
    BY <1>3, <2>1, <2>2, <2>3, KeyProjections DEF WithBlock, Blocking, Concerns, Telling, Value, e
  <2>4. CASE k.of \in {"chat", "place", "member"}
    BY <1>3, <2>1, <2>4, KeyProjections DEF Concerns, e
  <2> QED
    BY <2>3, <2>4, KeyProjections
<1>4. CASE e.from = "conversation"
  <2>1. ChatOutcome(e)
    BY <1>1, <1>4, ChatProjected DEF ProjectEvent
  <2>2. /\ e.kind = "closed" => pChat[e.chat] # "none"
        /\ e.kind = "member" =>
               \A m \in Member : m \in Founders[e.chat] => pRoster[e.chat][m] # None
    <3>1. CASE e.kind = "created"
      BY <3>1
    <3>2. CASE e.kind # "created"
      <4>1. PICK j \in processed : log[j] = Creation(e.chat)
        BY <1>4, <3>2, HeardCreation
      <4>2. e.chat \in Chat
        BY <2>1 DEF ChatOutcome
      <4> QED
        BY <4>1, <4>2, KnownOnceCreated
    <3> QED
      BY <3>1, <3>2
  <2> HIDE DEF e
  <2>3. WellFormed(e) /\ e.kind \in {"created", "closed", "deleted", "member"}
    BY <1>1, <2>1 DEF e, ChatOutcome
  <2>4. CASE k.of \in {"member", "pair"}
    BY <1>4, <2>1, <2>4, KeyProjections DEF Concerns, ChatOutcome, e
  <2>5. CASE k.of = "chat"
    <3>1. /\ k.chat \in Chat /\ Projection(k) = pChat[k.chat] /\ Projection(k)' = pChat'[k.chat]
          /\ Concerns(e, k) <=> e.chat = k.chat /\ e.kind # "member"
          /\ Telling(e) <=> e.kind # "deleted"
      BY <1>4, <2>5, KeyProjections DEF Concerns, Telling
    <3>2. Value(e) = e.status
      BY <1>4 DEF Value
    <3>3. CASE e.kind = "created"
      BY <1>1, <1>4, <2>1, <2>3, <3>1, <3>2, <3>3 DEF ProjectionTypes, ChatOutcome, WellFormed, e
    <3>4. CASE e.kind = "closed"
      BY <1>1, <1>4, <2>1, <2>2, <2>3, <3>1, <3>2, <3>4
         DEF ProjectionTypes, ChatOutcome, WellFormed, e
    <3>5. CASE e.kind \in {"deleted", "member"}
      BY <2>1, <3>1, <3>5 DEF ChatOutcome, e
    <3> QED
      BY <2>3, <3>3, <3>4, <3>5
  <2>6. CASE k.of = "place"
    <3>1. /\ k.chat \in Chat /\ k.who \in Member /\ k.who \in Founders[k.chat]
          /\ Projection(k) = pRoster[k.chat][k.who] /\ Projection(k)' = pRoster'[k.chat][k.who]
          /\ Concerns(e, k) <=>
                 e.chat = k.chat /\ e.kind \in {"created", "member"} /\ e.who \in {None, k.who}
          /\ Telling(e) <=> e.kind # "deleted"
      BY <1>4, <2>6, KeyProjections DEF Concerns, Telling
    <3>2. Value(e) = e.status
      BY <1>4 DEF Value
    <3>3. CASE e.kind = "created"
      BY <1>1, <1>4, <2>1, <2>3, <3>1, <3>2, <3>3 DEF ProjectionTypes, ChatOutcome, WellFormed, e
    <3>4. CASE e.kind = "member"
      <4>1. e.who \in Member /\ None \notin Member
        BY <1>4, <2>3, <3>4, FoundersAssumption DEF WellFormed
      <4>2. CASE e.chat = k.chat /\ e.who = k.who
        BY <1>1, <2>1, <2>2, <3>1, <3>2, <3>4, <4>1, <4>2 DEF ProjectionTypes, ChatOutcome, e
      <4>3. CASE ~(e.chat = k.chat /\ e.who = k.who)
        BY <1>1, <2>1, <3>1, <3>4, <4>1, <4>3 DEF ProjectionTypes, ChatOutcome, e
      <4> QED
        BY <4>2, <4>3
    <3>5. CASE e.kind \in {"deleted", "closed"}
      BY <2>1, <3>1, <3>5 DEF ChatOutcome, e
    <3> QED
      BY <2>3, <3>3, <3>4, <3>5
  <2> QED
    BY <2>4, <2>5, <2>6, KeyProjections
<1>5. e.from \in {"conversation", "organization", "user"}
  BY <1>1 DEF EventType
<1> QED
  BY <1>2, <1>3, <1>4, <1>5

LEMMA ConsumedProjections ==
  ASSUME IInv, queue # <<>>, NEW h, h = Head(queue), h \notin processed,
         ProjectEvent(log[h]), processed' = processed \union {h},
         UNCHANGED <<log, barred, disordered>>,
         UNCHANGED Followed
  PROVE  ProjectionsInv'
<1> SUFFICES ASSUME ~disordered, NEW k \in Keys
             PROVE  /\ Reflects(log, ToldOf(processed, k), Projection(k), ProjectedAtFirst(k))'
                    /\ k.of = "pair" =>
                          Reflects(log, OfKey(Followed, k), Blocking(barred, k.pair), AtFirst(k))'
  BY DEF ProjectionsInv, Keys
<1>1. /\ Reflects(log, ToldOf(processed, k), Projection(k), ProjectedAtFirst(k))
      /\ k.of = "pair" => Reflects(log, OfKey(Followed, k), Blocking(barred, k.pair), AtFirst(k))
  BY DEF IInv, ProjectionsInv
<1>2. /\ TypeOK /\ h \in DOMAIN log /\ DOMAIN log \subseteq Nat /\ processed \subseteq DOMAIN log
      /\ log[h] \in EventType
  BY LogTyped, Taken DEF IInv, TypeOK
<1>3. \A j \in processed : log[j].from = log[h].from => j < h
  BY HeadIsNext
<1>4. AtFirst(k)' = AtFirst(k) /\ ProjectedAtFirst(k)' = ProjectedAtFirst(k)
  BY DEF AtFirst, ProjectedAtFirst
<1>5. k.of = "pair" => Reflects(log, OfKey(Followed, k), Blocking(barred, k.pair), AtFirst(k))'
  <2>1. /\ OfKey(Followed, k)' = OfKey(Followed, k)
        /\ Blocking(barred, k.pair)' = Blocking(barred, k.pair)
    BY DEF OfKey, Blocking
  <2> QED
    BY <1>1, <1>4, <2>1
<1>6. CASE Concerns(log[h], k) /\ Telling(log[h])
  <2>1. Projection(k)' = Value(log'[h])
    BY <1>6, ProjectionWritten
  <2>2. h \in ToldOf(processed, k)'
    BY <1>6 DEF ToldOf
  <2>3. ASSUME NEW j \in ToldOf(processed, k)'
        PROVE  j <= h
    <3>1. j \in processed \union {h} /\ Concerns(log[j], k)
      BY <2>3 DEF ToldOf
    <3>2. log[j].from = log[h].from
      BY <1>6, <3>1 DEF Concerns
    <3> QED
      BY <1>2, <1>3, <3>1, <3>2
  <2> QED
    BY <1>5, <2>1, <2>2, <2>3 DEF Reflects
<1>7. CASE ~(Concerns(log[h], k) /\ Telling(log[h]))
  <2>1. Projection(k)' = Projection(k)
    BY <1>7, ProjectionWritten
  <2>2. ToldOf(processed, k)' = ToldOf(processed, k)
    BY <1>7 DEF ToldOf
  <2> QED
    BY <1>1, <1>4, <1>5, <2>1, <2>2
<1> QED
  BY <1>6, <1>7

LEMMA ConsumeStep == IInv /\ Consume => IInv'
<1> SUFFICES ASSUME IInv, Consume PROVE IInv'
  OBVIOUS
<1> PICK h : h = Head(queue)
  OBVIOUS
<1>1. /\ queue # <<>> /\ queue' \in {queue, Tail(queue)}
      /\ UNCHANGED <<tables, followed, log, pending, commands, late, open, disordered>>
      /\ UNCHANGED <<barred, org, chat, roster, blocks>>
      /\ UNCHANGED faults \/ Fault
  BY DEF Consume, outbox, publishing, tables
<1>2. /\ TypeOK /\ h \in DOMAIN log /\ processed \subseteq DOMAIN log
      /\ log[h] \in EventType /\ WellFormed(log[h])
  BY <1>1, LogTyped, Taken DEF IInv, TypeOK, LogInv
<1>3. \/ h \in processed /\ UNCHANGED <<processed, pOrg, pChat, pRoster, pBlocks>>
      \/ h \notin processed /\ ProjectEvent(log[h]) /\ processed' = processed \union {h}
  <2>1. log[h].from \in {"conversation", "organization", "user"}
    BY <1>2 DEF EventType
  <2>2. CASE h \in processed
    BY <2>2 DEF Consume, ApplyProjection, projections
  <2>3. CASE h \notin processed
    <3>1. /\ processed' = processed \union {h}
          /\ CASE log[h].from = "conversation" -> ProjectChat(log[h])
               [] log[h].from = "organization" -> ProjectMember(log[h])
               [] OTHER -> ProjectBlock(log[h])
      BY <2>3 DEF Consume, ApplyProjection
    <3> QED
      BY <2>1, <2>3, <3>1 DEF ProjectEvent
  <2> QED
    BY <2>2, <2>3
<1>4. processed' = processed \union {h}
  BY <1>3
<1>5. QueueInv' /\ UNCHANGED Arrived
  BY <1>1, <1>4, ConsumedInOrder
<1>6. TablesInv' /\ LogInv' /\ Grown
  BY <1>1, BooksKept
<1>7. FollowedInv' /\ UNCHANGED Followed
  BY <1>1, <1>5, <1>6, FollowedKept
<1>8. OnceInv' /\ KeptInv' /\ BatchTypes'
  BY <1>1, <1>2, <1>5 DEF IInv, OnceInv, KeptInv, TypeOK, BatchTypes, Rows
<1>9. ProjectionsInv'
  <2>1. CASE h \in processed /\ UNCHANGED <<processed, pOrg, pChat, pRoster, pBlocks>>
    <3>1. UNCHANGED projections /\ Followed' \subseteq DOMAIN log
      BY <1>2, <1>7, <2>1, LogTyped DEF projections
    <3> QED
      BY <1>1, <1>6, <1>7, <3>1, ProjectionsKept
  <2>2. CASE h \notin processed /\ ProjectEvent(log[h])
    BY <1>1, <1>4, <1>7, <2>2, ConsumedProjections
  <2> QED
    BY <1>3, <2>1, <2>2
<1>10. ProjectionTypes' /\ RosterInv'
  <2>1. /\ pOrg' \in [Member -> {None, "ACTIVE", "LEFT"}]
        /\ pChat' \in [Chat -> {"none", "ACTIVE", "CLOSED"}]
        /\ pRoster' \in [Chat -> [Member -> {None, "ACTIVE", "LEFT"}]]
        /\ pBlocks' \subseteq Member \X Member
        /\ \A c \in Direct : \A m \in Member \ Founders[c] : pRoster'[c][m] = None
    <3>1. CASE h \in processed /\ UNCHANGED <<processed, pOrg, pChat, pRoster, pBlocks>>
      BY <1>2, <3>1 DEF TypeOK, IInv, RosterInv
    <3>2. CASE h \notin processed /\ ProjectEvent(log[h])
      BY <1>2, <3>2, ProjectedTypes
    <3> QED
      BY <1>3, <3>1, <3>2
  <2>2. processed' \subseteq DOMAIN log'
    BY <1>1, <1>2, <1>4
  <2> QED
    BY <1>1, <2>1, <2>2 DEF ProjectionTypes, IInv, RosterInv
<1>11. TypeOK'
  <2>1. TableTypes'
    BY <1>1, <1>2 DEF TypeOK, TableTypes, tables, book
  <2>2. queue' \in Seq(DOMAIN log)
    <3>1. queue \in Seq(DOMAIN log) /\ Tail(queue) \in Seq(DOMAIN log)
      BY <1>1, <1>2, Taken DEF TypeOK
    <3> QED
      BY <1>1, <3>1
  <2>3. LogTypes'
    BY <1>1, <1>2, <2>2 DEF TypeOK, LogTypes, Rows
  <2>4. OtherTypes'
    BY <1>1, <1>2, FoundersAssumption DEF TypeOK, OtherTypes, Fault
  <2> QED
    BY <1>8, <1>10, <2>1, <2>3, <2>4, TypePartsNext
<1> QED
  BY <1>5, <1>6, <1>7, <1>8, <1>9, <1>10, <1>11 DEF IInv

-----------------------------------------------------------------------------
(* The invariant holds.                                                    *)

LEMMA InvInit == Init => IInv
<1> SUFFICES ASSUME Init PROVE IInv
  OBVIOUS
<1>1. /\ log = <<>> /\ DOMAIN log = {} /\ pending = {} /\ late = {} /\ processed = {}
      /\ queue = <<>> /\ DOMAIN queue = {} /\ followed = <<>> /\ DOMAIN followed = {}
      /\ Range(queue) = {} /\ Range(followed) = {}
  BY DEF Init, Range
<1>2. TypeOK
  <2>1. TableTypes
    BY FoundersAssumption DEF Init, TableTypes
  <2>2. LogTypes
    BY <1>1 DEF LogTypes, Rows
  <2>3. BatchTypes
    BY DEF Init, BatchTypes, Idle
  <2>4. ProjectionTypes
    BY DEF Init, ProjectionTypes
  <2>5. OtherTypes
    <3>1. barred = {} /\ commands = 0 /\ faults = 0 /\ disordered = FALSE
      BY DEF Init
    <3>2. MaxCommands \in Nat /\ MaxFaults \in Nat
      BY FoundersAssumption
    <3>3. commands \in 0..MaxCommands /\ faults \in 0..MaxFaults
      BY <3>1, <3>2
    <3>4. disordered \in BOOLEAN /\ barred \subseteq Member \X Member
      BY <3>1
    <3> QED
      BY <3>3, <3>4 DEF OtherTypes
  <2> QED
    BY <2>1, <2>2, <2>3, <2>4, <2>5, TypeParts
<1>3. TablesInv
  <2> SUFFICES ASSUME NEW k \in Keys PROVE Table(k) = AtFirst(k) /\ OfKey(DOMAIN log, k) = {}
    BY DEF TablesInv, Reflects
  <2> QED
    BY <1>1, KeyCases DEF Init, AtFirst, OfKey, Blocking, Keys
<1>4. ProjectionsInv
  <2> SUFFICES ASSUME NEW k \in Keys
               PROVE  /\ Projection(k) = ProjectedAtFirst(k) /\ ToldOf(processed, k) = {}
                      /\ OfKey(Followed, k) = {}
                      /\ k.of = "pair" => Blocking(barred, k.pair) = AtFirst(k)
    BY DEF ProjectionsInv, Reflects
  <2>1. Arrived = {} /\ Followed = {}
    BY <1>1 DEF Arrived, Followed
  <2>2. ToldOf(processed, k) = {} /\ OfKey(Followed, k) = {}
    BY <1>1, <2>1 DEF ToldOf, OfKey
  <2>3. k.of = "pair" => Blocking(barred, k.pair) = AtFirst(k)
    BY DEF Init, Blocking, AtFirst
  <2>4. Projection(k) = ProjectedAtFirst(k)
    BY KeyProjections DEF Init, ProjectedAtFirst, AtFirst, Blocking
  <2> QED
    BY <2>2, <2>3, <2>4
<1>5. QueueInv /\ FollowedInv /\ KeptInv /\ OnceInv
  <2>1. Arrived = {} /\ Followed = {}
    BY <1>1 DEF Arrived, Followed
  <2>2. \A p \in Batching : open[p].sent = {}
    BY DEF Init, Idle
  <2> QED
    BY <1>1, <2>1, <2>2 DEF QueueInv, FollowedInv, KeptInv, OnceInv
<1>6. LogInv
  BY <1>1 DEF LogInv
<1>7. RosterInv
  BY FoundersAssumption DEF Init, RosterInv
<1> QED
  BY <1>2, <1>3, <1>4, <1>5, <1>6, <1>7 DEF IInv

LEMMA InvStep == IInv /\ [Next]_vars => IInv'
<1> SUFFICES ASSUME IInv, [Next]_vars PROVE IInv'
  OBVIOUS
<1>1. ASSUME NEW c \in Chat, Found(c) \/ Close(c) \/ Delete(c)
      PROVE  IInv'
  BY <1>1, FoundStep, EndStep
<1>2. ASSUME NEW c \in Chat, NEW m \in Member, AddMember(c, m) \/ RemoveMember(c, m)
      PROVE  IInv'
  BY <1>2, PlaceStep
<1>3. ASSUME NEW m \in Member, Depart(m) \/ Return(m)
      PROVE  IInv'
  BY <1>3, MembershipStep
<1>4. ASSUME NEW m \in Member, NEW n \in Member,
             Block(m, n) \/ Unblock(m, n) \/ SaveContact(m, n) \/ ForgetContact(m, n)
      PROVE  IInv'
  BY <1>4, BlockStep, ContactStep
<1>5. ASSUME NEW m \in Member, SetDiscoverable(m)
      PROVE  IInv'
  BY <1>5, ContactStep
<1>6. ASSUME NEW p \in Batching, Send(p) \/ CommitBatch(p) \/ FailSend(p) \/ CrashBatch(p)
      PROVE  IInv'
  BY <1>6, SendStep, CommitBatchStep, FailSendStep, CrashBatchStep
<1>7. CASE PublishOne \/ RetryOne
  BY <1>7, PublishOneStep, RetryOneStep
<1>8. CASE FollowMember \/ FollowBlock \/ FollowLater
  BY <1>8, FollowMemberStep, FollowBlockStep, FollowLaterStep
<1>9. CASE Consume \/ Requeue
  BY <1>9, ConsumeStep, RequeueStep
<1>10. CASE UNCHANGED vars
  <2>1. /\ UNCHANGED <<org, chat, roster, blocks, contacts, hidden, known, barred, followed, log,
                       pending, commands, publishing, queue, projections, faults, disordered>>
        /\ TypeOK
    BY <1>10 DEF vars, tables, book, outbox, IInv
  <2>2. TypeOK'
    BY <2>1 DEF TypeOK, Rows, publishing, projections
  <2> QED
    BY <2>1, <2>2, Quiet
<1> QED
  BY <1>1, <1>2, <1>3, <1>4, <1>5, <1>6, <1>7, <1>8, <1>9, <1>10 DEF Next, Commands, Progress

\* Every reachable state has it.
LEMMA Invariant == Spec => []IInv
<1> QED
  BY InvInit, InvStep, PTL DEF Spec

\* The tables of the three services, their outboxes, the queues and the projections
\* have their types: what is sent or waits for another try is a row of its producer that
\* is still PENDING.
THEOREM TypeCorrect == Spec => []TypeOK
<1>1. IInv => TypeOK
  BY DEF IInv
<1> QED
  BY <1>1, Invariant, PTL

\* For any members, chats, commands and faults: what authorize and authorize_send answer
\* differs from what the tables of the services say only while an event that bears on it
\* is on its way, or one has overtaken another.
THEOREM SendingAgrees == Spec => []AgreesUnlessInFlight
<1> QED
  BY Agreement, Invariant, PTL

-----------------------------------------------------------------------------
(* EventRelay.                                                             *)

\* An event the broker has accepted and nobody has dropped since.
Kept(e) == e \in applied \/ relayQueue[e] > 0 \/ \E c \in Consumers : got[c] = e

\* A runner that is past taking an event holds it, and one whose send was confirmed
\* holds one the broker keeps.
RunnerInv ==
    \A r \in Runners :
        /\ runner[r] \in {"sending", "sent", "failed"} => held[r] \in Events
        /\ runner[r] = "sent" => Kept(held[r])
        /\ held[r] \in Events =>
              rowStatus[held[r]] = "PENDING" /\ retries[held[r]] < MaxRetries

\* No two transactions lock one row, and a pending row has retries left.
LockInv ==
    /\ \A r, s \in Runners : held[r] = held[s] /\ held[r] \in Events => r = s
    /\ \A e \in Events : rowStatus[e] \in {"none", "PENDING"} => retries[e] < MaxRetries

\* The processed events are those with an effect, and a consumer is done with an event
\* when it is one of them.
ConsumerInv ==
    /\ \A e \in Events : effects[e] = IF e \in applied THEN 1 ELSE 0
    /\ \A c \in Consumers :
          /\ consumer[c] # "idle" => got[c] \in Events
          /\ consumer[c] = "idle" => got[c] = NoneHeld
          /\ consumer[c] = "done" => got[c] \in applied

PublishedInv == \A e \in Events : rowStatus[e] = "PUBLISHED" => Kept(e)

RelayInv ==
    /\ RelayAssumption /\ RelayTypeOK
    /\ RunnerInv /\ LockInv /\ ConsumerInv /\ PublishedInv

-----------------------------------------------------------------------------

LEMMA RelayBegins == RelayAssumption /\ RelayInit => RelayInv
<1> SUFFICES ASSUME RelayAssumption, RelayInit PROVE RelayInv
  OBVIOUS
<1> USE DEF RelayAssumption, RelayInit
<1>1. RelayTypeOK
  BY DEF RelayTypeOK
<1>2. RunnerInv /\ LockInv
  BY DEF RunnerInv, LockInv
<1>3. ConsumerInv /\ PublishedInv
  BY DEF ConsumerInv, PublishedInv
<1> QED
  BY <1>1, <1>2, <1>3 DEF RelayInv

\* What waits for an acknowledgement is counted by Unacked.
LEMMA UnackedCounts ==
  ASSUME RelayAssumption, NEW e \in Events
  PROVE  /\ Unacked(e) \in Nat
         /\ (\E c \in Consumers : got[c] = e) => Unacked(e) # 0
<1> DEFINE S == {d \in Consumers : got[d] = e}
<1>1. IsFiniteSet(Consumers)
  BY DEF RelayAssumption
<1>2. IsFiniteSet(S)
  BY <1>1, FS_Subset
<1>3. Unacked(e) = Cardinality(S)
  BY DEF Unacked
<1>4. Cardinality(S) \in Nat /\ (S # {} => Cardinality(S) # 0)
  BY <1>2, FS_CardinalityType, FS_EmptySet
<1> QED
  BY <1>3, <1>4

\* A runner's step loses nothing that was kept.
LEMMA RunnerKeepsInv ==
  ASSUME RelayInv, NEW r \in Runners,
         RunnerStep(r) \/ PublishUnconfirmed(r) \/ RunnerCrash(r)
  PROVE  RelayInv'
<1> USE DEF RelayAssumption
<1>1. CASE Connect(r)
  BY <1>1 DEF Connect, RelayInv, RelayTypeOK, RunnerInv, LockInv, ConsumerInv,
     PublishedInv, Kept, consumerVars
<1>2. CASE Take(r)
  BY <1>2 DEF Take, Unlocked, RelayInv, RelayTypeOK, RunnerInv, LockInv,
     ConsumerInv, PublishedInv, Kept, consumerVars
<1>3. CASE Drained(r)
  BY <1>3 DEF Drained, RelayInv, RelayTypeOK, RunnerInv, LockInv, ConsumerInv,
     PublishedInv, Kept, consumerVars
<1>4. CASE Publish(r)
  BY <1>4 DEF Publish, RelayInv, RelayTypeOK, RunnerInv, LockInv, ConsumerInv, PublishedInv,
     Kept, consumerVars
<1>5. CASE PublishFails(r)
  BY <1>5 DEF PublishFails, RelayInv, RelayTypeOK, RunnerInv, LockInv, ConsumerInv,
     PublishedInv, Kept, consumerVars
<1>6. CASE CommitSent(r)
  BY <1>6 DEF CommitSent, RelayInv, RelayTypeOK, RunnerInv, LockInv, ConsumerInv,
     PublishedInv, Kept, consumerVars
<1>7. CASE CommitFailed(r)
  BY <1>7 DEF CommitFailed, RelayInv, RelayTypeOK, RunnerInv, LockInv, ConsumerInv,
     PublishedInv, Kept, consumerVars
<1>8. CASE PublishUnconfirmed(r)
  BY <1>8 DEF PublishUnconfirmed, RelayFault, RelayInv, RelayTypeOK, RunnerInv, LockInv,
     ConsumerInv, PublishedInv, Kept, consumerVars
<1>9. CASE RunnerCrash(r)
  BY <1>9 DEF RunnerCrash, RelayFault, RelayInv, RelayTypeOK, RunnerInv, LockInv,
     ConsumerInv, PublishedInv, Kept, consumerVars
<1> QED
  BY <1>1, <1>2, <1>3, <1>4, <1>5, <1>6, <1>7, <1>8, <1>9 DEF RunnerStep

\* A consumer gives back what it has not projected.
LEMMA ConsumerKeepsInv ==
  ASSUME RelayInv, NEW c \in Consumers, ConsumerStep(c) \/ ConsumerFails(c)
  PROVE  RelayInv'
<1> USE DEF RelayAssumption
<1>1. ASSUME NEW e \in Events, Deliver(c, e) PROVE RelayInv'
  BY <1>1 DEF Deliver, RelayInv, RelayTypeOK, RunnerInv, LockInv, ConsumerInv,
     PublishedInv, Kept, runnerVars
<1>2. CASE Look(c)
  BY <1>2 DEF Look, RelayInv, RelayTypeOK, RunnerInv, LockInv, ConsumerInv, PublishedInv,
     Kept, runnerVars
<1>3. CASE Project(c)
  BY <1>3 DEF Project, RelayInv, RelayTypeOK, RunnerInv, LockInv, ConsumerInv,
     PublishedInv, Kept, runnerVars
<1>4. CASE ProjectRejected(c)
  BY <1>4 DEF ProjectRejected, GiveBack, RelayInv, RelayTypeOK, RunnerInv, LockInv,
     ConsumerInv, PublishedInv, Kept, runnerVars
<1>5. CASE Ack(c)
  BY <1>5 DEF Ack, RelayInv, RelayTypeOK, RunnerInv, LockInv, ConsumerInv, PublishedInv,
     Kept, runnerVars
<1>6. CASE ConsumerFails(c)
  BY <1>6 DEF ConsumerFails, RelayFault, GiveBack, RelayInv, RelayTypeOK, RunnerInv,
     LockInv, ConsumerInv, PublishedInv, Kept, runnerVars
<1> QED
  BY <1>1, <1>2, <1>3, <1>4, <1>5, <1>6 DEF ConsumerStep

\* An outage queues again what was in flight.
LEMMA BrokerDownKeepsInv == RelayInv /\ BrokerDown => RelayInv'
<1> SUFFICES ASSUME RelayInv, BrokerDown PROVE RelayInv'
  OBVIOUS
<1>0. \A e \in Events :
          /\ Unacked(e) \in Nat
          /\ (\E c \in Consumers : got[c] = e) => Unacked(e) # 0
  BY UnackedCounts DEF RelayInv
<1> USE DEF RelayAssumption, BrokerDown, RelayFault
<1>1. \A e \in Events : Kept(e) => Kept(e)'
  <2> SUFFICES ASSUME NEW e \in Events, Kept(e) PROVE Kept(e)'
    OBVIOUS
  <2>1. /\ relayQueue[e] \in Nat /\ Unacked(e) \in Nat
        /\ relayQueue'[e] = relayQueue[e] + Unacked(e)
    BY <1>0 DEF RelayInv, RelayTypeOK
  <2>2. CASE \E c \in Consumers : got[c] = e
    BY <1>0, <2>1, <2>2 DEF Kept
  <2>3. CASE e \in applied \/ relayQueue[e] > 0
    BY <2>1, <2>3 DEF Kept
  <2> QED
    BY <2>2, <2>3 DEF Kept
<1>2. RelayTypeOK'
  BY <1>0 DEF RelayInv, RelayTypeOK
<1>3. RunnerInv' /\ LockInv'
  BY <1>1 DEF RelayInv, RunnerInv, LockInv
<1>4. ConsumerInv' /\ PublishedInv'
  BY <1>1 DEF RelayInv, ConsumerInv, PublishedInv
<1> QED
  BY <1>2, <1>3, <1>4 DEF RelayInv

LEMMA RelayKeepsInv == RelayInv /\ [RelayNext]_relayVars => RelayInv'
<1> SUFFICES ASSUME RelayInv, [RelayNext]_relayVars PROVE RelayInv'
  OBVIOUS
<1>1. ASSUME NEW e \in Events, WriteEvent(e) PROVE RelayInv'
  BY <1>1 DEF RelayAssumption, WriteEvent, RelayInv, RelayTypeOK, RunnerInv,
     LockInv, ConsumerInv, PublishedInv, Kept, consumerVars
<1>2. CASE BrokerUp
  BY <1>2 DEF RelayAssumption, BrokerUp, RelayInv, RelayTypeOK, RunnerInv, LockInv,
     ConsumerInv, PublishedInv, Kept, runnerVars, consumerVars
<1>3. CASE UNCHANGED relayVars
  BY <1>3 DEF relayVars, RelayInv, RelayTypeOK, RunnerInv, LockInv, ConsumerInv, PublishedInv,
     Kept
<1> QED
  BY <1>1, <1>2, <1>3, RunnerKeepsInv, ConsumerKeepsInv, BrokerDownKeepsInv DEF RelayNext

\* The relay keeps its books: types, locks and what the broker and consumers hold.
THEOREM RelayInvariant == RelaySpec => []RelayInv
<1>1. RelayInit => RelayInv
  BY RelayBegins, RelayAssumption
<1> QED
  BY <1>1, RelayKeepsInv, PTL DEF RelaySpec

\* Type correctness; retry_count in particular never passes the maximum, so that no
\* FAILED row is taken up again.
THEOREM RelayTypeCorrect == RelaySpec => []RelayTypeOK
<1>1. RelayInv => RelayTypeOK
  BY DEF RelayInv
<1>2. RelaySpec => []RelayInv
  BY RelayInvariant
<1> QED
  BY <1>1, <1>2, PTL

\* conversation-service events.py consume: whatever is sent, delivered or begun twice
\* is projected once.
THEOREM OnceOnly == RelaySpec => []ProjectedOnce
<1>1. RelayInv => ProjectedOnce
  BY DEF RelayInv, ConsumerInv, ProjectedOnce
<1>2. RelaySpec => []RelayInv
  BY RelayInvariant
<1> QED
  BY <1>1, <1>2, PTL

\* messaging-service events.py publish_one: an event is lost neither between confirm
\* and commit nor, once PUBLISHED, in any outage, crash or nack.
THEOREM NothingLost == RelaySpec => []PublishedIsKept
<1>1. RelayInv => PublishedIsKept
  BY DEF RelayInv, PublishedInv, ConsumerInv, Kept, PublishedIsKept
<1>2. RelaySpec => []RelayInv
  BY RelayInvariant
<1> QED
  BY <1>1, <1>2, PTL
=============================================================================
