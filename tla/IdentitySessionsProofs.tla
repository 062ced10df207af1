----------------------- MODULE IdentitySessionsProofs -----------------------
(***************************************************************************)
(* Proofs about IdentitySessions, for any devices, workers and number of   *)
(* commands.                                                               *)
(***************************************************************************)
EXTENDS IdentitySessions, FiniteSetTheorems, SequenceTheorems, TLAPS

\* The statements of each command.
Statements ==
    [end |-> {"select", "sessions"}, revokeDevice |-> {"lockDevice", "select", "sessions"},
     context |-> {"insert"}, keys |-> {"bundle"}, replenish |-> {"store"}, fetch |-> {"give"},
     authorize |-> {"qr"}, login |-> {"device", "newDevice", "insert"},
     otp |-> {"identity", "device", "newDevice", "insert"},
     qr |-> {"device", "newDevice", "insert"}, refresh |-> {"session", "rotate"},
     reset |-> {"identity", "select", "sessions", "links", "lockLinks"},
     verify |-> {"identity", "verified", "links", "lockLinks"}]

Kinds == {"identity", "otp", "qr", "prekey", "device", "session", "credential", "link"}

TxType ==
    [op : DOMAIN Statements, self : Nat, device : Device \union {AnyDevice}, used : Nat,
     next : UNION {Statements[op] : op \in DOMAIN Statements},
     todo : SUBSET Nat, ended : SUBSET Nat, rows : SUBSET (Kinds \X (Device \union Nat))]

\* What a transaction t holds and relies upon, by the tables that it has read.
Proper(t) ==
    /\ t \in TxType
    /\ t.next \in Statements[t.op]
    /\ t.op \in {"end", "authorize", "refresh", "reset", "verify"} \/ t.device \in Device
    /\ t.op = "reset" => t.device = AnyDevice
    /\ t.next \notin {"sessions", "lockLinks"} => t.ended = {}

\* The caller of one that takes its device from its session has that session.
OnSession(t) ==
    t.op \in {"context", "keys", "replenish"} =>
        \E i \in DOMAIN sessions :
            <<"session", i>> \in t.rows /\ Active(i) /\ sessions[i].device = t.device

OnPreKey(t) == t.op = "fetch" => PreKey(t.device) \in t.rows /\ prekey[t.device] = "stored"

OnChallenge(t) ==
    /\ t.op = "otp" => Otp \in t.rows /\ otp = "PENDING"
    /\ t.op = "qr" => QR \in t.rows /\ qr.status = "AUTHORIZED"

OnCredential(t) ==
    t.op = "refresh" =>
        /\ <<"credential", t.used>> \in t.rows
        /\ t.used \in DOMAIN credentials /\ credentials[t.used] = Issued(t.self)
        /\ t.next = "rotate" => <<"session", t.self>> \in t.rows /\ Active(t.self)

OnDevice(t) ==
    /\ t.next = "insert" /\ t.op # "context" =>
          <<"device", t.device>> \in t.rows /\ device[t.device] # "REVOKED"
    /\ t.op = "revokeDevice" /\ t.next # "lockDevice" => <<"device", t.device>> \in t.rows

\* Nothing that one ends began after it had selected.
OnEnd(t) ==
    /\ t.op = "reset" /\ t.next \in {"select", "sessions"} => Identity \in t.rows
    /\ t.next = "sessions" =>
          /\ \A i \in t.ended : <<"session", i>> \in t.rows
          /\ t.op \in {"reset", "revokeDevice"} =>
                \A i \in DOMAIN sessions :
                    Active(i) /\ (t.op = "reset" \/ sessions[i].device = t.device)
                        => i \in t.todo \union t.ended

Open(l, kind) == links[l] = [to |-> kind, status |-> "open"]

OnLinks(t) ==
    /\ t.op \in {"reset", "verify"} /\ t.next \in {"identity", "select", "sessions", "verified"}
          => t.used \in DOMAIN links
    /\ t.next \in {"links", "lockLinks"} => Identity \in t.rows
    /\ t.next = "lockLinks" =>
          \A l \in DOMAIN links : Open(l, t.op) => l \in t.todo \union t.ended

Held(t) ==
    /\ Proper(t) /\ OnSession(t) /\ OnPreKey(t) /\ OnChallenge(t)
    /\ OnCredential(t) /\ OnDevice(t) /\ OnEnd(t) /\ OnLinks(t)

TxInv ==
    /\ DOMAIN tx = Workers
    /\ \A w \in Workers : tx[w] # NoTx => Held(tx[w])

Exclusive ==
    \A v, w \in Workers : v # w /\ tx[v] # NoTx /\ tx[w] # NoTx =>
        tx[v].rows \intersect tx[w].rows = {}

Live(c, i) == credentials[c] = Issued(i)

\* OneLiveCredential, without counting.
LiveInv ==
    /\ \A i \in DOMAIN sessions : Active(i) => \E c \in DOMAIN credentials : Live(c, i)
    /\ \A c \in DOMAIN credentials :
          credentials[c].status = "ACTIVE" =>
              /\ Active(credentials[c].session)
              /\ \A other \in DOMAIN credentials :
                     Live(other, credentials[c].session) => other = c

ChallengeInv ==
    /\ \A i \in DOMAIN sessions :
          /\ sessions[i].by = "otp" => otp = "VERIFIED"
          /\ sessions[i].by = "qr" => qr.status = "CONSUMED"
          /\ \A j \in DOMAIN sessions :
                sessions[i].by = sessions[j].by /\ sessions[i].by \in {"otp", "qr"} => i = j
    /\ \A d \in Device :
          \/ given[d] = 0
          \/ given[d] = 1 /\ (prekey[d] = "consumed" \/ device[d] = "REVOKED")
    /\ \A k, l \in DOMAIN links : links[k] = links[l] /\ links[k].status = "open" => k = l

IInv ==
    /\ TypeOK
    /\ TxInv /\ Exclusive
    /\ LiveInv /\ RevokedDeviceIsSilent /\ ChallengeInv

-----------------------------------------------------------------------------
(* Transactions.                                                           *)

LEMMA TxFields ==
  ASSUME NEW t \in TxType
  PROVE  /\ t.op \in DOMAIN Statements /\ t.self \in Nat
         /\ t.device \in Device \union {AnyDevice} /\ t.used \in Nat
         /\ t.todo \in SUBSET Nat /\ t.ended \in SUBSET Nat
         /\ t.rows \in SUBSET (Kinds \X (Device \union Nat))
  BY DEF TxType

LEMMA OneTx ==
  ASSUME IInv, NEW w \in Workers, tx[w] # NoTx
  PROVE  Held(tx[w]) /\ tx[w] \in TxType
  BY DEF IInv, TxInv, Held, Proper

\* Where no table changes everybody still relies upon what he did.
LEMMA HeldKept ==
  ASSUME NEW t, UNCHANGED tables, Held(t)
  PROVE  Held(t)'
  BY DEF Held, Proper, OnSession, OnPreKey, OnChallenge, OnCredential, OnDevice, OnEnd, OnLinks,
         Active, Open, Issued, tables, keys, account, codes

LEMMA TablesKept ==
  ASSUME IInv, UNCHANGED tables, begun' \in Nat
  PROVE  TypeOK' /\ LiveInv' /\ RevokedDeviceIsSilent' /\ ChallengeInv'
<1>1. TypeOK'
  BY DEF IInv, TypeOK, tables, keys, account, codes
<1>2. LiveInv'
  BY DEF IInv, LiveInv, Live, Active, Issued, tables
<1>3. RevokedDeviceIsSilent'
  BY DEF IInv, RevokedDeviceIsSilent, Active, tables, keys
<1>4. ChallengeInv'
  BY DEF IInv, ChallengeInv, tables, keys, account, codes
<1> QED
  BY <1>1, <1>2, <1>3, <1>4

\* A transaction that begins or goes on, and does not commit yet.
LEMMA Continues ==
  ASSUME IInv, NEW w \in Workers, NEW t, Held(t),
         tx' = [tx EXCEPT ![w] = t],
         \A v \in Workers \ {w} : tx[v] # NoTx => tx[v].rows \intersect t.rows = {},
         UNCHANGED tables, begun' \in Nat
  PROVE  IInv'
<1>1. DOMAIN tx' = Workers /\ tx'[w] = t /\ \A v \in Workers \ {w} : tx'[v] = tx[v]
  BY DEF IInv, TxInv
<1>2. TxInv'
  <2> SUFFICES ASSUME NEW v \in Workers, tx'[v] # NoTx PROVE Held(tx[v])'
    BY <1>1 DEF TxInv
  <2>1. PICK u : u = tx'[v] /\ Held(u)
    BY <1>1 DEF IInv, TxInv
  <2>2. Held(u)'
    BY <2>1, HeldKept
  <2> QED
    BY <2>1, <2>2
<1>3. Exclusive'
  BY <1>1 DEF IInv, Exclusive
<1> QED
  BY <1>2, <1>3, TablesKept DEF IInv

\* A transaction ends.
LEMMA Ends ==
  ASSUME IInv, NEW w \in Workers, tx' = [tx EXCEPT ![w] = NoTx],
         \A v \in Workers \ {w} : tx[v] # NoTx => \E t : t = tx[v] /\ Held(t)'
  PROVE  TxInv' /\ Exclusive'
<1>1. DOMAIN tx' = Workers /\ tx'[w] = NoTx /\ \A v \in Workers \ {w} : tx'[v] = tx[v]
  BY DEF IInv, TxInv
<1>2. TxInv'
  <2> SUFFICES ASSUME NEW v \in Workers, tx'[v] # NoTx PROVE Held(tx[v])'
    BY <1>1 DEF TxInv
  <2>1. PICK u : u = tx'[v] /\ Held(u)'
    BY <1>1
  <2> QED
    BY <2>1
<1>3. Exclusive'
  BY <1>1 DEF IInv, Exclusive
<1> QED
  BY <1>2, <1>3

-----------------------------------------------------------------------------
(* How a command begins.                                                   *)

Begun(op, self, dev, used, next, todo, rows) ==
    [op |-> op, self |-> self, device |-> dev, used |-> used, next |-> next,
     todo |-> todo, ended |-> {}, rows |-> rows]

\* The command that takes its first lock, with the sessions that it names.
StartsWith(w, row, op, self, dev, used, next, todo) ==
    \/ Start(w, row, [Command(op, self, dev, used, next) EXCEPT !.todo = todo])
    \/ Start(w, row, Command(op, self, dev, used, next)) /\ todo = {}

LEMMA Starts ==
  ASSUME IInv, NEW w \in Workers, NEW row,
         NEW op, NEW self, NEW dev, NEW used, NEW next, NEW todo,
         StartsWith(w, row, op, self, dev, used, next, todo),
         Held(Begun(op, self, dev, used, next, todo, {row}))
  PROVE  IInv'
<1>1. PICK t : t = Begun(op, self, dev, used, next, todo, {row})
  OBVIOUS
<1>2. t.rows = {row}
  BY <1>1 DEF Begun
<1>3. /\ tx' = [tx EXCEPT ![w] = t] /\ Free(w, row)
      /\ UNCHANGED tables /\ begun' = begun + 1
  BY <1>1 DEF StartsWith, Start, Command, Begun
<1>4. begun' \in Nat
  BY <1>3 DEF IInv, TypeOK
<1>5. \A v \in Workers \ {w} : tx[v] # NoTx => tx[v].rows \intersect t.rows = {}
  BY <1>2, <1>3 DEF Free
<1>6. Held(t)
  BY <1>1
<1> QED
  BY <1>3, <1>4, <1>5, <1>6, Continues

LEMMA StartsUnlocked ==
  ASSUME IInv, NEW w \in Workers, NEW op, NEW self, NEW dev, NEW used, NEW next,
         StartUnlocked(w, Command(op, self, dev, used, next)),
         Held(Begun(op, self, dev, used, next, {}, {}))
  PROVE  IInv'
<1>1. PICK t : t = Begun(op, self, dev, used, next, {}, {})
  OBVIOUS
<1>2. t.rows = {} /\ Held(t)
  BY <1>1 DEF Begun
<1>3. tx' = [tx EXCEPT ![w] = t] /\ UNCHANGED tables /\ begun' = begun + 1
  BY <1>1 DEF StartUnlocked, Command, Begun
<1>4. begun' \in Nat
  BY <1>3 DEF IInv, TypeOK
<1> QED
  BY <1>2, <1>3, <1>4, Continues

\* A command that has read nothing relies upon nothing.
LEMMA BegunProper ==
  ASSUME NEW op \in DOMAIN Statements, NEW self \in Nat, NEW dev \in Device \union {AnyDevice},
         NEW used \in Nat, NEW next \in Statements[op], NEW todo \in SUBSET Nat,
         NEW rows \in SUBSET (Kinds \X (Device \union Nat)),
         op \in {"end", "authorize", "refresh", "reset", "verify"} \/ dev \in Device,
         op = "reset" => dev = AnyDevice
  PROVE  Proper(Begun(op, self, dev, used, next, todo, rows))
<1>1. next \in UNION {Statements[x] : x \in DOMAIN Statements}
  OBVIOUS
<1>2. Begun(op, self, dev, used, next, todo, rows) \in TxType
  BY <1>1 DEF Begun, TxType
<1> QED
  BY <1>2 DEF Proper, Begun

LEMMA StatementsOf ==
  /\ DOMAIN Statements = {"end", "revokeDevice", "context", "keys", "replenish", "fetch",
                          "authorize", "login", "otp", "qr", "refresh", "reset", "verify"}
  /\ Statements["end"] = {"select", "sessions"}
  /\ Statements["revokeDevice"] = {"lockDevice", "select", "sessions"}
  /\ Statements["context"] = {"insert"} /\ Statements["keys"] = {"bundle"}
  /\ Statements["replenish"] = {"store"} /\ Statements["fetch"] = {"give"}
  /\ Statements["authorize"] = {"qr"}
  /\ Statements["login"] = {"device", "newDevice", "insert"}
  /\ Statements["otp"] = {"identity", "device", "newDevice", "insert"}
  /\ Statements["qr"] = {"device", "newDevice", "insert"}
  /\ Statements["refresh"] = {"session", "rotate"}
  /\ Statements["reset"] = {"identity", "select", "sessions", "links", "lockLinks"}
  /\ Statements["verify"] = {"identity", "verified", "links", "lockLinks"}
  BY DEF Statements

\* What is typed of the tables.
SessionType == [device : Device, status : {"ACTIVE", "REVOKED"},
                by : {"login", "otp", "qr", "context"}]
CredentialType == [session : Nat, status : {"ACTIVE", "ROTATED", "REVOKED"}]
LinkType == [to : {"reset", "verify"}, status : {"open", "consumed"}]

LEMMA RowsTyped ==
  ASSUME TypeOK
  PROVE  /\ sessions \in Seq(SessionType) /\ credentials \in Seq(CredentialType)
         /\ links \in Seq(LinkType)
  BY DEF TypeOK, SessionType, CredentialType, LinkType

LEMMA SessionTyped ==
  ASSUME TypeOK, NEW i \in DOMAIN sessions
  PROVE  /\ i \in Nat /\ sessions[i] \in SessionType
         /\ sessions[i].device \in Device /\ sessions[i].status \in {"ACTIVE", "REVOKED"}
         /\ <<"session", i>> \in Kinds \X (Device \union Nat)
<1>1. i \in Nat /\ sessions[i] \in SessionType
  BY RowsTyped
<1>2. <<"session", i>> \in Kinds \X (Device \union Nat)
  BY <1>1 DEF Kinds
<1> QED
  BY <1>1, <1>2 DEF SessionType

LEMMA CredentialTyped ==
  ASSUME TypeOK, NEW c \in DOMAIN credentials
  PROVE  /\ c \in Nat /\ credentials[c] \in CredentialType
         /\ credentials[c].session \in DOMAIN sessions
         /\ credentials[c].status \in {"ACTIVE", "ROTATED", "REVOKED"}
         /\ credentials[c] = [session |-> credentials[c].session, status |-> credentials[c].status]
         /\ <<"credential", c>> \in Kinds \X (Device \union Nat)
<1>1. c \in Nat /\ credentials[c] \in CredentialType
  BY RowsTyped
<1>2. <<"credential", c>> \in Kinds \X (Device \union Nat)
  BY <1>1 DEF Kinds
<1>3. credentials[c].session \in DOMAIN sessions
  BY DEF TypeOK
<1> QED
  BY <1>1, <1>2, <1>3 DEF CredentialType

LEMMA LinkTyped ==
  ASSUME TypeOK, NEW l \in DOMAIN links
  PROVE  /\ l \in Nat /\ links[l] \in LinkType
         /\ links[l].to \in {"reset", "verify"} /\ links[l].status \in {"open", "consumed"}
         /\ links[l] = [to |-> links[l].to, status |-> links[l].status]
         /\ <<"link", l>> \in Kinds \X (Device \union Nat)
<1>1. l \in Nat /\ links[l] \in LinkType
  BY RowsTyped
<1>2. <<"link", l>> \in Kinds \X (Device \union Nat)
  BY <1>1 DEF Kinds
<1> QED
  BY <1>1, <1>2 DEF LinkType

LEMMA OtherRowsTyped ==
  /\ Identity \in Kinds \X (Device \union Nat) /\ Otp \in Kinds \X (Device \union Nat)
  /\ QR \in Kinds \X (Device \union Nat)
  /\ \A d \in Device : /\ PreKey(d) \in Kinds \X (Device \union Nat)
                       /\ <<"device", d>> \in Kinds \X (Device \union Nat)
  BY DEF Kinds, Identity, Otp, QR, PreKey

\* The routes that need a session hold it.
LEMMA AuthenticatedStarts ==
  ASSUME IInv, NEW w \in Workers, NEW i \in DOMAIN sessions,
         NEW op, NEW self \in Nat, NEW dev \in Device \union {AnyDevice}, NEW next,
         NEW todo \in SUBSET Nat,
         Active(i), StartsWith(w, <<"session", i>>, op, self, dev, 0, next, todo),
         \/ op = "end" /\ next \in {"select", "sessions"}
         \/ op = "revokeDevice" /\ next = "lockDevice" /\ dev \in Device
         \/ op = "context" /\ next = "insert" /\ dev = sessions[i].device
         \/ op = "keys" /\ next = "bundle" /\ dev = sessions[i].device
         \/ op = "replenish" /\ next = "store" /\ dev = sessions[i].device
         \/ op = "authorize" /\ next = "qr"
  PROVE  IInv'
<1> DEFINE row == <<"session", i>>
<1>1. /\ sessions[i].device \in Device /\ row \in Kinds \X (Device \union Nat)
      /\ Active(i)
  BY SessionTyped DEF IInv
<1>2. /\ op \in DOMAIN Statements /\ next \in Statements[op]
      /\ op \in {"end", "authorize"} \/ dev \in Device
      /\ op \notin {"fetch", "otp", "qr", "refresh", "reset", "verify"}
      /\ op = "revokeDevice" => next = "lockDevice"
      /\ op \in {"context", "keys", "replenish"} => dev = sessions[i].device
      /\ next \notin {"links", "lockLinks"} /\ (next = "insert" => op = "context")
      /\ next = "sessions" => op = "end"
  BY <1>1, StatementsOf
<1>3. Proper(Begun(op, self, dev, 0, next, todo, {row}))
  BY <1>1, <1>2, BegunProper
<1>4. Held(Begun(op, self, dev, 0, next, todo, {row}))
  BY <1>1, <1>2, <1>3
     DEF Held, OnSession, OnPreKey, OnChallenge, OnCredential, OnDevice, OnEnd, OnLinks, Begun
<1> QED
  BY <1>4, Starts

LEMMA BeginStep ==
  ASSUME IInv, NEW w \in Workers, Begin(w)
  PROVE  IInv'
<1>0. TypeOK
  BY DEF IInv
<1>1. ASSUME NEW i \in DOMAIN sessions,
             \/ Logout(w, i) \/ LogoutAll(w, i) \/ SwitchContext(w, i) \/ UploadKeys(w, i)
             \/ ReplenishPreKeys(w, i) \/ AuthorizeQR(w, i)
             \/ \E j \in DOMAIN sessions : Revoke(w, i, j)
             \/ \E d \in Device : RevokeDevice(w, i, d)
      PROVE  IInv'
  <2>1. i \in Nat /\ sessions[i].device \in Device /\ 0 \in Nat /\ {i} \in SUBSET Nat
    BY <1>0, SessionTyped
  <2>2. CASE Logout(w, i)
    <3>1. Active(i) /\ StartsWith(w, <<"session", i>>, "end", 0, AnyDevice, 0, "sessions", {i})
      BY <2>2 DEF Logout, Authenticated, StartsWith
    <3> QED
      BY <2>1, <3>1, AuthenticatedStarts
  <2>3. CASE LogoutAll(w, i)
    <3>1. Active(i) /\ StartsWith(w, <<"session", i>>, "end", 0, AnyDevice, 0, "select", {})
      BY <2>3 DEF LogoutAll, Authenticated, StartsWith
    <3> QED
      BY <2>1, <3>1, AuthenticatedStarts
  <2>4. CASE SwitchContext(w, i)
    <3>1. Active(i) /\ StartsWith(w, <<"session", i>>, "context", 0, sessions[i].device, 0, "insert", {})
      BY <2>4 DEF SwitchContext, Authenticated, StartsWith
    <3> QED
      BY <2>1, <3>1, AuthenticatedStarts
  <2>5. CASE UploadKeys(w, i)
    <3>1. Active(i) /\ StartsWith(w, <<"session", i>>, "keys", 0, sessions[i].device, 0, "bundle", {})
      BY <2>5 DEF UploadKeys, Authenticated, StartsWith
    <3> QED
      BY <2>1, <3>1, AuthenticatedStarts
  <2>6. CASE ReplenishPreKeys(w, i)
    <3>1. Active(i) /\ StartsWith(w, <<"session", i>>, "replenish", 0, sessions[i].device, 0, "store", {})
      BY <2>6 DEF ReplenishPreKeys, Authenticated, StartsWith
    <3> QED
      BY <2>1, <3>1, AuthenticatedStarts
  <2>7. CASE AuthorizeQR(w, i)
    <3>1. Active(i) /\ StartsWith(w, <<"session", i>>, "authorize", i, AnyDevice, 0, "qr", {})
      BY <2>7 DEF AuthorizeQR, Authenticated, StartsWith
    <3> QED
      BY <2>1, <3>1, AuthenticatedStarts
  <2>8. ASSUME NEW j \in DOMAIN sessions, Revoke(w, i, j) PROVE IInv'
    <3>1. {j} \in SUBSET Nat
      BY <1>0, SessionTyped
    <3>2. Active(i) /\ StartsWith(w, <<"session", i>>, "end", 0, AnyDevice, 0, "sessions", {j})
      BY <2>8 DEF Revoke, Authenticated, StartsWith
    <3> QED
      BY <2>1, <3>1, <3>2, AuthenticatedStarts
  <2>9. ASSUME NEW d \in Device, RevokeDevice(w, i, d) PROVE IInv'
    <3>1. Active(i) /\ StartsWith(w, <<"session", i>>, "revokeDevice", 0, d, 0, "lockDevice", {})
      BY <2>9 DEF RevokeDevice, Authenticated, StartsWith
    <3> QED
      BY <2>1, <3>1, AuthenticatedStarts
  <2> QED
    BY <1>1, <2>2, <2>3, <2>4, <2>5, <2>6, <2>7, <2>8, <2>9
<1>2. ASSUME NEW j \in DOMAIN sessions, RevokePlatformSession(w, j) PROVE IInv'
  <2>1. {j} \in SUBSET Nat /\ <<"session", j>> \in Kinds \X (Device \union Nat) /\ 0 \in Nat
    BY <1>0, SessionTyped
  <2>2. Proper(Begun("end", 0, AnyDevice, 0, "sessions", {j}, {<<"session", j>>}))
    BY <2>1, StatementsOf, BegunProper
  <2>3. Held(Begun("end", 0, AnyDevice, 0, "sessions", {j}, {<<"session", j>>}))
    BY <2>2 DEF Held, OnSession, OnPreKey, OnChallenge, OnCredential, OnDevice, OnEnd, OnLinks,
                Begun
  <2>5. StartsWith(w, <<"session", j>>, "end", 0, AnyDevice, 0, "sessions", {j})
    BY <1>2 DEF RevokePlatformSession, StartsWith
  <2> QED
    BY <2>3, <2>5, Starts
<1>3. CASE RevokePlatformSessions(w)
  <2>1. Proper(Begun("end", 0, AnyDevice, 0, "select", {}, {}))
    BY StatementsOf, BegunProper
  <2>2. Held(Begun("end", 0, AnyDevice, 0, "select", {}, {}))
    BY <2>1 DEF Held, OnSession, OnPreKey, OnChallenge, OnCredential, OnDevice, OnEnd, OnLinks,
                Begun
  <2> QED
    BY <1>3, <2>2, StartsUnlocked DEF RevokePlatformSessions
<1>4. ASSUME NEW d \in Device, Login(w, d) PROVE IInv'
  <2>1. Proper(Begun("login", 0, d, 0, "device", {}, {Identity}))
    BY StatementsOf, OtherRowsTyped, BegunProper
  <2>2. Held(Begun("login", 0, d, 0, "device", {}, {Identity}))
    BY <2>1 DEF Held, OnSession, OnPreKey, OnChallenge, OnCredential, OnDevice, OnEnd, OnLinks,
                Begun
  <2>5. StartsWith(w, Identity, "login", 0, d, 0, "device", {})
    BY <1>4 DEF Login, StartsWith
  <2> QED
    BY <2>2, <2>5, Starts
<1>5. ASSUME NEW d \in Device, OtpVerify(w, d) PROVE IInv'
  <2>1. Proper(Begun("otp", 0, d, 0, "identity", {}, {Otp}))
    <3>1. {Otp} \in SUBSET (Kinds \X (Device \union Nat))
      BY OtherRowsTyped
    <3>2. "otp" \in DOMAIN Statements /\ "identity" \in Statements["otp"]
      BY StatementsOf
    <3> QED
      BY <3>1, <3>2, BegunProper
  <2>2. Held(Begun("otp", 0, d, 0, "identity", {}, {Otp}))
    BY <1>5, <2>1
       DEF Held, OnSession, OnPreKey, OnChallenge, OnCredential, OnDevice, OnEnd, OnLinks,
           Begun, OtpVerify
  <2>5. StartsWith(w, Otp, "otp", 0, d, 0, "identity", {})
    BY <1>5 DEF OtpVerify, StartsWith
  <2> QED
    BY <2>2, <2>5, Starts
<1>6. ASSUME NEW d \in Device, FetchPreKey(w, d) PROVE IInv'
  <2>1. Proper(Begun("fetch", 0, d, 0, "give", {}, {PreKey(d)}))
    <3>1. {PreKey(d)} \in SUBSET (Kinds \X (Device \union Nat))
      BY OtherRowsTyped
    <3>2. "fetch" \in DOMAIN Statements /\ "give" \in Statements["fetch"]
      BY StatementsOf
    <3> QED
      BY <3>1, <3>2, BegunProper
  <2>2. Held(Begun("fetch", 0, d, 0, "give", {}, {PreKey(d)}))
    BY <1>6, <2>1
       DEF Held, OnSession, OnPreKey, OnChallenge, OnCredential, OnDevice, OnEnd, OnLinks,
           Begun, FetchPreKey
  <2>5. StartsWith(w, PreKey(d), "fetch", 0, d, 0, "give", {})
    BY <1>6 DEF FetchPreKey, StartsWith
  <2> QED
    BY <2>2, <2>5, Starts
<1>7. CASE ConsumeQR(w)
  <2>1. qr.by \in Nat /\ qr.device \in Device
    BY <1>0, <1>7 DEF TypeOK, ConsumeQR
  <2>2. Proper(Begun("qr", qr.by, qr.device, 0, "device", {}, {QR}))
    BY <2>1, StatementsOf, OtherRowsTyped, BegunProper
  <2>3. Held(Begun("qr", qr.by, qr.device, 0, "device", {}, {QR}))
    BY <1>7, <2>2
       DEF Held, OnSession, OnPreKey, OnChallenge, OnCredential, OnDevice, OnEnd, OnLinks,
           Begun, ConsumeQR
  <2>5. StartsWith(w, QR, "qr", qr.by, qr.device, 0, "device", {})
    BY <1>7 DEF ConsumeQR, StartsWith
  <2> QED
    BY <2>3, <2>5, Starts
<1>8. ASSUME NEW kind \in {"reset", "verify"},
             Start(w, Identity, Command(kind, 0, AnyDevice, 0, "links"))
      PROVE  IInv'
  <2>1. Proper(Begun(kind, 0, AnyDevice, 0, "links", {}, {Identity}))
    <3>1. {Identity} \in SUBSET (Kinds \X (Device \union Nat))
      BY OtherRowsTyped
    <3>2. kind \in DOMAIN Statements /\ "links" \in Statements[kind]
      BY StatementsOf
    <3> QED
      BY <3>1, <3>2, BegunProper
  <2>2. Held(Begun(kind, 0, AnyDevice, 0, "links", {}, {Identity}))
    BY <2>1 DEF Held, OnSession, OnPreKey, OnChallenge, OnCredential, OnDevice, OnEnd, OnLinks,
                Begun
  <2>5. StartsWith(w, Identity, kind, 0, AnyDevice, 0, "links", {})
    BY <1>8 DEF StartsWith
  <2> QED
    BY <2>2, <2>5, Starts
<1>9. ASSUME NEW c \in DOMAIN credentials, Refresh(w, c) PROVE IInv'
  <2>1. /\ c \in Nat /\ credentials[c].session \in Nat /\ credentials[c].session \in DOMAIN sessions
        /\ <<"credential", c>> \in Kinds \X (Device \union Nat)
        /\ credentials[c] = Issued(credentials[c].session)
    BY <1>0, <1>9, CredentialTyped, SessionTyped DEF Issued, Refresh
  <2>2. PICK i \in Nat : i = credentials[c].session
    BY <2>1
  <2>3. Proper(Begun("refresh", i, AnyDevice, c, "session", {}, {<<"credential", c>>}))
    BY <2>1, StatementsOf, BegunProper
  <2>4. Held(Begun("refresh", i, AnyDevice, c, "session", {}, {<<"credential", c>>}))
    BY <2>1, <2>2, <2>3
       DEF Held, OnSession, OnPreKey, OnChallenge, OnCredential, OnDevice, OnEnd, OnLinks, Begun
  <2>5. StartsWith(w, <<"credential", c>>, "refresh", i, AnyDevice, c, "session", {})
    BY <1>9, <2>2 DEF Refresh, StartsWith
  <2> QED
    BY <2>4, <2>5, Starts
<1>10. ASSUME NEW l \in DOMAIN links, UseLink(w, l) PROVE IInv'
  <2>1. PICK kind \in {"reset", "verify"} : kind = links[l].to
    BY <1>0, LinkTyped
  <2>2. l \in Nat /\ <<"link", l>> \in Kinds \X (Device \union Nat)
    BY <1>0, LinkTyped
  <2>3. Proper(Begun(kind, 0, AnyDevice, l, "identity", {}, {<<"link", l>>}))
    BY <2>2, StatementsOf, BegunProper
  <2>4. Held(Begun(kind, 0, AnyDevice, l, "identity", {}, {<<"link", l>>}))
    BY <2>3
       DEF Held, OnSession, OnPreKey, OnChallenge, OnCredential, OnDevice, OnEnd, OnLinks, Begun
  <2>5. StartsWith(w, <<"link", l>>, kind, 0, AnyDevice, l, "identity", {})
    BY <1>10, <2>1 DEF UseLink, StartsWith
  <2> QED
    BY <2>4, <2>5, Starts
<1> QED
  BY <1>1, <1>2, <1>3, <1>4, <1>5, <1>6, <1>7, <1>8, <1>9, <1>10
     DEF Begin, ForgotPassword, ResendVerification

-----------------------------------------------------------------------------
(* How a command goes on.                                                  *)

\* With a row more, at another statement.
LEMMA Locks ==
  ASSUME IInv, NEW w \in Workers, tx[w] # NoTx, NEW row \in Kinds \X (Device \union Nat),
         NEW next, next \in Statements[tx[w].op], Lock(w, row, next),
         tx[w].next \notin {"sessions", "lockLinks"}
  PROVE  \E t \in TxType :
            /\ tx' = [tx EXCEPT ![w] = t]
            /\ t.op = tx[w].op /\ t.self = tx[w].self /\ t.device = tx[w].device
            /\ t.used = tx[w].used /\ t.todo = tx[w].todo /\ t.ended = tx[w].ended
            /\ t.rows = tx[w].rows \union {row} /\ t.next = next
            /\ Proper(t)
            /\ \A v \in Workers \ {w} : tx[v] # NoTx => tx[v].rows \intersect t.rows = {}
<1>1. Proper(tx[w]) /\ tx[w] \in TxType
  BY OneTx DEF Held
<1>2. next \in UNION {Statements[x] : x \in DOMAIN Statements}
  BY <1>1 DEF Proper, TxType
<1>3. PICK t : t = [tx[w] EXCEPT !.rows = @ \union {row}, !.next = next]
  OBVIOUS
<1>4. /\ t \in TxType
      /\ t.op = tx[w].op /\ t.self = tx[w].self /\ t.device = tx[w].device
      /\ t.used = tx[w].used /\ t.todo = tx[w].todo /\ t.ended = tx[w].ended
      /\ t.rows = tx[w].rows \union {row} /\ t.next = next
  BY <1>1, <1>2, <1>3 DEF TxType
<1>5. tx' = [tx EXCEPT ![w] = t]
  BY <1>3 DEF Lock
<1>6. \A v \in Workers \ {w} : tx[v] # NoTx => tx[v].rows \intersect t.rows = {}
  BY <1>4 DEF Lock, Free, IInv, Exclusive
<1> QED
  BY <1>1, <1>4, <1>5, <1>6 DEF Proper

\* Without another row.
LEMMA Selects ==
  ASSUME IInv, NEW w \in Workers, tx[w] # NoTx, NEW t, Held(t), t.rows = tx[w].rows,
         tx' = [tx EXCEPT ![w] = t], UNCHANGED <<tables, begun>>
  PROVE  IInv'
<1>1. \A v \in Workers \ {w} : tx[v] # NoTx => tx[v].rows \intersect t.rows = {}
  BY DEF IInv, Exclusive
<1>2. begun' \in Nat
  BY DEF IInv, TypeOK
<1> QED
  BY <1>1, <1>2, Continues

LEMMA GoesOn ==
  ASSUME IInv, NEW w \in Workers, tx[w] # NoTx, NEW t, Held(t),
         tx' = [tx EXCEPT ![w] = t], UNCHANGED <<tables, begun>>,
         \A v \in Workers \ {w} : tx[v] # NoTx => tx[v].rows \intersect t.rows = {}
  PROVE  IInv'
<1>1. begun' \in Nat
  BY DEF IInv, TypeOK
<1> QED
  BY <1>1, Continues

\* One of those selected.
LEMMA LocksSelected ==
  ASSUME IInv, NEW w \in Workers, tx[w] # NoTx, tx[w].next \in {"sessions", "lockLinks"},
         NEW kind \in Kinds, NEW k \in Nat, LockSelected(w, kind, k)
  PROVE  \E t \in TxType :
            /\ tx' = [tx EXCEPT ![w] = t]
            /\ t.op = tx[w].op /\ t.self = tx[w].self /\ t.device = tx[w].device
            /\ t.used = tx[w].used /\ t.next = tx[w].next
            /\ t.todo = tx[w].todo \ {k} /\ t.ended = tx[w].ended \union {k}
            /\ t.rows = tx[w].rows \union {<<kind, k>>}
            /\ Proper(t)
            /\ \A v \in Workers \ {w} : tx[v] # NoTx => tx[v].rows \intersect t.rows = {}
<1>1. Proper(tx[w]) /\ tx[w] \in TxType
  BY OneTx DEF Held
<1>2. PICK t : t = [tx[w] EXCEPT !.rows = @ \union {<<kind, k>>}, !.todo = @ \ {k},
                                 !.ended = @ \union {k}]
  OBVIOUS
<1>3. <<kind, k>> \in Kinds \X (Device \union Nat)
  OBVIOUS
<1>4. /\ t \in TxType
      /\ t.op = tx[w].op /\ t.self = tx[w].self /\ t.device = tx[w].device
      /\ t.used = tx[w].used /\ t.next = tx[w].next
      /\ t.todo = tx[w].todo \ {k} /\ t.ended = tx[w].ended \union {k}
      /\ t.rows = tx[w].rows \union {<<kind, k>>}
  BY <1>1, <1>2, <1>3 DEF TxType
<1>5. tx' = [tx EXCEPT ![w] = t]
  BY <1>2 DEF LockSelected
<1>6. \A v \in Workers \ {w} : tx[v] # NoTx => tx[v].rows \intersect t.rows = {}
  BY <1>4 DEF LockSelected, Free, IInv, Exclusive
<1> QED
  BY <1>1, <1>4, <1>5, <1>6 DEF Proper

LEMMA GoOnStep ==
  ASSUME IInv, NEW w \in Workers, Step(w)
  PROVE  IInv'
<1> USE DEF At
<1>0. TypeOK
  BY DEF IInv
<1>1. CASE LockIdentity(w)
  <2>1. tx[w] # NoTx /\ tx[w].next = "identity"
    BY <1>1 DEF LockIdentity
  <2>2. Held(tx[w]) /\ tx[w].op \in {"otp", "reset", "verify"}
    BY <2>1, OneTx, StatementsOf DEF Held, Proper, TxType
  <2>3. PICK next \in Statements[tx[w].op] :
            /\ Lock(w, Identity, next)
            /\ \/ tx[w].op = "reset" /\ next = "select"
               \/ tx[w].op = "verify" /\ next = "verified"
               \/ tx[w].op = "otp" /\ next = "device"
    BY <1>1, <2>2, StatementsOf DEF LockIdentity
  <2>4. PICK t \in TxType :
            /\ tx' = [tx EXCEPT ![w] = t]
            /\ t.op = tx[w].op /\ t.self = tx[w].self /\ t.device = tx[w].device
            /\ t.used = tx[w].used /\ t.todo = tx[w].todo /\ t.ended = tx[w].ended
            /\ t.rows = tx[w].rows \union {Identity} /\ t.next = next
            /\ Proper(t)
            /\ \A v \in Workers \ {w} : tx[v] # NoTx => tx[v].rows \intersect t.rows = {}
    BY <2>1, <2>3, Locks, OtherRowsTyped
  <2>5. Held(t)
    BY <2>1, <2>2, <2>3, <2>4
       DEF Held, OnSession, OnPreKey, OnChallenge, OnCredential, OnDevice, OnEnd, OnLinks
  <2> QED
    BY <2>1, <2>3, <2>4, <2>5, GoesOn DEF Lock
<1>2. CASE LockDevice(w)
  <2>1. tx[w] # NoTx /\ tx[w].next = "lockDevice"
    BY <1>2 DEF LockDevice
  <2>2. /\ Held(tx[w]) /\ tx[w].op = "revokeDevice"
        /\ "select" \in Statements[tx[w].op] /\ tx[w].device \in Device
    BY <2>1, OneTx, StatementsOf DEF Held, Proper, TxType
  <2>3. PICK d \in Device : d = tx[w].device /\ Lock(w, <<"device", d>>, "select")
    BY <1>2, <2>2 DEF LockDevice
  <2>4. PICK t \in TxType :
            /\ tx' = [tx EXCEPT ![w] = t]
            /\ t.op = tx[w].op /\ t.self = tx[w].self /\ t.device = tx[w].device
            /\ t.used = tx[w].used /\ t.todo = tx[w].todo /\ t.ended = tx[w].ended
            /\ t.rows = tx[w].rows \union {<<"device", d>>} /\ t.next = "select"
            /\ Proper(t)
            /\ \A v \in Workers \ {w} : tx[v] # NoTx => tx[v].rows \intersect t.rows = {}
    BY <2>1, <2>2, <2>3, Locks, OtherRowsTyped
  <2>5. Held(t)
    BY <2>1, <2>2, <2>3, <2>4
       DEF Held, OnSession, OnPreKey, OnChallenge, OnCredential, OnDevice, OnEnd, OnLinks
  <2> QED
    BY <2>1, <2>3, <2>4, <2>5, GoesOn DEF Lock
<1>3. CASE SelectSessions(w)
  <2>1. tx[w] # NoTx /\ tx[w].next = "select"
    BY <1>3 DEF SelectSessions
  <2>2. /\ Held(tx[w]) /\ tx[w] \in TxType /\ tx[w].op \in {"end", "revokeDevice", "reset"}
        /\ "sessions" \in Statements[tx[w].op] /\ tx[w].ended = {}
    BY <2>1, OneTx, StatementsOf DEF Held, Proper, TxType
  <2>3. PICK selected \in SUBSET Nat :
            selected = {i \in DOMAIN sessions :
                            Active(i) /\ tx[w].device \in {AnyDevice, sessions[i].device}}
    BY <1>0, SessionTyped
  <2>4. PICK t : t = [tx[w] EXCEPT !.next = "sessions", !.todo = selected]
    OBVIOUS
  <2>5. "sessions" \in UNION {Statements[x] : x \in DOMAIN Statements}
    BY StatementsOf
  <2>6. /\ t \in TxType /\ t.next = "sessions" /\ t.todo = selected
        /\ t.op = tx[w].op /\ t.self = tx[w].self /\ t.device = tx[w].device
        /\ t.used = tx[w].used /\ t.ended = tx[w].ended /\ t.rows = tx[w].rows
    BY <2>2, <2>4, <2>5 DEF TxType
  <2>7. Proper(t)
    BY <2>2, <2>6 DEF Held, Proper
  <2>8. Held(t)
    BY <2>1, <2>2, <2>3, <2>6, <2>7
       DEF Held, Proper, OnSession, OnPreKey, OnChallenge, OnCredential, OnDevice, OnEnd, OnLinks
  <2>9. tx' = [tx EXCEPT ![w] = t]
    BY <1>3, <2>3, <2>4 DEF SelectSessions
  <2> QED
    BY <1>3, <2>1, <2>6, <2>8, <2>9, Selects DEF SelectSessions
<1>4. ASSUME NEW i \in DOMAIN sessions, LockSession(w, i) PROVE IInv'
  <2>1. tx[w] # NoTx /\ tx[w].next = "sessions" /\ LockSelected(w, "session", i)
    BY <1>4 DEF LockSession
  <2>2. Held(tx[w]) /\ i \in Nat /\ "session" \in Kinds
    BY <1>0, <2>1, OneTx, SessionTyped DEF Kinds
  <2>3. PICK t \in TxType :
            /\ tx' = [tx EXCEPT ![w] = t]
            /\ t.op = tx[w].op /\ t.self = tx[w].self /\ t.device = tx[w].device
            /\ t.used = tx[w].used /\ t.next = tx[w].next
            /\ t.todo = tx[w].todo \ {i} /\ t.ended = tx[w].ended \union {i}
            /\ t.rows = tx[w].rows \union {<<"session", i>>}
            /\ Proper(t)
            /\ \A v \in Workers \ {w} : tx[v] # NoTx => tx[v].rows \intersect t.rows = {}
    BY <2>1, <2>2, LocksSelected
  <2>4. Held(t)
    BY <2>1, <2>2, <2>3
       DEF Held, OnSession, OnPreKey, OnChallenge, OnCredential, OnDevice, OnEnd, OnLinks
  <2> QED
    BY <2>1, <2>3, <2>4, GoesOn DEF LockSelected
<1>5. CASE LockRefreshed(w)
  <2>1. tx[w] # NoTx /\ tx[w].next = "session"
    BY <1>5 DEF LockRefreshed
  <2>2. /\ Held(tx[w]) /\ tx[w].op = "refresh" /\ "rotate" \in Statements[tx[w].op]
    BY <2>1, OneTx, StatementsOf DEF Held, Proper, TxType
  <2>3. tx[w].self \in DOMAIN sessions
    <3>1. tx[w].used \in DOMAIN credentials /\ credentials[tx[w].used] = Issued(tx[w].self)
      BY <2>2 DEF Held, OnCredential
    <3>2. credentials[tx[w].used].session = tx[w].self
      BY <3>1 DEF Issued
    <3> QED
      BY <1>0, <3>1, <3>2, CredentialTyped
  <2>4. PICK i \in DOMAIN sessions :
            i = tx[w].self /\ Active(i) /\ Lock(w, <<"session", i>>, "rotate")
    BY <1>5, <2>3 DEF LockRefreshed
  <2>5. <<"session", i>> \in Kinds \X (Device \union Nat)
    BY <1>0, SessionTyped
  <2>6. PICK t \in TxType :
            /\ tx' = [tx EXCEPT ![w] = t]
            /\ t.op = tx[w].op /\ t.self = tx[w].self /\ t.device = tx[w].device
            /\ t.used = tx[w].used /\ t.todo = tx[w].todo /\ t.ended = tx[w].ended
            /\ t.rows = tx[w].rows \union {<<"session", i>>} /\ t.next = "rotate"
            /\ Proper(t)
            /\ \A v \in Workers \ {w} : tx[v] # NoTx => tx[v].rows \intersect t.rows = {}
    BY <2>1, <2>2, <2>4, <2>5, Locks
  <2>7. Held(t)
    BY <2>1, <2>2, <2>4, <2>6
       DEF Held, OnSession, OnPreKey, OnChallenge, OnCredential, OnDevice, OnEnd, OnLinks
  <2> QED
    BY <2>1, <2>4, <2>6, <2>7, GoesOn DEF Lock
<1>6. CASE SelectLinks(w)
  <2>1. tx[w] # NoTx /\ tx[w].next = "links"
    BY <1>6 DEF SelectLinks
  <2>2. /\ Held(tx[w]) /\ tx[w] \in TxType /\ tx[w].op \in {"reset", "verify"}
        /\ "lockLinks" \in Statements[tx[w].op] /\ tx[w].ended = {}
    BY <2>1, OneTx, StatementsOf DEF Held, Proper, TxType
  <2>3. PICK selected \in SUBSET Nat :
            selected = {l \in DOMAIN links : links[l] = [to |-> tx[w].op, status |-> "open"]}
    BY <1>0, LinkTyped
  <2>4. PICK t : t = [tx[w] EXCEPT !.next = "lockLinks", !.todo = selected]
    OBVIOUS
  <2>5. "lockLinks" \in UNION {Statements[x] : x \in DOMAIN Statements}
    BY StatementsOf
  <2>6. /\ t \in TxType /\ t.next = "lockLinks" /\ t.todo = selected
        /\ t.op = tx[w].op /\ t.self = tx[w].self /\ t.device = tx[w].device
        /\ t.used = tx[w].used /\ t.ended = tx[w].ended /\ t.rows = tx[w].rows
    BY <2>2, <2>4, <2>5 DEF TxType
  <2>7. Proper(t)
    BY <2>2, <2>6 DEF Held, Proper
  <2>8. Held(t)
    BY <2>1, <2>2, <2>3, <2>6, <2>7
       DEF Held, Proper, OnSession, OnPreKey, OnChallenge, OnCredential, OnDevice, OnEnd, OnLinks,
           Open
  <2>9. tx' = [tx EXCEPT ![w] = t]
    BY <1>6, <2>3, <2>4 DEF SelectLinks
  <2> QED
    BY <1>6, <2>1, <2>6, <2>8, <2>9, Selects DEF SelectLinks
<1>7. ASSUME NEW l \in DOMAIN links, LockLink(w, l) PROVE IInv'
  <2>1. tx[w] # NoTx /\ tx[w].next = "lockLinks" /\ LockSelected(w, "link", l)
    BY <1>7 DEF LockLink
  <2>2. Held(tx[w]) /\ l \in Nat /\ "link" \in Kinds
    BY <1>0, <2>1, OneTx, LinkTyped DEF Kinds
  <2>3. PICK t \in TxType :
            /\ tx' = [tx EXCEPT ![w] = t]
            /\ t.op = tx[w].op /\ t.self = tx[w].self /\ t.device = tx[w].device
            /\ t.used = tx[w].used /\ t.next = tx[w].next
            /\ t.todo = tx[w].todo \ {l} /\ t.ended = tx[w].ended \union {l}
            /\ t.rows = tx[w].rows \union {<<"link", l>>}
            /\ Proper(t)
            /\ \A v \in Workers \ {w} : tx[v] # NoTx => tx[v].rows \intersect t.rows = {}
    BY <2>1, <2>2, LocksSelected
  <2>4. Held(t)
    BY <2>1, <2>2, <2>3
       DEF Held, OnSession, OnPreKey, OnChallenge, OnCredential, OnDevice, OnEnd, OnLinks
  <2> QED
    BY <2>1, <2>3, <2>4, GoesOn DEF LockSelected
<1>8. CASE FindDevice(w) \/ NewDevice(w)
  <2>1. tx[w] # NoTx /\ tx[w].next \in {"device", "newDevice"}
    BY <1>8 DEF FindDevice, NewDevice
  <2>2. /\ Held(tx[w]) /\ tx[w] \in TxType /\ tx[w].op \in {"login", "otp", "qr"}
        /\ {"newDevice", "insert"} \subseteq Statements[tx[w].op] /\ tx[w].device \in Device
    BY <2>1, OneTx, StatementsOf DEF Held, Proper, TxType
  <2>3. CASE NoRow(w)
    <3>1. PICK t : t = [tx[w] EXCEPT !.next = "newDevice"]
      OBVIOUS
    <3>2. "newDevice" \in UNION {Statements[x] : x \in DOMAIN Statements}
      BY StatementsOf
    <3>3. /\ t \in TxType /\ t.next = "newDevice"
          /\ t.op = tx[w].op /\ t.self = tx[w].self /\ t.device = tx[w].device
          /\ t.used = tx[w].used /\ t.todo = tx[w].todo /\ t.ended = tx[w].ended
          /\ t.rows = tx[w].rows
      BY <2>2, <3>1, <3>2 DEF TxType
    <3>4. Proper(t)
      BY <2>1, <2>2, <3>3 DEF Held, Proper
    <3>5. Held(t)
      BY <2>1, <2>2, <3>3, <3>4
         DEF Held, OnSession, OnPreKey, OnChallenge, OnCredential, OnDevice, OnEnd, OnLinks
    <3>6. tx' = [tx EXCEPT ![w] = t] /\ UNCHANGED <<tables, begun>>
      BY <2>3, <3>1 DEF NoRow
    <3> QED
      BY <2>1, <3>3, <3>5, <3>6, Selects
  <2>4. CASE ~NoRow(w)
    <3>1. PICK d \in Device : d = tx[w].device /\ device[d] # "REVOKED"
                                /\ Lock(w, <<"device", d>>, "insert")
      BY <1>8, <2>2, <2>4 DEF FindDevice, NewDevice
    <3>2. PICK t \in TxType :
            /\ tx' = [tx EXCEPT ![w] = t]
            /\ t.op = tx[w].op /\ t.self = tx[w].self /\ t.device = tx[w].device
            /\ t.used = tx[w].used /\ t.todo = tx[w].todo /\ t.ended = tx[w].ended
            /\ t.rows = tx[w].rows \union {<<"device", d>>} /\ t.next = "insert"
            /\ Proper(t)
            /\ \A v \in Workers \ {w} : tx[v] # NoTx => tx[v].rows \intersect t.rows = {}
      <4>1. <<"device", d>> \in Kinds \X (Device \union Nat) /\ "insert" \in Statements[tx[w].op]
        BY <2>2, OtherRowsTyped
      <4> QED
        BY <2>1, <3>1, <4>1, Locks
    <3>3. Held(t)
      BY <2>1, <2>2, <3>1, <3>2
         DEF Held, OnSession, OnPreKey, OnChallenge, OnCredential, OnDevice, OnEnd, OnLinks
    <3> QED
      BY <2>1, <3>1, <3>2, <3>3, GoesOn DEF Lock
  <2> QED
    BY <2>3, <2>4
<1> QED
  BY <1>1, <1>2, <1>3, <1>4, <1>5, <1>6, <1>7, <1>8 DEF Step

-----------------------------------------------------------------------------
(* What a commit leaves to the transactions that are still open.           *)

LEMMA Others ==
  ASSUME IInv, NEW w \in Workers, tx[w] # NoTx, NEW v \in Workers \ {w}, tx[v] # NoTx
  PROVE  \E t : /\ t = tx[v] /\ Held(t) /\ t.rows \intersect tx[w].rows = {}
                /\ \A row : Free(w, row) => row \notin t.rows
  BY OneTx DEF IInv, Exclusive, Free

\* The other sessions, credentials and links are those that there were.
LEMMA Appended ==
  ASSUME NEW S, NEW s \in Seq(S), NEW x \in S
  PROVE  /\ Append(s, x) \in Seq(S) /\ Len(s) \in Nat
         /\ DOMAIN Append(s, x) = DOMAIN s \union {Len(s) + 1} /\ Len(s) + 1 \notin DOMAIN s
         /\ \A i \in DOMAIN s : Append(s, x)[i] = s[i]
         /\ Append(s, x)[Len(s) + 1] = x
  OBVIOUS

LEMMA CreateSessionStep ==
  ASSUME IInv, NEW w \in Workers, CreateSession(w)
  PROVE  IInv'
<1> DEFINE n == Len(sessions) + 1
           m == Len(credentials) + 1
<1>0. TypeOK
  BY DEF IInv
<1>1. tx[w] # NoTx /\ tx[w].next = "insert" /\ tx' = [tx EXCEPT ![w] = NoTx] /\ begun' = begun
  BY DEF CreateSession, At, Commit
<1>2. Held(tx[w]) /\ tx[w].op \in {"login", "otp", "qr", "context"} /\ tx[w].device \in Device
  BY <1>1, OneTx, StatementsOf DEF Held, Proper, TxType
<1>3. PICK op \in {"login", "otp", "qr", "context"}, d \in Device :
          op = tx[w].op /\ d = tx[w].device
  BY <1>2
<1>4. /\ sessions' \in Seq(SessionType) /\ n \in Nat
      /\ DOMAIN sessions' = DOMAIN sessions \union {n} /\ n \notin DOMAIN sessions
      /\ \A i \in DOMAIN sessions : sessions'[i] = sessions[i]
      /\ sessions'[n] = [device |-> d, status |-> "ACTIVE", by |-> op]
  <2>1. [device |-> d, status |-> "ACTIVE", by |-> op] \in SessionType
    BY DEF SessionType
  <2>2. sessions' = Append(sessions, [device |-> d, status |-> "ACTIVE", by |-> op])
    BY <1>3 DEF CreateSession
  <2> QED
    BY <1>0, <2>1, <2>2, RowsTyped, Appended
<1>5. /\ credentials' \in Seq(CredentialType)
      /\ DOMAIN credentials' = DOMAIN credentials \union {m} /\ m \notin DOMAIN credentials
      /\ \A c \in DOMAIN credentials : credentials'[c] = credentials[c]
      /\ credentials'[m] = Issued(n)
  <2>1. Issued(n) \in CredentialType
    BY <1>4 DEF Issued, CredentialType
  <2>2. credentials' = Append(credentials, Issued(n))
    BY DEF CreateSession
  <2> QED
    BY <1>0, <2>1, <2>2, RowsTyped, Appended
<1> HIDE DEF n, m
<1>6. /\ device' = [device EXCEPT ![d] = IF @ = "none" THEN "ACTIVE" ELSE @]
      /\ otp' = (IF op = "otp" THEN "VERIFIED" ELSE otp)
      /\ qr' = (IF op = "qr" THEN [qr EXCEPT !.status = "CONSUMED"] ELSE qr)
      /\ UNCHANGED <<bundle, prekey, given, links, password, verified>>
      /\ Free(w, Identity) /\ Free(w, <<"device", d>>)
  BY <1>3 DEF CreateSession, Refers, keys, account
<1>7. /\ device' \in [Device -> {"none", "ACTIVE", "REVOKED"}]
      /\ \A e \in Device : device'[e] = "REVOKED" <=> device[e] = "REVOKED"
  BY <1>0, <1>6 DEF TypeOK
<1>8. device[d] # "REVOKED"
  BY <1>1, <1>2, <1>3 DEF Held, OnSession, OnDevice, IInv, RevokedDeviceIsSilent
<1>9. TxInv' /\ Exclusive'
  <2> SUFFICES ASSUME NEW v \in Workers \ {w}, tx[v] # NoTx
               PROVE  \E t : t = tx[v] /\ Held(t)'
    BY <1>1, Ends
  <2>1. PICK t : /\ t = tx[v] /\ Held(t) /\ t.rows \intersect tx[w].rows = {}
                 /\ \A row : Free(w, row) => row \notin t.rows
    BY <1>1, Others
  <2>2. Proper(t)' /\ OnPreKey(t)' /\ OnLinks(t)'
    BY <1>6, <2>1 DEF Held, Proper, OnPreKey, OnLinks, Open
  <2>3. OnSession(t)'
    BY <1>4, <2>1 DEF Held, OnSession, Active
  <2>4. OnChallenge(t)'
    BY <1>2, <1>3, <1>6, <2>1 DEF Held, OnChallenge
  <2>5. OnCredential(t)'
    <3> SUFFICES ASSUME t.op = "refresh" PROVE OnCredential(t)'
      BY DEF OnCredential
    <3>1. t.used \in DOMAIN credentials /\ credentials[t.used] = Issued(t.self)
      BY <2>1 DEF Held, OnCredential
    <3>2. credentials[t.used].session = t.self
      BY <3>1 DEF Issued
    <3>3. t.self \in DOMAIN sessions
      BY <1>0, <3>1, <3>2, CredentialTyped
    <3> QED
      BY <1>4, <1>5, <2>1, <3>1, <3>3 DEF Held, OnCredential, Active, Issued
  <2>6. OnDevice(t)'
    <3>1. t.next = "insert" /\ t.op # "context" => t.device \in Device
      BY <2>1, StatementsOf DEF Held, Proper, TxType
    <3> QED
      BY <1>7, <2>1, <3>1 DEF Held, OnDevice
  <2>7. OnEnd(t)'
    BY <1>4, <1>6, <2>1 DEF Held, OnEnd, OnDevice, Active
  <2> QED
    BY <2>1, <2>2, <2>3, <2>4, <2>5, <2>6, <2>7 DEF Held
<1>10. TypeOK'
  <2>1. \A c \in DOMAIN credentials' : credentials'[c].session \in DOMAIN sessions'
    <3>1. \A c \in DOMAIN credentials : credentials'[c].session \in DOMAIN sessions'
      BY <1>0, <1>4, <1>5, CredentialTyped
    <3>2. credentials'[m].session = n
      BY <1>5 DEF Issued
    <3> QED
      BY <1>4, <1>5, <3>1, <3>2
  <2>2. otp' \in {"none", "PENDING", "VERIFIED"}
    BY <1>0, <1>6 DEF TypeOK
  <2>3. /\ qr' \in [status : {"none", "PENDING", "AUTHORIZED", "CONSUMED", "EXPIRED"},
                    by : Nat, device : Device \union {AnyDevice}]
        /\ qr'.status # "none" => qr'.device \in Device
    <3>1. CASE op = "qr"
      BY <1>0, <1>2, <1>3, <1>6, <3>1 DEF TypeOK, Held, OnChallenge
    <3>2. CASE op # "qr"
      BY <1>0, <1>6, <3>2 DEF TypeOK
    <3> QED
      BY <3>1, <3>2
  <2>4. /\ sessions' \in Seq([device : Device, status : {"ACTIVE", "REVOKED"},
                              by : {"login", "otp", "qr", "context"}])
        /\ credentials' \in Seq([session : Nat, status : {"ACTIVE", "ROTATED", "REVOKED"}])
    BY <1>4, <1>5 DEF SessionType, CredentialType
  <2>5. /\ bundle' \subseteq Device /\ prekey' \in [Device -> {"none", "stored", "consumed"}]
        /\ given' \in [Device -> Nat]
        /\ links' \in Seq([to : {"reset", "verify"}, status : {"open", "consumed"}])
        /\ password' \in Nat /\ verified' \in BOOLEAN /\ begun' \in Nat
    BY <1>0, <1>1, <1>6 DEF TypeOK
  <2> QED
    BY <1>7, <2>1, <2>2, <2>3, <2>4, <2>5 DEF TypeOK
<1>11. LiveInv'
  <2>1. \A i \in DOMAIN sessions' : Active(i)' => \E c \in DOMAIN credentials' : Live(c, i)'
    BY <1>4, <1>5 DEF IInv, LiveInv, Live, Active, Issued
  <2>2. ASSUME NEW c \in DOMAIN credentials', credentials'[c].status = "ACTIVE"
        PROVE  /\ Active(credentials[c].session)'
               /\ \A other \in DOMAIN credentials' :
                     Live(other, credentials[c].session)' => other = c
    <3>1. \A x \in DOMAIN credentials : credentials[x].session \in DOMAIN sessions
      BY <1>0, CredentialTyped
    <3>2. CASE c = m
      BY <1>4, <1>5, <3>1, <3>2 DEF Live, Active, Issued
    <3>3. CASE c \in DOMAIN credentials
      BY <1>4, <1>5, <2>2, <3>1, <3>3 DEF IInv, LiveInv, Live, Active, Issued
    <3> QED
      BY <1>5, <3>2, <3>3
  <2> QED
    BY <2>1, <2>2 DEF LiveInv
<1>12. RevokedDeviceIsSilent'
  BY <1>4, <1>6, <1>7, <1>8 DEF IInv, RevokedDeviceIsSilent, Active
<1>13. ChallengeInv'
  <2>1. /\ op = "otp" => otp = "PENDING"
        /\ op = "qr" => qr.status = "AUTHORIZED"
    BY <1>2, <1>3 DEF Held, OnChallenge
  <2>2. /\ op = "otp" => otp' = "VERIFIED"
        /\ op = "qr" => qr'.status = "CONSUMED"
        /\ op # "otp" => otp' = otp
        /\ op # "qr" => qr' = qr
    BY <1>0, <1>6 DEF TypeOK
  <2>3. \A i \in DOMAIN sessions' :
          /\ sessions'[i].by = "otp" => otp' = "VERIFIED"
          /\ sessions'[i].by = "qr" => qr'.status = "CONSUMED"
          /\ \A j \in DOMAIN sessions' :
                sessions'[i].by = sessions'[j].by /\ sessions'[i].by \in {"otp", "qr"} => i = j
    BY <1>4, <2>1, <2>2 DEF IInv, ChallengeInv
  <2>4. \A e \in Device :
          \/ given'[e] = 0
          \/ given'[e] = 1 /\ (prekey'[e] = "consumed" \/ device'[e] = "REVOKED")
    BY <1>6, <1>7 DEF IInv, ChallengeInv
  <2>5. \A k, l \in DOMAIN links' : links'[k] = links'[l] /\ links'[k].status = "open" => k = l
    BY <1>6 DEF IInv, ChallengeInv
  <2> QED
    BY <2>3, <2>4, <2>5 DEF ChallengeInv
<1> QED
  BY <1>9, <1>10, <1>11, <1>12, <1>13 DEF IInv

LEMMA RotateStep ==
  ASSUME IInv, NEW w \in Workers, Rotate(w)
  PROVE  IInv'
<1> DEFINE m == Len(credentials) + 1
<1>0. TypeOK
  BY DEF IInv
<1>1. tx[w] # NoTx /\ tx[w].next = "rotate" /\ tx' = [tx EXCEPT ![w] = NoTx] /\ begun' = begun
  BY DEF Rotate, At, Commit
<1>2. Held(tx[w]) /\ tx[w].op = "refresh"
  BY <1>1, OneTx, StatementsOf DEF Held, Proper, TxType
<1>3. PICK u \in DOMAIN credentials, i \in Nat : u = tx[w].used /\ i = tx[w].self
  BY <1>1, <1>2, OneTx, TxFields DEF Held, OnCredential
<1>4. credentials[u] = Issued(i) /\ Active(i) /\ <<"credential", u>> \in tx[w].rows
  BY <1>1, <1>2, <1>3 DEF Held, OnCredential
<1>5. credentials[u].session = i /\ credentials[u].status = "ACTIVE"
  BY <1>4 DEF Issued
<1>6. i \in DOMAIN sessions
  BY <1>0, <1>5, CredentialTyped
<1>7. /\ credentials' \in Seq(CredentialType)
      /\ DOMAIN credentials' = DOMAIN credentials \union {m} /\ m \notin DOMAIN credentials
      /\ \A c \in DOMAIN credentials \ {u} : credentials'[c] = credentials[c]
      /\ credentials'[u].session = i /\ credentials'[u].status = "ROTATED"
      /\ credentials'[m] = Issued(i)
  <2>1. PICK left : left = [credentials EXCEPT ![u].status = "ROTATED"]
    OBVIOUS
  <2>2. credentials \in Seq(CredentialType) /\ credentials[u] \in CredentialType
    BY <1>0, RowsTyped, CredentialTyped
  <2>3. [credentials[u] EXCEPT !.status = "ROTATED"] \in CredentialType
    BY <2>2 DEF CredentialType
  <2>4. left = [credentials EXCEPT ![u] = [credentials[u] EXCEPT !.status = "ROTATED"]]
    BY <2>1
  <2>5. left \in Seq(CredentialType) /\ Len(left) = Len(credentials)
    BY <2>2, <2>3, <2>4
  <2>6. /\ DOMAIN left = DOMAIN credentials
        /\ \A c \in DOMAIN credentials \ {u} : left[c] = credentials[c]
        /\ left[u] = [credentials[u] EXCEPT !.status = "ROTATED"]
    BY <2>4
  <2>7. left[u].session = i /\ left[u].status = "ROTATED"
    BY <1>5, <2>2, <2>6 DEF CredentialType
  <2>8. Issued(i) \in CredentialType
    BY <1>0, <1>6, SessionTyped DEF Issued, CredentialType
  <2>9. credentials' = Append(left, Issued(i))
    BY <1>3, <2>1 DEF Rotate
  <2>10. /\ Append(left, Issued(i)) \in Seq(CredentialType)
         /\ DOMAIN Append(left, Issued(i)) = DOMAIN left \union {Len(left) + 1}
         /\ Len(left) + 1 \notin DOMAIN left
         /\ \A c \in DOMAIN left : Append(left, Issued(i))[c] = left[c]
         /\ Append(left, Issued(i))[Len(left) + 1] = Issued(i)
    BY <2>5, <2>8, Appended
  <2> QED
    BY <2>5, <2>6, <2>7, <2>9, <2>10
<1> HIDE DEF m
<1>8. UNCHANGED <<device, keys, sessions, account, codes>>
  BY DEF Rotate
<1>9. TxInv' /\ Exclusive'
  <2> SUFFICES ASSUME NEW v \in Workers \ {w}, tx[v] # NoTx
               PROVE  \E t : t = tx[v] /\ Held(t)'
    BY <1>1, Ends
  <2>1. PICK t : /\ t = tx[v] /\ Held(t) /\ t.rows \intersect tx[w].rows = {}
                 /\ \A row : Free(w, row) => row \notin t.rows
    BY <1>1, Others
  <2>2. /\ Proper(t)' /\ OnSession(t)' /\ OnPreKey(t)' /\ OnChallenge(t)'
        /\ OnDevice(t)' /\ OnEnd(t)' /\ OnLinks(t)'
    BY <1>8, <2>1 DEF Held, Proper, OnSession, OnPreKey, OnChallenge, OnDevice, OnEnd, OnLinks,
                      Active, Open, keys, account, codes
  <2>3. OnCredential(t)'
    BY <1>4, <1>7, <1>8, <2>1 DEF Held, OnCredential, Active, Issued
  <2> QED
    BY <2>1, <2>2, <2>3 DEF Held
<1>10. TypeOK'
  <2>1. \A c \in DOMAIN credentials' : credentials'[c].session \in DOMAIN sessions'
    <3>1. \A c \in DOMAIN credentials \ {u} : credentials'[c].session \in DOMAIN sessions'
      BY <1>0, <1>7, <1>8, CredentialTyped
    <3>2. credentials'[m].session = i
      BY <1>7 DEF Issued
    <3> QED
      BY <1>6, <1>7, <1>8, <3>1, <3>2
  <2>2. credentials' \in Seq([session : Nat, status : {"ACTIVE", "ROTATED", "REVOKED"}])
    BY <1>7 DEF CredentialType
  <2> QED
    BY <1>0, <1>1, <1>8, <2>1, <2>2 DEF TypeOK, keys, account, codes
<1>11. LiveInv'
  <2>1. ASSUME NEW j \in DOMAIN sessions, Active(j)
        PROVE  \E c \in DOMAIN credentials' : Live(c, j)'
    <3>1. PICK c \in DOMAIN credentials : Live(c, j)
      BY <2>1 DEF IInv, LiveInv
    <3>2. CASE c = u
      <4>1. i = j
        BY <1>5, <3>1, <3>2 DEF Live, Issued
      <4> QED
        BY <1>7, <4>1 DEF Live, Issued
    <3>3. CASE c # u
      BY <1>7, <3>1, <3>3 DEF Live, Issued
    <3> QED
      BY <3>2, <3>3
  <2>2. \A c \in DOMAIN credentials : Live(c, i) => c = u
    BY <1>5 DEF IInv, LiveInv
  <2>3. ASSUME NEW c \in DOMAIN credentials', credentials'[c].status = "ACTIVE"
        PROVE  /\ Active(credentials[c].session)'
               /\ \A other \in DOMAIN credentials' :
                     Live(other, credentials[c].session)' => other = c
    <3>1. c # u
      BY <1>7, <2>3
    <3>2. \A x \in DOMAIN credentials' : Live(x, i)' => x = m
      BY <1>7, <2>2 DEF Live, Issued
    <3>3. CASE c = m
      <4>1. credentials'[c].session = i
        BY <1>7, <3>3 DEF Issued
      <4> QED
        BY <1>4, <1>8, <3>2, <3>3, <4>1 DEF Active
    <3>4. CASE c \in DOMAIN credentials \ {u}
      <4>1. credentials'[c] = credentials[c] /\ credentials[c].status = "ACTIVE"
        BY <1>7, <2>3, <3>4
      <4>2. /\ Active(credentials[c].session)
            /\ \A other \in DOMAIN credentials : Live(other, credentials[c].session) => other = c
        BY <3>4, <4>1 DEF IInv, LiveInv
      <4>3. credentials[c].session # i
        BY <1>4, <3>4, <4>2 DEF Live
      <4>4. \A other \in DOMAIN credentials' :
                 Live(other, credentials[c].session)' => other \in DOMAIN credentials \ {u}
        BY <1>7, <4>1, <4>3 DEF Live, Issued
      <4> QED
        BY <1>7, <1>8, <4>1, <4>2, <4>4 DEF Active, Live, Issued
    <3> QED
      BY <1>7, <3>1, <3>3, <3>4
  <2> QED
    BY <1>8, <2>1, <2>3 DEF LiveInv, Active
<1>12. RevokedDeviceIsSilent'
  BY <1>8 DEF IInv, RevokedDeviceIsSilent, Active, keys
<1>13. ChallengeInv'
  BY <1>8 DEF IInv, ChallengeInv, keys, account, codes
<1> QED
  BY <1>9, <1>10, <1>11, <1>12, <1>13 DEF IInv

\* A table in which every row has become another of its type.
LEMMA Mapped ==
  ASSUME NEW S, NEW s \in Seq(S), NEW f \in [DOMAIN s -> S]
  PROVE  f \in Seq(S)
<1>1. DOMAIN s = 1 .. Len(s) /\ Len(s) \in Nat
  OBVIOUS
<1>2. PICK n \in Nat : n = Len(s)
  BY <1>1
<1>3. f \in [1 .. n -> S]
  BY <1>1, <1>2
<1>4. Seq(S) = UNION {[1 .. k -> S] : k \in Nat}
  BY SeqDef
<1> QED
  BY <1>2, <1>3, <1>4

LEMMA EndSessionsStep ==
  ASSUME IInv, NEW w \in Workers, EndSessions(w)
  PROVE  IInv'
<1>0. TypeOK
  BY DEF IInv
<1>1. /\ tx[w] # NoTx /\ tx[w].next = "sessions" /\ tx[w].todo = {}
      /\ tx' = [tx EXCEPT ![w] = NoTx] /\ begun' = begun
  BY DEF EndSessions, At, Commit
<1>2. Held(tx[w]) /\ tx[w] \in TxType /\ tx[w].op \in {"end", "revokeDevice", "reset"}
  BY <1>1, OneTx, StatementsOf DEF Held, Proper, TxType
<1>3. /\ \A i \in Ending(w) : Active(i) /\ <<"session", i>> \in tx[w].rows
      /\ \A c \in Losing(w) : Free(w, <<"credential", c>>)
  BY <1>1, <1>2 DEF Held, OnEnd, Ending, EndSessions
<1>4. /\ sessions' \in Seq(SessionType) /\ DOMAIN sessions' = DOMAIN sessions
      /\ \A i \in DOMAIN sessions :
            /\ sessions'[i].device = sessions[i].device /\ sessions'[i].by = sessions[i].by
            /\ i \in Ending(w) => sessions'[i].status = "REVOKED"
            /\ i \notin Ending(w) => sessions'[i] = sessions[i]
  <2>1. sessions' = [i \in DOMAIN sessions |->
                        IF i \in Ending(w) THEN [sessions[i] EXCEPT !.status = "REVOKED"]
                                           ELSE sessions[i]]
    BY DEF EndSessions
  <2>2. ASSUME NEW i \in DOMAIN sessions
        PROVE  /\ sessions'[i] \in SessionType
               /\ sessions'[i].device = sessions[i].device /\ sessions'[i].by = sessions[i].by
               /\ i \in Ending(w) => sessions'[i].status = "REVOKED"
               /\ i \notin Ending(w) => sessions'[i] = sessions[i]
    <3>1. sessions[i] \in SessionType
      BY <1>0, SessionTyped
    <3> QED
      BY <2>1, <3>1 DEF SessionType
  <2>3. sessions' \in [DOMAIN sessions -> SessionType]
    BY <2>1, <2>2
  <2>4. sessions' \in Seq(SessionType)
    BY <1>0, <2>3, RowsTyped, Mapped
  <2> QED
    BY <2>1, <2>2, <2>4
<1>5. /\ credentials' \in Seq(CredentialType) /\ DOMAIN credentials' = DOMAIN credentials
      /\ \A c \in DOMAIN credentials :
            /\ credentials'[c].session = credentials[c].session
            /\ c \in Losing(w) => credentials'[c].status = "REVOKED"
            /\ c \notin Losing(w) => credentials'[c] = credentials[c]
  <2>1. credentials' = [c \in DOMAIN credentials |->
                           IF c \in Losing(w) THEN [credentials[c] EXCEPT !.status = "REVOKED"]
                                              ELSE credentials[c]]
    BY DEF EndSessions
  <2>2. ASSUME NEW c \in DOMAIN credentials
        PROVE  /\ credentials'[c] \in CredentialType
               /\ credentials'[c].session = credentials[c].session
               /\ c \in Losing(w) => credentials'[c].status = "REVOKED"
               /\ c \notin Losing(w) => credentials'[c] = credentials[c]
    <3>1. credentials[c] \in CredentialType
      BY <1>0, CredentialTyped
    <3> QED
      BY <2>1, <3>1 DEF CredentialType
  <2>3. credentials' \in [DOMAIN credentials -> CredentialType]
    BY <2>1, <2>2
  <2>4. credentials' \in Seq(CredentialType)
    BY <1>0, <2>3, RowsTyped, Mapped
  <2> QED
    BY <2>1, <2>2, <2>4
<1>6. ASSUME NEW d \in Device
      PROVE  \/ /\ tx[w].op = "revokeDevice" /\ tx[w].device = d
                /\ device'[d] = "REVOKED" /\ prekey'[d] = "none" /\ d \notin bundle'
                /\ Free(w, PreKey(d)) /\ <<"device", d>> \in tx[w].rows
             \/ /\ ~(tx[w].op = "revokeDevice" /\ tx[w].device = d)
                /\ device'[d] = device[d] /\ prekey'[d] = prekey[d]
                /\ d \in bundle' <=> d \in bundle
  <2>1. CASE tx[w].op = "revokeDevice"
    <3>1. PICK e \in Device : e = tx[w].device
      BY <1>2, <2>1 DEF Held, Proper
    <3>2. /\ device' = [device EXCEPT ![e] = "REVOKED"] /\ Free(w, PreKey(e))
          /\ bundle' = bundle \ {e} /\ prekey' = [prekey EXCEPT ![e] = "none"]
      BY <2>1, <3>1 DEF EndSessions, PurgeDevice
    <3>3. <<"device", e>> \in tx[w].rows
      BY <1>1, <1>2, <2>1, <3>1 DEF Held, OnDevice
    <3> QED
      BY <1>0, <2>1, <3>1, <3>2, <3>3 DEF TypeOK
  <2>2. CASE tx[w].op # "revokeDevice"
    BY <2>2 DEF EndSessions, keys
  <2> QED
    BY <2>1, <2>2
<1>7. /\ device' \in [Device -> {"none", "ACTIVE", "REVOKED"}]
      /\ prekey' \in [Device -> {"none", "stored", "consumed"}]
      /\ bundle' \subseteq Device
      /\ UNCHANGED <<given, verified, otp, qr>>
  BY <1>0 DEF TypeOK, EndSessions, PurgeDevice, keys, codes
<1>8. /\ links' \in Seq(LinkType) /\ DOMAIN links' = DOMAIN links
      /\ \A l \in DOMAIN links : links'[l] = links[l] \/ links'[l].status = "consumed"
      /\ password' \in Nat
  <2>1. CASE tx[w].op = "reset"
    <3>1. PICK u \in DOMAIN links : u = tx[w].used
      BY <1>1, <1>2, <2>1 DEF Held, OnLinks
    <3>2. links' = [links EXCEPT ![u].status = "consumed"] /\ password' = password + 1
      BY <2>1, <3>1 DEF EndSessions, Consume
    <3>3. links \in Seq(LinkType) /\ links[u] \in LinkType
      BY <1>0, RowsTyped, LinkTyped
    <3>4. /\ [links[u] EXCEPT !.status = "consumed"] \in LinkType
          /\ [links[u] EXCEPT !.status = "consumed"].status = "consumed"
      BY <3>3 DEF LinkType
    <3>5. links' = [links EXCEPT ![u] = [links[u] EXCEPT !.status = "consumed"]]
      BY <3>2
    <3>6. links' \in Seq(LinkType)
      BY <3>3, <3>4, <3>5
    <3> QED
      BY <1>0, <3>2, <3>3, <3>4, <3>5, <3>6 DEF TypeOK
  <2>2. CASE tx[w].op # "reset"
    <3>1. links' = links /\ password' = password
      BY <2>2 DEF EndSessions
    <3>2. links \in Seq(LinkType) /\ password \in Nat
      BY <1>0, RowsTyped DEF TypeOK
    <3> QED
      BY <3>1, <3>2
  <2> QED
    BY <2>1, <2>2
<1>9. TxInv' /\ Exclusive'
  <2> SUFFICES ASSUME NEW v \in Workers \ {w}, tx[v] # NoTx
               PROVE  \E t : t = tx[v] /\ Held(t)'
    BY <1>1, Ends
  <2>1. PICK t : /\ t = tx[v] /\ Held(t) /\ t.rows \intersect tx[w].rows = {}
                 /\ \A row : Free(w, row) => row \notin t.rows
    BY <1>1, Others
  <2>2. \A i \in DOMAIN sessions : <<"session", i>> \in t.rows => sessions'[i] = sessions[i]
    BY <1>3, <1>4, <2>1
  <2>3. Proper(t)' /\ OnChallenge(t)'
    BY <1>7, <2>1 DEF Held, Proper, OnChallenge
  <2>4. OnSession(t)'
    BY <1>4, <2>1, <2>2 DEF Held, OnSession, Active
  <2>5. OnPreKey(t)'
    <3> SUFFICES ASSUME t.op = "fetch" PROVE OnPreKey(t)'
      BY DEF OnPreKey
    <3>1. PreKey(t.device) \in t.rows /\ prekey[t.device] = "stored" /\ t.device \in Device
      BY <2>1 DEF Held, OnPreKey, Proper
    <3>2. prekey'[t.device] = prekey[t.device]
      BY <1>6, <2>1, <3>1
    <3> QED
      BY <3>1, <3>2 DEF OnPreKey
  <2>6. OnCredential(t)'
    <3> SUFFICES ASSUME t.op = "refresh" PROVE OnCredential(t)'
      BY DEF OnCredential
    <3>1. /\ <<"credential", t.used>> \in t.rows /\ t.used \in DOMAIN credentials
          /\ credentials[t.used] = Issued(t.self)
          /\ t.next = "rotate" => <<"session", t.self>> \in t.rows /\ Active(t.self)
      BY <2>1 DEF Held, OnCredential
    <3>2. credentials[t.used].session = t.self
      BY <3>1 DEF Issued
    <3>3. t.self \in DOMAIN sessions
      BY <1>0, <3>1, <3>2, CredentialTyped
    <3>4. credentials'[t.used] = credentials[t.used]
      BY <1>3, <1>5, <2>1, <3>1
    <3> QED
      BY <1>5, <2>2, <3>1, <3>3, <3>4 DEF OnCredential, Active, Issued
  <2>7. OnDevice(t)'
    <3>1. t.next = "insert" /\ t.op # "context" => t.device \in Device
      BY <2>1, StatementsOf DEF Held, Proper, TxType
    <3> QED
      BY <1>6, <2>1, <3>1 DEF Held, OnDevice
  <2>8. OnEnd(t)'
    <3>1. \A i \in DOMAIN sessions' : Active(i)' => Active(i) /\ sessions'[i].device = sessions[i].device
      BY <1>4 DEF Active
    <3> QED
      BY <1>4, <2>1, <3>1 DEF Held, OnEnd
  <2>9. OnLinks(t)'
    <3>1. \A l \in DOMAIN links' : Open(l, t.op)' => Open(l, t.op)
      BY <1>8 DEF Open
    <3> QED
      BY <1>8, <2>1, <3>1 DEF Held, OnLinks
  <2> QED
    BY <2>1, <2>3, <2>4, <2>5, <2>6, <2>7, <2>8, <2>9 DEF Held
<1>10. TypeOK'
  <2>1. \A c \in DOMAIN credentials' : credentials'[c].session \in DOMAIN sessions'
    BY <1>0, <1>4, <1>5, CredentialTyped
  <2>2. /\ sessions' \in Seq([device : Device, status : {"ACTIVE", "REVOKED"},
                              by : {"login", "otp", "qr", "context"}])
        /\ credentials' \in Seq([session : Nat, status : {"ACTIVE", "ROTATED", "REVOKED"}])
        /\ links' \in Seq([to : {"reset", "verify"}, status : {"open", "consumed"}])
    BY <1>4, <1>5, <1>8 DEF SessionType, CredentialType, LinkType
  <2> QED
    BY <1>0, <1>1, <1>7, <1>8, <2>1, <2>2 DEF TypeOK
<1>11. LiveInv'
  <2>1. ASSUME NEW i \in DOMAIN sessions', Active(i)'
        PROVE  \E c \in DOMAIN credentials' : Live(c, i)'
    <3>1. i \in DOMAIN sessions /\ i \notin Ending(w) /\ Active(i)
      BY <1>4, <2>1 DEF Active
    <3>2. PICK c \in DOMAIN credentials : Live(c, i)
      BY <3>1 DEF IInv, LiveInv
    <3>3. c \notin Losing(w)
      BY <3>1, <3>2 DEF Losing, Live, Issued
    <3> QED
      BY <1>5, <3>2, <3>3 DEF Live, Issued
  <2>2. ASSUME NEW c \in DOMAIN credentials', credentials'[c].status = "ACTIVE"
        PROVE  /\ Active(credentials[c].session)'
               /\ \A other \in DOMAIN credentials' :
                     Live(other, credentials[c].session)' => other = c
    <3>1. c \in DOMAIN credentials /\ c \notin Losing(w) /\ credentials'[c] = credentials[c]
      BY <1>5, <2>2
    <3>2. /\ Active(credentials[c].session)
          /\ \A other \in DOMAIN credentials : Live(other, credentials[c].session) => other = c
      BY <2>2, <3>1 DEF IInv, LiveInv
    <3>3. credentials[c].session \in DOMAIN sessions /\ credentials[c].session \notin Ending(w)
      BY <1>0, <2>2, <3>1, CredentialTyped DEF Losing
    <3>4. \A other \in DOMAIN credentials' :
              Live(other, credentials[c].session)' => Live(other, credentials[c].session)
      <4> SUFFICES ASSUME NEW other \in DOMAIN credentials, Live(other, credentials[c].session)'
                   PROVE  Live(other, credentials[c].session)
        BY <1>5
      <4>1. credentials'[other].status = "ACTIVE"
        BY DEF Live, Issued
      <4>2. credentials'[other] = credentials[other]
        BY <1>5, <4>1
      <4> QED
        BY <3>1, <4>2 DEF Live, Issued
    <3> QED
      BY <1>4, <1>5, <3>1, <3>2, <3>3, <3>4 DEF Active
  <2> QED
    BY <2>1, <2>2 DEF LiveInv
<1>12. RevokedDeviceIsSilent'
  <2> SUFFICES ASSUME NEW d \in Device, device'[d] = "REVOKED"
               PROVE  /\ d \notin bundle' /\ prekey'[d] = "none"
                      /\ \A i \in DOMAIN sessions' : sessions'[i].device = d => ~Active(i)'
    BY DEF RevokedDeviceIsSilent
  <2>1. CASE tx[w].op = "revokeDevice" /\ tx[w].device = d
    <3>1. \A i \in DOMAIN sessions : Active(i) /\ sessions[i].device = d => i \in Ending(w)
      BY <1>1, <1>2, <2>1 DEF Held, OnEnd, Ending
    <3>2. \A i \in DOMAIN sessions' : sessions'[i].device = d => ~Active(i)'
      BY <1>4, <3>1 DEF Active
    <3> QED
      BY <1>6, <2>1, <3>2
  <2>2. CASE ~(tx[w].op = "revokeDevice" /\ tx[w].device = d)
    <3>1. device[d] = "REVOKED" /\ prekey'[d] = prekey[d] /\ (d \in bundle' <=> d \in bundle)
      BY <1>6, <2>2
    <3>2. \A i \in DOMAIN sessions' : sessions'[i].device = d => ~Active(i)'
      BY <1>4, <3>1 DEF Active, IInv, RevokedDeviceIsSilent
    <3> QED
      BY <3>1, <3>2 DEF IInv, RevokedDeviceIsSilent
  <2> QED
    BY <2>1, <2>2
<1>13. ChallengeInv'
  <2>1. \A i \in DOMAIN sessions' :
          /\ sessions'[i].by = "otp" => otp' = "VERIFIED"
          /\ sessions'[i].by = "qr" => qr'.status = "CONSUMED"
          /\ \A j \in DOMAIN sessions' :
                sessions'[i].by = sessions'[j].by /\ sessions'[i].by \in {"otp", "qr"} => i = j
    BY <1>4, <1>7 DEF IInv, ChallengeInv
  <2>2. \A d \in Device :
          \/ given'[d] = 0
          \/ given'[d] = 1 /\ (prekey'[d] = "consumed" \/ device'[d] = "REVOKED")
    BY <1>6, <1>7 DEF IInv, ChallengeInv
  <2>3. \A k, l \in DOMAIN links' : links'[k] = links'[l] /\ links'[k].status = "open" => k = l
    BY <1>8 DEF IInv, ChallengeInv
  <2> QED
    BY <2>1, <2>2, <2>3 DEF ChallengeInv
<1> QED
  BY <1>9, <1>10, <1>11, <1>12, <1>13 DEF IInv

LEMMA SendLinkStep ==
  ASSUME IInv, NEW w \in Workers, SendLink(w)
  PROVE  IInv'
<1> DEFINE n == Len(links) + 1
<1>0. TypeOK
  BY DEF IInv
<1>1. /\ tx[w] # NoTx /\ tx[w].next = "lockLinks" /\ tx[w].todo = {}
      /\ tx' = [tx EXCEPT ![w] = NoTx] /\ begun' = begun
      /\ UNCHANGED <<device, keys, sessions, credentials, password, verified, codes>>
  BY DEF SendLink, At, Commit
<1>2. Held(tx[w]) /\ tx[w].op \in {"reset", "verify"}
  BY <1>1, OneTx, StatementsOf DEF Held, Proper, TxType
<1>3. PICK kind \in {"reset", "verify"} : kind = tx[w].op
  BY <1>2
<1>4. /\ Identity \in tx[w].rows
      /\ \A l \in DOMAIN links : Open(l, kind) => l \in tx[w].ended
  BY <1>1, <1>2, <1>3 DEF Held, OnLinks
<1>5. /\ links' \in Seq(LinkType) /\ DOMAIN links' = DOMAIN links \union {n}
      /\ n \notin DOMAIN links /\ links'[n] = [to |-> kind, status |-> "open"]
      /\ \A l \in DOMAIN links :
            \/ links'[l].status = "consumed"
            \/ l \notin tx[w].ended /\ links'[l] = links[l]
  <2>1. PICK left : left = [l \in DOMAIN links |->
                              IF l \in tx[w].ended THEN [links[l] EXCEPT !.status = "consumed"]
                                                   ELSE links[l]]
    OBVIOUS
  <2>2. ASSUME NEW l \in DOMAIN links
        PROVE  /\ left[l] \in LinkType
               /\ \/ left[l].status = "consumed"
                  \/ l \notin tx[w].ended /\ left[l] = links[l]
    <3>1. links[l] \in LinkType
      BY <1>0, LinkTyped
    <3> QED
      BY <2>1, <3>1 DEF LinkType
  <2>3. left \in [DOMAIN links -> LinkType] /\ links \in Seq(LinkType)
    BY <1>0, <2>1, <2>2, RowsTyped
  <2>4. left \in Seq(LinkType)
    BY <2>3, Mapped
  <2>5. Len(left) = Len(links) /\ DOMAIN left = DOMAIN links
    BY <2>3, <2>4
  <2>6. PICK x \in LinkType : x = [to |-> kind, status |-> "open"]
    BY DEF LinkType
  <2>7. links' = Append(left, x)
    BY <1>3, <2>1, <2>6 DEF SendLink
  <2>8. /\ Append(left, x) \in Seq(LinkType)
        /\ DOMAIN Append(left, x) = DOMAIN left \union {Len(left) + 1}
        /\ Len(left) + 1 \notin DOMAIN left
        /\ \A i \in DOMAIN left : Append(left, x)[i] = left[i]
        /\ Append(left, x)[Len(left) + 1] = x
    BY <2>4, Appended
  <2> QED
    BY <2>2, <2>5, <2>6, <2>7, <2>8
<1> HIDE DEF n
<1>6. TxInv' /\ Exclusive'
  <2> SUFFICES ASSUME NEW v \in Workers \ {w}, tx[v] # NoTx
               PROVE  \E t : t = tx[v] /\ Held(t)'
    BY <1>1, Ends
  <2>1. PICK t : /\ t = tx[v] /\ Held(t) /\ t.rows \intersect tx[w].rows = {}
                 /\ \A row : Free(w, row) => row \notin t.rows
    BY <1>1, Others
  <2>2. /\ Proper(t)' /\ OnSession(t)' /\ OnPreKey(t)' /\ OnChallenge(t)'
        /\ OnCredential(t)' /\ OnDevice(t)' /\ OnEnd(t)'
    BY <1>1, <2>1 DEF Held, Proper, OnSession, OnPreKey, OnChallenge, OnCredential, OnDevice, OnEnd,
                      Active, Issued, keys, codes
  <2>3. OnLinks(t)'
    <3>1. t.next \notin {"links", "lockLinks"}
      BY <1>4, <2>1 DEF Held, OnLinks
    <3> QED
      BY <1>5, <2>1, <3>1 DEF Held, OnLinks
  <2> QED
    BY <2>1, <2>2, <2>3 DEF Held
<1>7. TypeOK'
  <2>1. links' \in Seq([to : {"reset", "verify"}, status : {"open", "consumed"}])
    BY <1>5 DEF LinkType
  <2> QED
    BY <1>0, <1>1, <2>1 DEF TypeOK, keys, codes
<1>8. LiveInv' /\ RevokedDeviceIsSilent'
  BY <1>1 DEF IInv, LiveInv, Live, Issued, RevokedDeviceIsSilent, Active, keys
<1>9. ChallengeInv'
  <2>1. ASSUME NEW k \in DOMAIN links', NEW l \in DOMAIN links',
               links'[k] = links'[l], links'[k].status = "open"
        PROVE  k = l
    <3>1. ASSUME NEW j \in DOMAIN links, links'[j].status = "open"
          PROVE  links'[j] = links[j] /\ links[j] # [to |-> kind, status |-> "open"]
      BY <1>4, <1>5, <3>1 DEF Open
    <3> QED
      BY <1>5, <2>1, <3>1 DEF IInv, ChallengeInv
  <2> QED
    BY <1>1, <2>1 DEF IInv, ChallengeInv, keys, codes
<1> QED
  BY <1>6, <1>7, <1>8, <1>9 DEF IInv

LEMMA VerifyEmailStep ==
  ASSUME IInv, NEW w \in Workers, VerifyEmail(w)
  PROVE  IInv'
<1>0. TypeOK
  BY DEF IInv
<1>1. /\ tx[w] # NoTx /\ tx[w].next = "verified"
      /\ tx' = [tx EXCEPT ![w] = NoTx] /\ begun' = begun /\ verified' = TRUE
      /\ UNCHANGED <<device, keys, sessions, credentials, password, codes>>
  BY DEF VerifyEmail, At, Commit
<1>2. Held(tx[w]) /\ tx[w].op = "verify"
  BY <1>1, OneTx, StatementsOf DEF Held, Proper, TxType
<1>3. PICK u \in DOMAIN links : u = tx[w].used
  BY <1>1, <1>2 DEF Held, OnLinks
<1>4. /\ links' \in Seq(LinkType) /\ DOMAIN links' = DOMAIN links
      /\ \A l \in DOMAIN links : links'[l] = links[l] \/ links'[l].status = "consumed"
  <2>1. links \in Seq(LinkType) /\ links[u] \in LinkType
    BY <1>0, RowsTyped, LinkTyped
  <2>2. /\ [links[u] EXCEPT !.status = "consumed"] \in LinkType
        /\ [links[u] EXCEPT !.status = "consumed"].status = "consumed"
    BY <2>1 DEF LinkType
  <2>3. links' = [links EXCEPT ![u] = [links[u] EXCEPT !.status = "consumed"]]
    BY <1>3 DEF VerifyEmail, Consume
  <2>4. links' \in Seq(LinkType)
    BY <2>1, <2>2, <2>3
  <2> QED
    BY <2>1, <2>2, <2>3, <2>4
<1>5. TxInv' /\ Exclusive'
  <2> SUFFICES ASSUME NEW v \in Workers \ {w}, tx[v] # NoTx
               PROVE  \E t : t = tx[v] /\ Held(t)'
    BY <1>1, Ends
  <2>1. PICK t : /\ t = tx[v] /\ Held(t) /\ t.rows \intersect tx[w].rows = {}
                 /\ \A row : Free(w, row) => row \notin t.rows
    BY <1>1, Others
  <2>2. /\ Proper(t)' /\ OnSession(t)' /\ OnPreKey(t)' /\ OnChallenge(t)'
        /\ OnCredential(t)' /\ OnDevice(t)' /\ OnEnd(t)'
    BY <1>1, <2>1 DEF Held, Proper, OnSession, OnPreKey, OnChallenge, OnCredential, OnDevice, OnEnd,
                      Active, Issued, keys, codes
  <2>3. OnLinks(t)'
    <3>1. \A l \in DOMAIN links' : Open(l, t.op)' => Open(l, t.op)
      BY <1>4 DEF Open
    <3> QED
      BY <1>4, <2>1, <3>1 DEF Held, OnLinks
  <2> QED
    BY <2>1, <2>2, <2>3 DEF Held
<1>6. TypeOK'
  <2>1. links' \in Seq([to : {"reset", "verify"}, status : {"open", "consumed"}])
    BY <1>4 DEF LinkType
  <2> QED
    BY <1>0, <1>1, <2>1 DEF TypeOK, keys, codes
<1>7. LiveInv' /\ RevokedDeviceIsSilent'
  BY <1>1 DEF IInv, LiveInv, Live, Issued, RevokedDeviceIsSilent, Active, keys
<1>8. ChallengeInv'
  BY <1>1, <1>4 DEF IInv, ChallengeInv, keys, codes
<1> QED
  BY <1>5, <1>6, <1>7, <1>8 DEF IInv

\* The commands that write keys and prekeys of a device: a prekey that a fetch holds stays,
\* and so does one that was given.
LEMMA KeysWritten ==
  ASSUME IInv, NEW w \in Workers, tx[w] # NoTx, NEW d \in Device,
         tx' = [tx EXCEPT ![w] = NoTx], begun' = begun,
         UNCHANGED <<device, sessions, credentials, account, codes>>,
         device[d] # "REVOKED",
         bundle' \subseteq bundle \union {d},
         prekey' \in [Device -> {"none", "stored", "consumed"}],
         \A e \in Device \ {d} : prekey'[e] = prekey[e] /\ given'[e] = given[e],
         given' \in [Device -> Nat],
         \/ given'[d] = given[d] /\ prekey'[d] = prekey[d]
         \/ given'[d] = given[d] /\ prekey'[d] = "stored" /\ prekey[d] # "consumed"
         \/ given'[d] = given[d] + 1 /\ PreKey(d) \in tx[w].rows /\ prekey'[d] = "consumed"
               /\ prekey[d] = "stored"
  PROVE  IInv'
<1>0. TypeOK
  BY DEF IInv
<1>1. TxInv' /\ Exclusive'
  <2> SUFFICES ASSUME NEW v \in Workers \ {w}, tx[v] # NoTx
               PROVE  \E t : t = tx[v] /\ Held(t)'
    BY Ends
  <2>1. PICK t : /\ t = tx[v] /\ Held(t) /\ t.rows \intersect tx[w].rows = {}
                 /\ \A row : Free(w, row) => row \notin t.rows
    BY Others
  <2>2. /\ Proper(t)' /\ OnSession(t)' /\ OnChallenge(t)' /\ OnCredential(t)'
        /\ OnDevice(t)' /\ OnEnd(t)' /\ OnLinks(t)'
    BY <2>1 DEF Held, Proper, OnSession, OnChallenge, OnCredential, OnDevice, OnEnd, OnLinks,
                Active, Issued, Open, account, codes
  <2>3. OnPreKey(t)'
    <3> SUFFICES ASSUME t.op = "fetch" PROVE OnPreKey(t)'
      BY DEF OnPreKey
    <3>1. PreKey(t.device) \in t.rows /\ prekey[t.device] = "stored" /\ t.device \in Device
      BY <2>1 DEF Held, OnPreKey, Proper
    <3>2. prekey'[t.device] = "stored"
      BY <2>1, <3>1
    <3> QED
      BY <3>1, <3>2 DEF OnPreKey
  <2> QED
    BY <2>1, <2>2, <2>3 DEF Held
<1>2. TypeOK'
  BY <1>0 DEF TypeOK, account, codes
<1>3. LiveInv'
  BY DEF IInv, LiveInv, Live, Issued, Active
<1>4. RevokedDeviceIsSilent'
  BY DEF IInv, RevokedDeviceIsSilent, Active
<1>5. ChallengeInv'
  <2>1. \A e \in Device :
          \/ given'[e] = 0
          \/ given'[e] = 1 /\ (prekey'[e] = "consumed" \/ device'[e] = "REVOKED")
    BY DEF IInv, ChallengeInv
  <2> QED
    BY <2>1 DEF IInv, ChallengeInv, account, codes
<1> QED
  BY <1>1, <1>2, <1>3, <1>4, <1>5 DEF IInv

\* The device of who has an active session is not revoked.
LEMMA DeviceOfSession ==
  ASSUME IInv, NEW w \in Workers, tx[w] # NoTx, tx[w].op \in {"context", "keys", "replenish"}
  PROVE  tx[w].device \in Device /\ device[tx[w].device] # "REVOKED"
<1>1. Held(tx[w]) /\ tx[w].device \in Device
  BY OneTx DEF Held, Proper
<1> QED
  BY <1>1 DEF Held, OnSession, IInv, RevokedDeviceIsSilent

LEMMA KeysStep ==
  ASSUME IInv, NEW w \in Workers, PublishKeys(w) \/ Replenish(w) \/ GivePreKey(w)
  PROVE  IInv'
<1>0. TypeOK
  BY DEF IInv
<1>1. /\ tx[w] # NoTx /\ tx' = [tx EXCEPT ![w] = NoTx] /\ begun' = begun
      /\ UNCHANGED <<device, sessions, credentials, account, codes>>
  BY DEF PublishKeys, Replenish, GivePreKey, At, Commit
<1>2. CASE PublishKeys(w) \/ Replenish(w)
  <2>1. tx[w].next \in {"bundle", "store"}
    BY <1>2 DEF PublishKeys, Replenish, At
  <2>2. tx[w].op \in {"keys", "replenish"}
    BY <1>1, <2>1, OneTx, StatementsOf DEF Held, Proper, TxType
  <2>3. PICK d \in Device : d = tx[w].device /\ device[d] # "REVOKED"
    BY <1>1, <2>2, DeviceOfSession
  <2>4. /\ bundle' \subseteq bundle \union {d} /\ given' = given
        /\ \/ prekey' = prekey
           \/ prekey[d] # "consumed" /\ prekey' = [prekey EXCEPT ![d] = "stored"]
    BY <1>2, <2>3 DEF PublishKeys, Replenish, StorePreKeys
  <2>5. /\ prekey' \in [Device -> {"none", "stored", "consumed"}] /\ given' \in [Device -> Nat]
        /\ \A e \in Device \ {d} : prekey'[e] = prekey[e] /\ given'[e] = given[e]
        /\ \/ given'[d] = given[d] /\ prekey'[d] = prekey[d]
           \/ given'[d] = given[d] /\ prekey'[d] = "stored" /\ prekey[d] # "consumed"
    BY <1>0, <2>4 DEF TypeOK
  <2> QED
    BY <1>1, <2>3, <2>4, <2>5, KeysWritten
<1>3. CASE GivePreKey(w)
  <2>1. tx[w].next = "give"
    BY <1>3 DEF GivePreKey, At
  <2>2. Held(tx[w]) /\ tx[w].op = "fetch"
    BY <1>1, <2>1, OneTx, StatementsOf DEF Held, Proper, TxType
  <2>3. PICK d \in Device : d = tx[w].device
    BY <2>2 DEF Held, Proper
  <2>4. PreKey(d) \in tx[w].rows /\ prekey[d] = "stored"
    BY <2>2, <2>3 DEF Held, OnPreKey
  <2>5. device[d] # "REVOKED"
    BY <2>4 DEF IInv, RevokedDeviceIsSilent
  <2>6. /\ bundle' = bundle /\ prekey' = [prekey EXCEPT ![d] = "consumed"]
        /\ given' = [given EXCEPT ![d] = @ + 1]
    BY <1>3, <2>3 DEF GivePreKey
  <2>7. /\ prekey' \in [Device -> {"none", "stored", "consumed"}] /\ given' \in [Device -> Nat]
        /\ \A e \in Device \ {d} : prekey'[e] = prekey[e] /\ given'[e] = given[e]
        /\ given'[d] = given[d] + 1 /\ prekey'[d] = "consumed"
    BY <1>0, <2>6 DEF TypeOK
  <2> QED
    BY <1>1, <2>4, <2>5, <2>6, <2>7, KeysWritten
<1> QED
  BY <1>2, <1>3

\* What is written of a code leaves every transaction that holds it what it had read.
LEMMA CodesWritten ==
  ASSUME IInv, NEW t, Held(t),
         UNCHANGED <<device, keys, sessions, credentials, account>>,
         t.op = "otp" => otp' = otp, t.op = "qr" => qr' = qr
  PROVE  Held(t)'
  BY DEF Held, Proper, OnSession, OnPreKey, OnChallenge, OnCredential, OnDevice, OnEnd, OnLinks,
         Active, Open, Issued, keys, account

\* A code that is not used up yet has made no session.
LEMMA CodesKeep ==
  ASSUME IInv, UNCHANGED <<device, keys, sessions, credentials, account, begun>>,
         otp' \in {"none", "PENDING", "VERIFIED"},
         qr' \in [status : {"none", "PENDING", "AUTHORIZED", "CONSUMED", "EXPIRED"}, by : Nat,
                  device : Device \union {AnyDevice}],
         qr'.status # "none" => qr'.device \in Device,
         otp = "VERIFIED" => otp' = otp, qr.status = "CONSUMED" => qr' = qr
  PROVE  TypeOK' /\ LiveInv' /\ RevokedDeviceIsSilent' /\ ChallengeInv'
<1>1. TypeOK'
  BY DEF IInv, TypeOK, keys, account
<1>2. LiveInv' /\ RevokedDeviceIsSilent'
  BY DEF IInv, LiveInv, Live, Issued, RevokedDeviceIsSilent, Active, keys
<1>3. ChallengeInv'
  BY DEF IInv, ChallengeInv, keys, account
<1> QED
  BY <1>1, <1>2, <1>3

LEMMA AuthorizeStep ==
  ASSUME IInv, NEW w \in Workers, Authorize(w)
  PROVE  IInv'
<1>1. /\ tx[w] # NoTx /\ tx' = [tx EXCEPT ![w] = NoTx] /\ tx[w].self \in Nat
      /\ Free(w, QR) /\ qr.status = "PENDING" /\ otp' = otp
      /\ qr' = [qr EXCEPT !.status = "AUTHORIZED", !.by = tx[w].self]
      /\ UNCHANGED <<device, keys, sessions, credentials, account, begun>>
  BY OneTx, TxFields DEF Authorize, At, Commit
<1>2. TxInv' /\ Exclusive'
  <2> SUFFICES ASSUME NEW v \in Workers \ {w}, tx[v] # NoTx
               PROVE  \E t : t = tx[v] /\ Held(t)'
    BY <1>1, Ends
  <2>1. PICK t : /\ t = tx[v] /\ Held(t) /\ t.rows \intersect tx[w].rows = {}
                 /\ \A row : Free(w, row) => row \notin t.rows
    BY <1>1, Others
  <2>2. t.op # "qr"
    BY <1>1, <2>1 DEF Held, OnChallenge
  <2> QED
    BY <1>1, <2>1, <2>2, CodesWritten
<1>3. /\ qr' \in [status : {"none", "PENDING", "AUTHORIZED", "CONSUMED", "EXPIRED"}, by : Nat,
                  device : Device \union {AnyDevice}]
      /\ qr'.status # "none" => qr'.device \in Device
      /\ otp' \in {"none", "PENDING", "VERIFIED"}
  BY <1>1 DEF IInv, TypeOK
<1>4. TypeOK' /\ LiveInv' /\ RevokedDeviceIsSilent' /\ ChallengeInv'
  BY <1>1, <1>3, CodesKeep
<1> QED
  BY <1>2, <1>4 DEF IInv

LEMMA RollbackStep ==
  ASSUME IInv, NEW w \in Workers, Rollback(w)
  PROVE  IInv'
<1>1. tx' = [tx EXCEPT ![w] = NoTx] /\ begun' \in Nat /\ UNCHANGED tables
  BY DEF Rollback, Commit, IInv, TypeOK
<1>2. \A v \in Workers \ {w} : tx[v] # NoTx => \E t : t = tx[v] /\ Held(t)'
  <2> SUFFICES ASSUME NEW v \in Workers \ {w}, tx[v] # NoTx
               PROVE  \E t : t = tx[v] /\ Held(t)'
    OBVIOUS
  <2>1. PICK t : t = tx[v] /\ Held(t)
    BY OneTx
  <2> QED
    BY <1>1, <2>1, HeldKept
<1>3. TxInv' /\ Exclusive'
  BY <1>1, <1>2, Ends
<1> QED
  BY <1>1, <1>3, TablesKept DEF IInv

LEMMA CodeStep ==
  ASSUME IInv, RequestOtp \/ ExpireQR \/ \E d \in Device : CreateQR(d)
  PROVE  IInv'
<1>0. TypeOK
  BY DEF IInv
<1>1. /\ UNCHANGED <<device, keys, sessions, credentials, account, begun>> /\ tx' = tx
      /\ otp = "VERIFIED" => otp' = otp
      /\ qr.status = "CONSUMED" => qr' = qr
      /\ otp = "PENDING" => otp' = otp
  BY DEF RequestOtp, ExpireQR, CreateQR
<1>2. /\ otp' \in {"none", "PENDING", "VERIFIED"}
      /\ qr' \in [status : {"none", "PENDING", "AUTHORIZED", "CONSUMED", "EXPIRED"}, by : Nat,
                  device : Device \union {AnyDevice}]
      /\ qr'.status # "none" => qr'.device \in Device
  <2>1. CASE RequestOtp
    BY <1>0, <2>1 DEF RequestOtp, TypeOK
  <2>2. CASE ExpireQR
    BY <1>0, <2>2 DEF ExpireQR, TypeOK
  <2>3. ASSUME NEW d \in Device, CreateQR(d)
        PROVE  /\ otp' \in {"none", "PENDING", "VERIFIED"}
               /\ qr' \in [status : {"none", "PENDING", "AUTHORIZED", "CONSUMED", "EXPIRED"},
                           by : Nat, device : Device \union {AnyDevice}]
               /\ qr'.status # "none" => qr'.device \in Device
    BY <1>0, <2>3 DEF CreateQR, TypeOK
  <2> QED
    BY <2>1, <2>2, <2>3
<1>3. TxInv'
  <2> SUFFICES ASSUME NEW v \in Workers, tx[v] # NoTx PROVE Held(tx[v])'
    BY <1>1 DEF IInv, TxInv
  <2>1. PICK t : t = tx[v] /\ Held(t)
    BY OneTx
  <2>2. t.op = "otp" => otp' = otp
    BY <1>1, <2>1 DEF Held, OnChallenge
  <2>3. t.op = "qr" => qr' = qr
    BY <2>1 DEF Held, OnChallenge, RequestOtp, ExpireQR, CreateQR
  <2>4. Held(t)'
    BY <1>1, <2>1, <2>2, <2>3, CodesWritten
  <2> QED
    BY <1>1, <2>1, <2>4
<1>4. Exclusive'
  BY <1>1 DEF IInv, Exclusive
<1>5. TypeOK' /\ LiveInv' /\ RevokedDeviceIsSilent' /\ ChallengeInv'
  BY <1>1, <1>2, CodesKeep
<1> QED
  BY <1>3, <1>4, <1>5 DEF IInv

-----------------------------------------------------------------------------
(* The invariant.                                                          *)

LEMMA InvInit ==
  ASSUME Init
  PROVE  IInv
<1>1. TypeOK
  <2>1. /\ sessions \in Seq(SessionType) /\ credentials \in Seq(CredentialType)
        /\ links \in Seq(LinkType) /\ \A c \in DOMAIN credentials : FALSE
    BY DEF Init
  <2>2. /\ sessions \in Seq([device : Device, status : {"ACTIVE", "REVOKED"},
                              by : {"login", "otp", "qr", "context"}])
        /\ credentials \in Seq([session : Nat, status : {"ACTIVE", "ROTATED", "REVOKED"}])
        /\ links \in Seq([to : {"reset", "verify"}, status : {"open", "consumed"}])
    BY <2>1 DEF SessionType, CredentialType, LinkType
  <2>3. /\ device \in [Device -> {"none", "ACTIVE", "REVOKED"}]
        /\ bundle \subseteq Device
        /\ prekey \in [Device -> {"none", "stored", "consumed"}]
        /\ given \in [Device -> Nat]
    BY DEF Init
  <2>4. /\ password \in Nat /\ verified \in BOOLEAN /\ begun \in Nat
        /\ otp \in {"none", "PENDING", "VERIFIED"}
        /\ qr \in [status : {"none", "PENDING", "AUTHORIZED", "CONSUMED", "EXPIRED"},
                   by : Nat, device : Device \union {AnyDevice}]
        /\ qr.status = "none"
    BY DEF Init
  <2> QED
    BY <2>1, <2>2, <2>3, <2>4 DEF TypeOK
<1>2. TxInv /\ Exclusive
  BY DEF Init, TxInv, Exclusive
<1>3. LiveInv /\ RevokedDeviceIsSilent /\ ChallengeInv
  BY DEF Init, LiveInv, RevokedDeviceIsSilent, ChallengeInv
<1> QED
  BY <1>1, <1>2, <1>3 DEF IInv

LEMMA InvStep ==
  ASSUME IInv, [Next]_vars
  PROVE  IInv'
<1>1. ASSUME NEW w \in Workers, Finish(w) PROVE IInv'
  BY <1>1, CreateSessionStep, RotateStep, EndSessionsStep, SendLinkStep, VerifyEmailStep,
     KeysStep, AuthorizeStep DEF Finish
<1>2. CASE UNCHANGED vars
  <2>1. TxInv'
    <3> SUFFICES ASSUME NEW v \in Workers, tx[v] # NoTx PROVE Held(tx[v])'
      BY <1>2 DEF IInv, TxInv, vars
    <3>1. PICK t : t = tx[v] /\ Held(t)
      BY OneTx
    <3>2. Held(t)'
      BY <1>2, <3>1, HeldKept DEF vars
    <3> QED
      BY <1>2, <3>1, <3>2 DEF vars
  <2>2. Exclusive' /\ begun' \in Nat
    BY <1>2 DEF IInv, Exclusive, TypeOK, vars
  <2> QED
    BY <1>2, <2>1, <2>2, TablesKept DEF IInv, vars
<1> QED
  BY <1>1, <1>2, BeginStep, GoOnStep, RollbackStep, CodeStep DEF Next

THEOREM Invariant == Spec => []IInv
<1>1. Init => IInv
  BY InvInit
<1>2. IInv /\ [Next]_vars => IInv'
  BY InvStep
<1> QED
  BY <1>1, <1>2, PTL DEF Spec

-----------------------------------------------------------------------------
(* What follows from it.                                                   *)

\* The tables are what their columns allow, and so is everything that a transaction has
\* read and locked of them.
THEOREM TypeCorrect == Spec => []TypeOK
<1>1. IInv => TypeOK
  BY DEF IInv
<1> QED
  BY <1>1, Invariant, PTL

\* A revoked device has no active session, no published key and no prekey to give, although
\* a context switch and an upload of keys read its status without a lock.
THEOREM RevokedStaysSilent == Spec => []RevokedDeviceIsSilent
<1>1. IInv => RevokedDeviceIsSilent
  BY DEF IInv
<1> QED
  BY <1>1, Invariant, PTL

LEMMA LiveCredentialCounted ==
  ASSUME IInv
  PROVE  OneLiveCredential
<1> SUFFICES ASSUME NEW i \in DOMAIN sessions
             PROVE  Cardinality({c \in DOMAIN credentials :
                        credentials[c].session = i /\ credentials[c].status = "ACTIVE"})
                      = IF Active(i) THEN 1 ELSE 0
  BY DEF OneLiveCredential
<1> DEFINE live == {c \in DOMAIN credentials :
                       credentials[c].session = i /\ credentials[c].status = "ACTIVE"}
<1>1. \A c \in DOMAIN credentials : Live(c, i) <=> c \in live
  <2> SUFFICES ASSUME NEW c \in DOMAIN credentials PROVE Live(c, i) <=> c \in live
    OBVIOUS
  <2>1. credentials[c] = [session |-> credentials[c].session, status |-> credentials[c].status]
    BY CredentialTyped DEF IInv
  <2> QED
    BY <2>1 DEF Live, Issued
<1>2. CASE Active(i)
  <2>1. PICK c \in live : TRUE
    BY <1>1, <1>2 DEF IInv, LiveInv
  <2>2. \A other \in live : other = c
    BY <1>1, <2>1 DEF IInv, LiveInv
  <2>3. live = {c}
    BY <2>1, <2>2
  <2> QED
    BY <1>2, <2>3, FS_Singleton
<1>3. CASE ~Active(i)
  <2>1. live = {}
    BY <1>3 DEF IInv, LiveInv
  <2> QED
    BY <1>3, <2>1, FS_EmptySet
<1> QED
  BY <1>2, <1>3

\* Of a session that is active one refresh credential can be used, and of one that has
\* ended none, in whatever order refreshes and the ways to end a session take their locks.
THEOREM LiveCredentialIsOne == Spec => []OneLiveCredential
<1>1. IInv => OneLiveCredential
  BY LiveCredentialCounted
<1> QED
  BY <1>1, Invariant, PTL

LEMMA AtMostOne ==
  ASSUME NEW S, \A x, y \in S : x = y
  PROVE  Cardinality(S) <= 1
<1>1. CASE S = {}
  BY <1>1, FS_EmptySet
<1>2. CASE S # {}
  <2>1. PICK x \in S : S = {x}
    BY <1>2
  <2> QED
    BY <2>1, FS_Singleton
<1> QED
  BY <1>1, <1>2

LEMMA ChallengesCounted ==
  ASSUME IInv
  PROVE  ChallengesOnce
<1>1. ASSUME NEW kind \in {"otp", "qr"}
      PROVE  Cardinality({i \in DOMAIN sessions : sessions[i].by = kind}) <= 1
  <2> DEFINE made == {i \in DOMAIN sessions : sessions[i].by = kind}
  <2>1. \A i, j \in made : i = j
    BY DEF IInv, ChallengeInv
  <2> QED
    BY <2>1, AtMostOne
<1>2. \A d \in Device : given[d] <= 1
  BY DEF IInv, ChallengeInv
<1>3. ASSUME NEW kind \in {"reset", "verify"}
      PROVE  Cardinality({l \in DOMAIN links : links[l] = [to |-> kind, status |-> "open"]}) <= 1
  <2> DEFINE open == {l \in DOMAIN links : links[l] = [to |-> kind, status |-> "open"]}
  <2>1. \A k, l \in open : k = l
    BY DEF IInv, ChallengeInv
  <2> QED
    BY <2>1, AtMostOne
<1> QED
  BY <1>1, <1>2, <1>3 DEF ChallengesOnce

\* A code and a QR challenge make one session at most, a prekey is given once, and of the
\* links of a kind one at most is open, however many requests use or send them at once.
THEOREM UsedOnce == Spec => []ChallengesOnce
<1>1. IInv => ChallengesOnce
  BY ChallengesCounted
<1> QED
  BY <1>1, Invariant, PTL

\* A password changes where a reset ends its sessions.
LEMMA PasswordChanges ==
  ASSUME [Next]_vars, password' # password
  PROVE  \E w \in Workers : EndSessions(w) /\ tx[w].op = "reset"
<1>1. ASSUME NEW w \in Workers, Begin(w) PROVE password' = password
  BY <1>1 DEF Begin, Logout, LogoutAll, SwitchContext, UploadKeys, ReplenishPreKeys, AuthorizeQR,
              RevokePlatformSession, Revoke, RevokeDevice, RevokePlatformSessions, Login, OtpVerify,
              FetchPreKey, ConsumeQR, ForgotPassword, ResendVerification, Refresh, UseLink,
              Authenticated, Start, StartUnlocked, tables, account
<1>2. ASSUME NEW w \in Workers, Step(w) PROVE password' = password
  BY <1>2 DEF Step, LockIdentity, LockDevice, SelectSessions, LockRefreshed, LockSession,
              SelectLinks, LockLink, FindDevice, NewDevice, NoRow, Lock, LockSelected, tables, account
<1>3. ASSUME NEW w \in Workers, Finish(w), ~(EndSessions(w) /\ tx[w].op = "reset")
      PROVE  password' = password
  BY <1>3 DEF Finish, CreateSession, Rotate, EndSessions, SendLink, VerifyEmail, PublishKeys,
              Replenish, GivePreKey, Authorize, account
<1>4. ASSUME NEW w \in Workers, Rollback(w) PROVE password' = password
  BY <1>4 DEF Rollback, tables, account
<1>5. UNCHANGED vars \/ RequestOtp \/ ExpireQR \/ (\E d \in Device : CreateQR(d))
        => password' = password
  BY DEF vars, tables, RequestOtp, ExpireQR, CreateQR, account
<1> QED
  BY <1>1, <1>2, <1>3, <1>4, <1>5 DEF Next

\* A changed password leaves no session active, those included that were being made while
\* it was changed.
THEOREM ResetLeavesNone == Spec => ResetEndsAll
<1>1. ASSUME IInv, [Next]_vars, password' # password
      PROVE  \A i \in DOMAIN sessions' : sessions'[i].status # "ACTIVE"
  <2>1. PICK w \in Workers : EndSessions(w) /\ tx[w].op = "reset"
    BY <1>1, PasswordChanges
  <2>2. /\ tx[w] # NoTx /\ tx[w].next = "sessions" /\ tx[w].todo = {}
        /\ sessions' = [i \in DOMAIN sessions |->
                          IF i \in Ending(w) THEN [sessions[i] EXCEPT !.status = "REVOKED"]
                                             ELSE sessions[i]]
    BY <2>1 DEF EndSessions, At
  <2>3. \A i \in DOMAIN sessions : Active(i) => i \in Ending(w)
    BY <1>1, <2>1, <2>2, OneTx DEF Held, OnEnd, Ending
  <2>4. ASSUME NEW i \in DOMAIN sessions PROVE sessions'[i].status # "ACTIVE"
    <3>1. sessions[i] \in SessionType
      BY <1>1, SessionTyped DEF IInv
    <3> QED
      BY <2>2, <2>3, <3>1 DEF Active, SessionType
  <2> QED
    BY <2>2, <2>4
<1>2. IInv /\ [Next]_vars => [password' # password =>
                                \A i \in DOMAIN sessions' : sessions'[i].status # "ACTIVE"]_vars
  BY <1>1
<1> QED
  BY <1>2, Invariant, PTL DEF Spec, ResetEndsAll

=============================================================================
