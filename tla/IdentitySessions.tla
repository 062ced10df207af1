-------------------------- MODULE IdentitySessions --------------------------
(***************************************************************************)
(* identity-service: the devices of one identity with their keys, its      *)
(* sessions and refresh credentials, the commands that begin, continue and *)
(* end them, and the codes and links that are good for one use.            *)
(*                                                                         *)
(* A worker is a request in its READ COMMITTED transaction.  An action is  *)
(* one statement that takes a row lock or reads a snapshot; what the       *)
(* command wrote becomes visible in the action that commits it.  A row     *)
(* stays locked until then, the session of the caller too                  *)
(* (current_principal).  A session inserted refers to its identity and its *)
(* device, and PostgreSQL makes it wait for whoever holds those rows.      *)
(***************************************************************************)
EXTENDS Integers, Sequences, FiniteSets

CONSTANTS
    Device,         \* installations of the identity, also those not seen yet
    Workers,        \* transactions that may be open at once
    NoTx,           \* a worker is idle
    AnyDevice,      \* a command that is not about one device
    MaxCommands     \* commands that ever take their first lock (bound)

VARIABLES
    device,     \* its status, "none" before it has a row
    bundle,     \* devices with published keys
    prekey,     \* of each device a one-time prekey: "none", "stored" or "consumed"
    given,      \* ... and how often somebody was given it
    sessions,   \* rows in the order of their insertion
    credentials,
    links,      \* reset and verification links: "open" until consumed_at is set
    password,   \* how often password_hash has changed
    verified,   \* email_verified
    otp, qr,    \* one challenge of each kind
    begun,      \* commands so far
    tx          \* what a transaction holds, has read and does next

keys == <<bundle, prekey, given>>
account == <<links, password, verified>>
codes == <<otp, qr>>
tables == <<device, keys, sessions, credentials, account, codes>>
vars == <<tables, begun, tx>>

Init ==
    /\ device = [d \in Device |-> "none"]
    /\ bundle = {}
    /\ prekey = [d \in Device |-> "none"]
    /\ given = [d \in Device |-> 0]
    /\ sessions = <<>>
    /\ credentials = <<>>
    /\ links = <<>>
    /\ password = 0
    /\ verified = FALSE
    /\ otp = "none"
    /\ qr = [status |-> "none", by |-> 0, device |-> AnyDevice]
    /\ begun = 0
    /\ tx = [w \in Workers |-> NoTx]

-----------------------------------------------------------------------------
(* Transactions and row locks.                                             *)

Identity == <<"identity", 0>>
Otp == <<"otp", 0>>
QR == <<"qr", 0>>
PreKey(d) == <<"prekey", d>>

Free(w, row) == \A v \in Workers \ {w} : tx[v] # NoTx => row \notin tx[v].rows

\* A command: the session it continues, the device it is about, the link or credential it
\* uses, and the statement it begins with.
Command(op, self, dev, used, next) ==
    [op |-> op, self |-> self, device |-> dev, used |-> used, next |-> next,
     todo |-> {}, ended |-> {}, rows |-> {}]

\* The first lock of a command; until it is free the command waits and holds nothing.
Start(w, row, command) ==
    /\ tx[w] = NoTx
    /\ Free(w, row)
    /\ begun < MaxCommands /\ begun' = begun + 1
    /\ tx' = [tx EXCEPT ![w] = [command EXCEPT !.rows = {row}]]
    /\ UNCHANGED tables

\* A command that begins without one.
StartUnlocked(w, command) ==
    /\ tx[w] = NoTx
    /\ begun < MaxCommands /\ begun' = begun + 1
    /\ tx' = [tx EXCEPT ![w] = command]
    /\ UNCHANGED tables

Lock(w, row, next) ==
    /\ Free(w, row)
    /\ tx' = [tx EXCEPT ![w].rows = @ \union {row}, ![w].next = next]
    /\ UNCHANGED <<tables, begun>>

\* One of the rows that a statement has selected, with its lock.
LockSelected(w, kind, k) ==
    /\ k \in tx[w].todo
    /\ Free(w, <<kind, k>>)
    /\ tx' = [tx EXCEPT ![w].rows = @ \union {<<kind, k>>}, ![w].todo = @ \ {k},
                        ![w].ended = @ \union {k}]
    /\ UNCHANGED <<tables, begun>>

At(w, next) == tx[w] # NoTx /\ tx[w].next = next
Commit(w) == tx' = [tx EXCEPT ![w] = NoTx] /\ UNCHANGED begun

\* An error, a refusal after a lock, a crash or the victim of a deadlock.  What refresh
\* and verify record before they raise (a compromised family, EXPIRED, a failed attempt)
\* goes with the transaction.
Rollback(w) ==
    /\ tx[w] # NoTx
    /\ Commit(w)
    /\ UNCHANGED tables

-----------------------------------------------------------------------------
(* Beginning a command.                                                    *)

Active(i) == sessions[i].status = "ACTIVE"

\* current_principal, for the routes that need a session.
Authenticated(w, i, command) ==
    /\ Active(i) /\ device[sessions[i].device] = "ACTIVE"
    /\ Start(w, <<"session", i>>, command)

Logout(w, i) ==
    Authenticated(w, i, [Command("end", 0, AnyDevice, 0, "sessions") EXCEPT !.todo = {i}])

\* sessions.revoke, of any session of the identity.
Revoke(w, i, j) ==
    Authenticated(w, i, [Command("end", 0, AnyDevice, 0, "sessions") EXCEPT !.todo = {j}])

LogoutAll(w, i) ==
    Authenticated(w, i, Command("end", 0, AnyDevice, 0, "select"))

RevokeDevice(w, i, d) ==
    /\ device[d] # "none"
    /\ Authenticated(w, i, Command("revokeDevice", 0, d, 0, "lockDevice"))

\* An operator of the platform ends one session, or all of them.  His own session is none
\* of this identity's.
RevokePlatformSession(w, j) ==
    Start(w, <<"session", j>>, [Command("end", 0, AnyDevice, 0, "sessions") EXCEPT !.todo = {j}])

RevokePlatformSessions(w) ==
    StartUnlocked(w, Command("end", 0, AnyDevice, 0, "select"))

\* switch_context: the device is the one that current_principal read, without a lock.
SwitchContext(w, i) ==
    Authenticated(w, i, Command("context", 0, sessions[i].device, 0, "insert"))

\* upload_device_keys, of the session's device.
UploadKeys(w, i) ==
    Authenticated(w, i, Command("keys", 0, sessions[i].device, 0, "bundle"))

ReplenishPreKeys(w, i) ==
    Authenticated(w, i, Command("replenish", 0, sessions[i].device, 0, "store"))

\* fetch_prekey_bundle, by somebody who writes to the device: SKIP LOCKED passes over a
\* prekey that another request is about to consume.
FetchPreKey(w, d) ==
    /\ device[d] = "ACTIVE" /\ d \in bundle
    /\ prekey[d] = "stored"
    /\ Start(w, PreKey(d), Command("fetch", 0, d, 0, "give"))

AuthorizeQR(w, i) ==
    Authenticated(w, i, Command("authorize", i, AnyDevice, 0, "qr"))

\* login, with a password.
Login(w, d) ==
    Start(w, Identity, Command("login", 0, d, 0, "device"))

OtpVerify(w, d) ==
    /\ otp = "PENDING"
    /\ Start(w, Otp, Command("otp", 0, d, 0, "identity"))

\* Mutant: the challenge is read without its lock.
ConsumeQRUnlocked(w) ==
    /\ qr.status = "AUTHORIZED"
    /\ StartUnlocked(w, Command("qr", qr.by, qr.device, 0, "device"))

ConsumeQR(w) ==
    /\ qr.status = "AUTHORIZED"
    /\ Start(w, QR, Command("qr", qr.by, qr.device, 0, "device"))

Refresh(w, c) ==
    /\ credentials[c].status = "ACTIVE"
    /\ Start(w, <<"credential", c>>,
             Command("refresh", credentials[c].session, AnyDevice, c, "session"))

ForgotPassword(w) ==
    Start(w, Identity, Command("reset", 0, AnyDevice, 0, "links"))

ResendVerification(w) ==
    /\ ~verified
    /\ Start(w, Identity, Command("verify", 0, AnyDevice, 0, "links"))

\* reset_password and verify_email, each with a link of its kind.
UseLink(w, l) ==
    /\ links[l].status = "open"
    /\ Start(w, <<"link", l>>, Command(links[l].to, 0, AnyDevice, l, "identity"))

-----------------------------------------------------------------------------
(* Statements in between.                                                  *)

LockIdentity(w) ==
    /\ At(w, "identity")
    /\ Lock(w, Identity, CASE tx[w].op = "reset" -> "select"
                           [] tx[w].op = "verify" -> "verified"
                           [] OTHER -> "device")

LockDevice(w) ==
    /\ At(w, "lockDevice")
    /\ Lock(w, <<"device", tx[w].device>>, "select")

\* The statement that locks the sessions has a snapshot: what commits while it waits for
\* one of them is not among the others.
SelectSessions(w) ==
    /\ At(w, "select")
    /\ tx' = [tx EXCEPT ![w].next = "sessions",
                        ![w].todo = {i \in DOMAIN sessions :
                            Active(i) /\ tx[w].device \in {AnyDevice, sessions[i].device}}]
    /\ UNCHANGED <<tables, begun>>

LockSession(w, i) == At(w, "sessions") /\ LockSelected(w, "session", i)

\* refresh: the session after its credential.
LockRefreshed(w) ==
    /\ At(w, "session")
    /\ Active(tx[w].self)
    /\ Lock(w, <<"session", tx[w].self>>, "rotate")

SelectLinks(w) ==
    /\ At(w, "links")
    /\ tx' = [tx EXCEPT ![w].next = "lockLinks",
                        ![w].todo = {l \in DOMAIN links :
                            links[l] = [to |-> tx[w].op, status |-> "open"]}]
    /\ UNCHANGED <<tables, begun>>

LockLink(w, l) == At(w, "lockLinks") /\ LockSelected(w, "link", l)

NoRow(w) ==
    /\ device[tx[w].device] = "none"
    /\ tx' = [tx EXCEPT ![w].next = "newDevice"]
    /\ UNCHANGED <<tables, begun>>

\* Mutant: the status of the device is not looked at.
FindAnyDevice(w) ==
    /\ At(w, "device")
    /\ \/ NoRow(w)
       \/ /\ device[tx[w].device] # "none"
          /\ Lock(w, <<"device", tx[w].device>>, "insert")

\* SessionService.device: where there is no row there is no lock.
FindDevice(w) ==
    /\ At(w, "device")
    /\ \/ NoRow(w)
       \/ /\ device[tx[w].device] = "ACTIVE"
          /\ Lock(w, <<"device", tx[w].device>>, "insert")

\* The unique key of identity and installation: the second insert fails.
NewDevice(w) ==
    /\ At(w, "newDevice")
    /\ device[tx[w].device] = "none"
    /\ Lock(w, <<"device", tx[w].device>>, "insert")

-----------------------------------------------------------------------------
(* Statements that end a command, with its commit.                         *)

Issued(i) == [session |-> i, status |-> "ACTIVE"]

\* Mutant: nothing holds the rows that a session refers to.
RefersAtOnce(w) == TRUE

\* The foreign keys of what is inserted.
Refers(w) == Free(w, Identity) /\ Free(w, <<"device", tx[w].device>>)

\* SessionService.create.
CreateSession(w) ==
    /\ At(w, "insert")
    /\ Refers(w)
    /\ sessions' = Append(sessions, [device |-> tx[w].device, status |-> "ACTIVE",
                                     by |-> tx[w].op])
    /\ credentials' = Append(credentials, Issued(Len(sessions) + 1))
    /\ device' = [device EXCEPT ![tx[w].device] = IF @ = "none" THEN "ACTIVE" ELSE @]
    /\ otp' = IF tx[w].op = "otp" THEN "VERIFIED" ELSE otp
    /\ qr' = IF tx[w].op = "qr" THEN [qr EXCEPT !.status = "CONSUMED"] ELSE qr
    /\ Commit(w)
    /\ UNCHANGED <<keys, account>>

\* Mutant: the credential that was used stays.
RotateNothing(w) ==
    /\ At(w, "rotate")
    /\ credentials' = Append(credentials, Issued(tx[w].self))
    /\ Commit(w)
    /\ UNCHANGED <<device, keys, sessions, account, codes>>

\* refresh.
Rotate(w) ==
    /\ At(w, "rotate")
    /\ credentials' = Append([credentials EXCEPT ![tx[w].used].status = "ROTATED"],
                             Issued(tx[w].self))
    /\ Commit(w)
    /\ UNCHANGED <<device, keys, sessions, account, codes>>

\* revoke_session does nothing for a session that has ended meanwhile; otherwise its
\* ACTIVE credentials are updated, which waits for a refresh that holds one.
Ending(w) == {i \in tx[w].ended : Active(i)}
Losing(w) ==
    {c \in DOMAIN credentials : credentials[c].session \in Ending(w)
                                /\ credentials[c].status = "ACTIVE"}

Consume(l) == links' = [links EXCEPT ![l].status = "consumed"]

\* The keys of a device and its prekeys, also those that were consumed.
PurgeDevice(w) ==
    LET d == tx[w].device
    IN  /\ Free(w, PreKey(d))
        /\ bundle' = bundle \ {d}
        /\ prekey' = [prekey EXCEPT ![d] = "none"]
        /\ UNCHANGED given

\* logout, revoke, logout_all, revoke_device, reset_password and the platform's.
EndSessions(w) ==
    /\ At(w, "sessions")
    /\ tx[w].todo = {}
    /\ \A c \in Losing(w) : Free(w, <<"credential", c>>)
    /\ sessions' = [i \in DOMAIN sessions |->
                       IF i \in Ending(w) THEN [sessions[i] EXCEPT !.status = "REVOKED"]
                                          ELSE sessions[i]]
    /\ credentials' = [c \in DOMAIN credentials |->
                          IF c \in Losing(w) THEN [credentials[c] EXCEPT !.status = "REVOKED"]
                                             ELSE credentials[c]]
    /\ IF tx[w].op = "revokeDevice"
       THEN device' = [device EXCEPT ![tx[w].device] = "REVOKED"]
            /\ PurgeDevice(w)
       ELSE UNCHANGED <<device, keys>>
    /\ IF tx[w].op = "reset"
       THEN Consume(tx[w].used) /\ password' = password + 1
       ELSE UNCHANGED <<links, password>>
    /\ Commit(w)
    /\ UNCHANGED <<verified, codes>>

\* verify_email.
VerifyEmail(w) ==
    /\ At(w, "verified")
    /\ verified' = TRUE
    /\ Consume(tx[w].used)
    /\ Commit(w)
    /\ UNCHANGED <<device, keys, sessions, credentials, password, codes>>

\* A new link, and no older one.
SendLink(w) ==
    /\ At(w, "lockLinks")
    /\ tx[w].todo = {}
    /\ links' = Append([l \in DOMAIN links |->
                          IF l \in tx[w].ended THEN [links[l] EXCEPT !.status = "consumed"]
                                               ELSE links[l]],
                       [to |-> tx[w].op, status |-> "open"])
    /\ Commit(w)
    /\ UNCHANGED <<device, keys, sessions, credentials, password, verified, codes>>

\* The unique key of device and prekey: what is consumed cannot be stored again.
StorePreKeys(d) ==
    /\ prekey[d] # "consumed"
    /\ prekey' = [prekey EXCEPT ![d] = "stored"]

\* upsert_device_keys: an insert, or an update that leaves the foreign keys alone, and
\* perhaps prekeys.
PublishKeys(w) ==
    /\ At(w, "bundle")
    /\ bundle' = bundle \union {tx[w].device}
    /\ \/ Refers(w) /\ StorePreKeys(tx[w].device)
       \/ (tx[w].device \in bundle \/ Refers(w)) /\ UNCHANGED prekey
    /\ Commit(w)
    /\ UNCHANGED <<device, given, sessions, credentials, account, codes>>

\* replenish.
Replenish(w) ==
    /\ At(w, "store")
    /\ Refers(w)
    /\ StorePreKeys(tx[w].device)
    /\ Commit(w)
    /\ UNCHANGED <<device, bundle, given, sessions, credentials, account, codes>>

GivePreKey(w) ==
    /\ At(w, "give")
    /\ prekey' = [prekey EXCEPT ![tx[w].device] = "consumed"]
    /\ given' = [given EXCEPT ![tx[w].device] = @ + 1]
    /\ Commit(w)
    /\ UNCHANGED <<device, bundle, sessions, credentials, account, codes>>

\* QRService.authorize.
Authorize(w) ==
    /\ At(w, "qr")
    /\ Free(w, QR)
    /\ qr.status = "PENDING"
    /\ qr' = [qr EXCEPT !.status = "AUTHORIZED", !.by = tx[w].self]
    /\ Commit(w)
    /\ UNCHANGED <<device, keys, sessions, credentials, account, otp>>

\* otp_request: the code goes out before the challenge is committed.
RequestOtp ==
    /\ otp = "none"
    /\ otp' = "PENDING"
    /\ UNCHANGED <<device, keys, sessions, credentials, account, qr, begun, tx>>

\* QRService.create, for the device that asks.
CreateQR(d) ==
    /\ qr.status = "none"
    /\ qr' = [status |-> "PENDING", by |-> 0, device |-> d]
    /\ UNCHANGED <<device, keys, sessions, credentials, account, otp, begun, tx>>

\* qr_status is the only command that keeps the EXPIRED it finds.
ExpireQR ==
    /\ qr.status \in {"PENDING", "AUTHORIZED"}
    /\ \A v \in Workers : tx[v] # NoTx => QR \notin tx[v].rows
    /\ qr' = [qr EXCEPT !.status = "EXPIRED"]
    /\ UNCHANGED <<device, keys, sessions, credentials, account, otp, begun, tx>>

-----------------------------------------------------------------------------

Begin(w) ==
    \/ \E i \in DOMAIN sessions :
        \/ Logout(w, i) \/ LogoutAll(w, i) \/ SwitchContext(w, i) \/ UploadKeys(w, i)
        \/ ReplenishPreKeys(w, i) \/ AuthorizeQR(w, i) \/ RevokePlatformSession(w, i)
        \/ \E j \in DOMAIN sessions : Revoke(w, i, j)
        \/ \E d \in Device : RevokeDevice(w, i, d)
    \/ RevokePlatformSessions(w)
    \/ \E d \in Device : Login(w, d) \/ OtpVerify(w, d) \/ FetchPreKey(w, d)
    \/ ConsumeQR(w) \/ ForgotPassword(w) \/ ResendVerification(w)
    \/ \E c \in DOMAIN credentials : Refresh(w, c)
    \/ \E l \in DOMAIN links : UseLink(w, l)

Step(w) ==
    \/ LockIdentity(w) \/ LockDevice(w) \/ SelectSessions(w) \/ LockRefreshed(w)
    \/ \E i \in DOMAIN sessions : LockSession(w, i)
    \/ SelectLinks(w) \/ \E l \in DOMAIN links : LockLink(w, l)
    \/ FindDevice(w) \/ NewDevice(w)

Finish(w) ==
    \/ CreateSession(w) \/ Rotate(w) \/ EndSessions(w) \/ SendLink(w)
    \/ VerifyEmail(w) \/ PublishKeys(w) \/ Replenish(w) \/ GivePreKey(w) \/ Authorize(w)

Next ==
    \/ \E w \in Workers : Begin(w) \/ Step(w) \/ Finish(w) \/ Rollback(w)
    \/ \E d \in Device : CreateQR(d)
    \/ RequestOtp \/ ExpireQR

Spec == Init /\ [][Next]_vars

-----------------------------------------------------------------------------
(* Properties.                                                             *)

\* The rows are what their columns allow, and a refresh credential belongs to a session.
TypeOK ==
    /\ device \in [Device -> {"none", "ACTIVE", "REVOKED"}]
    /\ bundle \subseteq Device
    /\ prekey \in [Device -> {"none", "stored", "consumed"}]
    /\ given \in [Device -> Nat]
    /\ sessions \in Seq([device : Device, status : {"ACTIVE", "REVOKED"},
                         by : {"login", "otp", "qr", "context"}])
    /\ credentials \in Seq([session : Nat, status : {"ACTIVE", "ROTATED", "REVOKED"}])
    /\ \A c \in DOMAIN credentials : credentials[c].session \in DOMAIN sessions
    /\ links \in Seq([to : {"reset", "verify"}, status : {"open", "consumed"}])
    /\ password \in Nat /\ verified \in BOOLEAN
    /\ otp \in {"none", "PENDING", "VERIFIED"}
    /\ qr \in [status : {"none", "PENDING", "AUTHORIZED", "CONSUMED", "EXPIRED"}, by : Nat,
               device : Device \union {AnyDevice}]
    /\ qr.status # "none" => qr.device \in Device
    /\ begun \in Nat

\* An active session has one refresh credential that can be used and an ended one has
\* none, however refreshes, repeated refreshes and the ways to end a session interleave
\* (session_service.py:167-231, 262-282).
OneLiveCredential ==
    \A i \in DOMAIN sessions :
        Cardinality({c \in DOMAIN credentials : credentials[c].session = i
                                               /\ credentials[c].status = "ACTIVE"})
            = IF Active(i) THEN 1 ELSE 0

\* A revoked device has no session and no published keys, although a context switch and
\* an upload read its status without a lock (dependencies.py:55-61, devices.py:85-117).
RevokedDeviceIsSilent ==
    \A d \in Device : device[d] = "REVOKED" =>
        /\ d \notin bundle /\ prekey[d] = "none"
        /\ \A i \in DOMAIN sessions : sessions[i].device = d => ~Active(i)

\* A changed password ends every session there is, with those that were being made while
\* it was changed (password.py:257-275, 389-409).
ResetEndsAll ==
    [][password' # password => \A i \in DOMAIN sessions' : sessions'[i].status # "ACTIVE"]_vars

\* What is good for one use is used once: a code and a QR challenge make one session each,
\* a prekey is given to one correspondent, and of the links of a kind that two requests
\* sent at the same time one at most still works (otp_service.py:68, qr_service.py:137,
\* e2ee_service.py:142-155, password.py:282-293, 336-358).
ChallengesOnce ==
    /\ \A kind \in {"otp", "qr"} :
          Cardinality({i \in DOMAIN sessions : sessions[i].by = kind}) <= 1
    /\ \A d \in Device : given[d] <= 1
    /\ \A kind \in {"reset", "verify"} :
          Cardinality({l \in DOMAIN links : links[l] = [to |-> kind, status |-> "open"]}) <= 1

=============================================================================
