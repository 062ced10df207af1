----------------------------- MODULE Onboarding -----------------------------
(***************************************************************************)
(* identity-service: the five ways in which an account begins.  Each is a  *)
(* saga of two transactions: the first leaves an identity and a durable    *)
(* intent, the second holds the row of the intent while user-service makes *)
(* a profile and organization-service a company or a membership, and ends  *)
(* with an active identity and a session.  The caller retries it.          *)
(*                                                                         *)
(* The calls to the other services are idempotent; what they have done     *)
(* stays when the transaction around them rolls back.                      *)
(***************************************************************************)
EXTENDS Integers, FiniteSets

CONSTANTS
    Saga,       \* intents that may ever be made; also names the identity it inserts
    Kind,       \* of a saga
    Mail,       \* address an identity of the saga has
    Phone,      \* number an identity of the saga has
    Worker,     \* requests open at once
    None,
    MaxLapses   \* intents that expire, invitations that are withdrawn or sent again (bound)

ASSUME KindAssumption ==
    /\ Kind \in [Saga -> {"personal", "company", "code", "phone", "mail"}]
    /\ None \notin Saga
    /\ \A s \in Saga : (Kind[s] = "phone") = (Mail[s] = None)
    /\ \A s \in Saga : (Kind[s] = "mail") = (Phone[s] = None)

VARIABLES
    identity,       \* status of the identity that a saga has inserted
    row,            \* the intents
    told,           \* identities with an identity.created event in the outbox
    sessions,       \* how many each saga has made
    profile,        \* user-service: identities that have one
    company,        \* organization-service: sagas whose company exists
    invitation,     \* organization-service
    token,          \* ... and which of its links is good, the first being 0
    member,         \* organization-service: who has accepted the invitation
    lapses,         \* so far
    tx              \* what a worker has read and does next

tables == <<identity, row, told, sessions>>
remote == <<profile, company, invitation, token, member>>
vars == <<tables, remote, lapses, tx>>

Invited(s) == Kind[s] \in {"phone", "mail"}

Init ==
    /\ identity = [s \in Saga |-> "none"]
    /\ row = [s \in Saga |-> [state |-> "none", identity |-> None, expired |-> FALSE,
                              token |-> 0]]
    /\ told = {}
    /\ sessions = [s \in Saga |-> 0]
    /\ profile = {}
    /\ company = {}
    /\ invitation = [s \in Saga |-> IF Invited(s) THEN "PENDING" ELSE None]
    /\ token = [s \in Saga |-> 0]
    /\ member = [s \in Saga |-> None]
    /\ lapses = 0
    /\ tx = [w \in Worker |-> None]

-----------------------------------------------------------------------------
(* The first transaction.                                                  *)

WithMail(s) == {i \in Saga : identity[i] # "none" /\ Mail[i] # None /\ Mail[i] = Mail[s]}
WithPhone(s) == {i \in Saga : identity[i] # "none" /\ Phone[i] # None /\ Phone[i] = Phone[s]}

\* The second transaction of another worker holds the row of the intent.
RowFree(s) == \A v \in Worker : tx[v] # None => tx[v].saga # s \/ tx[v].next = "lock"

\* The worker goes on with identity i, of which it keeps the status it has read.
Proceed(w, s, i) ==
    /\ tx[w] = None
    /\ tx' = [tx EXCEPT ![w] = [saga |-> s, next |-> "lock",
                                pending |-> Kind[s] = "mail" /\ identity'[i] = "PENDING"]]
    /\ UNCHANGED <<told, sessions, remote, lapses>>

Verified(s, i) == [row EXCEPT ![s].state = "VERIFIED", ![s].identity = i]
Bound(rows, s) == [rows EXCEPT ![s].token = token[s]]

Insert(w, s) ==
    /\ identity' = [identity EXCEPT ![s] = "PENDING"]
    /\ row' = Verified(s, s)
    /\ Proceed(w, s, s)

Resume(w, s) ==
    /\ row[s].state = "VERIFIED"
    /\ UNCHANGED <<identity, row>>
    /\ Proceed(w, s, row[s].identity)

RegisterPersonal(w, s) ==
    /\ Kind[s] = "personal"
    /\ \/ WithMail(s) = {} /\ WithPhone(s) = {} /\ Insert(w, s)
       \/ identity[s] = "PENDING" /\ Resume(w, s)

RegisterCompany(w, s) ==
    /\ Kind[s] = "company"
    /\ RowFree(s)
    /\ \/ WithMail(s) = {} /\ WithPhone(s) = {} /\ Insert(w, s)
       \/ Resume(w, s)

\* A company that is registered with a code: the intent comes before the identity.
StartCompany(s) ==
    /\ Kind[s] = "code"
    /\ row[s].state = "none"
    /\ WithMail(s) = {} /\ WithPhone(s) = {}
    /\ \A r \in Saga : Kind[r] = "code" /\ Phone[r] = Phone[s] =>
           row[r].state # "PENDING" \/ row[r].expired
    /\ row' = [row EXCEPT ![s].state = "PENDING"]
    /\ UNCHANGED <<identity, told, sessions, remote, lapses, tx>>

VerifyCompany(w, s) ==
    /\ Kind[s] = "code"
    /\ RowFree(s)
    /\ ~row[s].expired
    /\ \/ /\ row[s].state = "PENDING"
          /\ WithMail(s) = {} /\ WithPhone(s) = {}
          /\ Insert(w, s)
       \/ Resume(w, s)

\* organization-service: who has the link may ask about an invitation that is pending ...
ValidToken(s) == invitation[s] = "PENDING"

\* ... and identity-service about one that is accepted, for the member whom it has made.
Resumable(s) ==
    /\ invitation[s] = "ACCEPTED"
    /\ row[s].token = token[s] /\ member[s] = row[s].identity

\* resolve, of an intent that may expire while organization-service answers.
Resolve(s) == ValidToken(s) \/ (row[s].state = "VERIFIED" /\ Resumable(s))

\* A code for an invitation: an intent that had expired begins again.
RequestCode(s) ==
    /\ Kind[s] = "phone"
    /\ Resolve(s)
    /\ RowFree(s)
    /\ row[s].state # "COMPLETED"
    /\ ~(row[s].state = "VERIFIED" /\ ~row[s].expired /\ row[s].token = token[s])
    /\ row' = Bound([row EXCEPT ![s].state = "PENDING", ![s].expired = FALSE], s)
    /\ UNCHANGED <<identity, told, sessions, remote, lapses, tx>>

\* Another intent may share a pending identity only if an invitation has reserved it.
Reserved(s, i) ==
    \/ row[s].identity = i
    \/ \E r \in Saga : Invited(r) /\ row[r].identity = i /\ row[r].state = "VERIFIED"

Verify(w, s) ==
    /\ Kind[s] = "phone"
    /\ RowFree(s)
    /\ ~row[s].expired
    /\ \/ row[s].state = "PENDING" /\ WithPhone(s) = {} /\ Insert(w, s)
       \/ /\ row[s].state = "PENDING"
          /\ \E i \in WithPhone(s) :
                /\ identity[i] = "ACTIVE" \/ Reserved(s, i)
                /\ row' = Verified(s, i)
                /\ UNCHANGED identity
                /\ Proceed(w, s, i)
       \/ Resume(w, s)

\* An invitation by mail is accepted with a password, which who registered with a code
\* does not have.  The link of an intent is good for it, and no other: its second row for
\* the invitation would not be unique.
AcceptByMail(w, s) ==
    /\ Kind[s] = "mail"
    /\ RowFree(s)
    /\ \/ /\ row[s].state = "none" /\ invitation[s] = "PENDING" /\ WithMail(s) = {}
          /\ identity' = [identity EXCEPT ![s] = "PENDING"]
          /\ row' = Bound(Verified(s, s), s)
          /\ Proceed(w, s, s)
       \/ /\ row[s].state = "none" /\ invitation[s] = "PENDING"
          /\ \E i \in WithMail(s) :
                /\ Kind[i] # "code"
                /\ row' = Bound(Verified(s, i), s)
                /\ UNCHANGED identity
                /\ Proceed(w, s, i)
       \/ ~row[s].expired /\ Resume(w, s)

-----------------------------------------------------------------------------
(* The second transaction.                                                 *)

At(w, next) == tx[w] # None /\ tx[w].next = next
Go(w, next) == tx' = [tx EXCEPT ![w].next = next]

\* Mutant: the row is neither locked nor read again.
LockRowNot(w) ==
    /\ At(w, "lock")
    /\ Go(w, "profile")
    /\ UNCHANGED <<tables, remote, lapses>>

\* The intent is locked and looked at again.
LockRow(w) ==
    /\ At(w, "lock")
    /\ LET s == tx[w].saga IN
       /\ RowFree(s)
       /\ row[s].state # "COMPLETED"
       /\ Kind[s] = "mail" => row[s].state = "VERIFIED"
       /\ Kind[s] \in {"code", "phone"} => ~row[s].expired
    /\ Go(w, "profile")
    /\ UNCHANGED <<tables, remote, lapses>>

ProvisionProfile(w) ==
    /\ At(w, "profile")
    /\ profile' = profile \union {row[tx[w].saga].identity}
    /\ Go(w, IF Kind[tx[w].saga] = "personal" THEN "end" ELSE "place")
    /\ UNCHANGED <<tables, company, invitation, token, member, lapses>>

ProvisionCompany(w) ==
    /\ At(w, "place")
    /\ ~Invited(tx[w].saga)
    /\ company' = company \union {tx[w].saga}
    /\ Go(w, "end")
    /\ UNCHANGED <<tables, profile, invitation, token, member, lapses>>

\* accept_bound: once, and again for the member whom it has made.
AcceptInvitation(w) ==
    /\ At(w, "place")
    /\ LET s == tx[w].saga IN
       /\ Invited(s) /\ row[s].token = token[s]
       /\ \/ invitation[s] = "PENDING"
          \/ invitation[s] = "ACCEPTED" /\ member[s] = row[s].identity
       /\ invitation' = [invitation EXCEPT ![s] = "ACCEPTED"]
       /\ member' = [member EXCEPT ![s] = row[s].identity]
    /\ Go(w, "end")
    /\ UNCHANGED <<tables, profile, company, token, lapses>>

\* Mutant: the status is set before it is asked for.
ActivateFirst(w) ==
    LET s == tx[w].saga
        i == row[s].identity
    IN  /\ identity' = [identity EXCEPT ![i] = "ACTIVE"]
        /\ told' = IF Invited(s) THEN told ELSE told \union {i}

Activated(i, news) ==
    /\ identity' = [identity EXCEPT ![i] = "ACTIVE"]
    /\ told' = IF news THEN told \union {i} ELSE told

\* Registrations tell of their identity, at every try.
ActivateOwner(s) == ~Invited(s) /\ Activated(row[s].identity, TRUE)

\* An invitation tells of an identity that is pending ...
ActivateInvited(s) ==
    /\ Kind[s] = "phone"
    /\ Activated(row[s].identity, identity[row[s].identity] = "PENDING")

\* ... or, with a password, that was when the request began.
ActivateByMail(w, s) == Kind[s] = "mail" /\ Activated(row[s].identity, tx[w].pending)

Activate(w) ==
    LET s == tx[w].saga IN ActivateOwner(s) \/ ActivateInvited(s) \/ ActivateByMail(w, s)

\* issue.
SignIn(s) == sessions' = [sessions EXCEPT ![s] = @ + 1]

End(w) ==
    /\ At(w, "end")
    /\ Activate(w)
    /\ LET s == tx[w].saga IN
       /\ SignIn(s)
       /\ row' = [row EXCEPT ![s].state = "COMPLETED"]
    /\ tx' = [tx EXCEPT ![w] = None]
    /\ UNCHANGED <<remote, lapses>>

\* The device is refused: personal and code roll back, the others keep what they have
\* activated, without a session.
RefuseDevice(w) ==
    /\ At(w, "end")
    /\ Kind[tx[w].saga] \in {"company", "phone", "mail"}
    /\ Activate(w)
    /\ tx' = [tx EXCEPT ![w] = None]
    /\ UNCHANGED <<row, sessions, remote, lapses>>

\* organization-service refuses the invitation, fails or does not answer.
RefuseInvitation(w) ==
    /\ At(w, "place") /\ Invited(tx[w].saga)
    /\ tx' = [tx EXCEPT ![w] = None]
    /\ UNCHANGED <<tables, remote, lapses>>

\* Any other call that failed or whose answer was lost, a refusal, or a crash.
GiveUp(w) ==
    /\ tx[w] # None
    /\ ~(At(w, "place") /\ Invited(tx[w].saga))
    /\ tx' = [tx EXCEPT ![w] = None]
    /\ UNCHANGED <<tables, remote, lapses>>

-----------------------------------------------------------------------------
(* Time and administrators.                                                *)

Lapse == lapses < MaxLapses /\ lapses' = lapses + 1

\* An intent by mail expires with its invitation.
Expire(s) ==
    /\ Kind[s] \in {"code", "phone", "mail"}
    /\ row[s].state \in {"PENDING", "VERIFIED"} /\ ~row[s].expired
    /\ Lapse
    /\ row' = [row EXCEPT ![s].expired = TRUE]
    /\ invitation' = IF Kind[s] = "mail" /\ invitation[s] = "PENDING"
                     THEN [invitation EXCEPT ![s] = "REVOKED"] ELSE invitation
    /\ UNCHANGED <<identity, told, sessions, profile, company, token, member, tx>>

\* It is revoked or expires, or whoever invited may no longer do so.
RevokeInvitation(s) ==
    /\ invitation[s] = "PENDING"
    /\ Lapse
    /\ invitation' = [invitation EXCEPT ![s] = "REVOKED"]
    /\ UNCHANGED <<tables, profile, company, token, member, tx>>

\* One that has a number, with or without an address, is sent again, with a link that takes
\* the place of the one before.
ResendInvitation(s) ==
    /\ invitation[s] = "PENDING"
    /\ Lapse
    /\ token' = [token EXCEPT ![s] = @ + 1]
    /\ UNCHANGED <<tables, profile, company, invitation, member, tx>>

Next ==
    \/ \E w \in Worker, s \in Saga :
        \/ RegisterPersonal(w, s) \/ RegisterCompany(w, s) \/ VerifyCompany(w, s)
        \/ Verify(w, s) \/ AcceptByMail(w, s)
    \/ \E w \in Worker :
        \/ LockRow(w) \/ ProvisionProfile(w) \/ ProvisionCompany(w) \/ AcceptInvitation(w)
        \/ End(w) \/ RefuseDevice(w) \/ RefuseInvitation(w) \/ GiveUp(w)
    \/ \E s \in Saga :
        \/ StartCompany(s) \/ RequestCode(s)
        \/ Expire(s) \/ RevokeInvitation(s) \/ ResendInvitation(s)

Spec == Init /\ [][Next]_vars

-----------------------------------------------------------------------------
(* Properties.                                                             *)

\* The tables hold what their columns allow; a request knows its saga.
TypeOK ==
    /\ identity \in [Saga -> {"none", "PENDING", "ACTIVE"}]
    /\ row \in [Saga -> [state : {"none", "PENDING", "VERIFIED", "COMPLETED"},
                         identity : Saga \union {None}, expired : BOOLEAN, token : Nat]]
    /\ token \in [Saga -> Nat]
    /\ told \subseteq Saga
    /\ sessions \in [Saga -> Nat]
    /\ profile \subseteq Saga
    /\ company \subseteq Saga
    /\ invitation \in [Saga -> {"PENDING", "REVOKED", "ACCEPTED", None}]
    /\ member \in [Saga -> Saga \union {None}]
    /\ tx \in [Worker -> [saga : Saga, next : {"lock", "profile", "place", "end"},
                          pending : BOOLEAN] \union {None}]

\* However often an onboarding is retried, at the same time too, it signs in once, and it
\* is completed if and only if it has (password.py:167-199, 630-665; registration.py:272-303;
\* invitations.py:295-369).
EndsOnce == \A s \in Saga : sessions[s] = IF row[s].state = "COMPLETED" THEN 1 ELSE 0

\* An account that may sign in is known to the other services: its profile exists, it is
\* a member of something unless it is personal, and an event tells of it.  Accounts that
\* may not are told of to nobody.  What organization-service has made belongs to an
\* identity that user-service knows, and a membership to the identity that the intent
\* still names, although intents expire and begin again (invitations.py:187-216,
\* 259-288, onboarding.py:85-96).
AccountsArePlaced ==
    /\ \A i \in Saga :
          /\ (identity[i] = "ACTIVE") = (i \in told)
          /\ identity[i] = "ACTIVE" =>
                 /\ i \in profile
                 /\ Kind[i] = "personal" \/ i \in company \/ \E s \in Saga : member[s] = i
    /\ \A s \in company : row[s].identity \in profile
    /\ \A s \in Saga : member[s] # None => member[s] = row[s].identity /\ member[s] \in profile

=============================================================================
