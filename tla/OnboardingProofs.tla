-------------------------- MODULE OnboardingProofs --------------------------
(***************************************************************************)
(* Proofs about Onboarding, for any intents, addresses, numbers, requests  *)
(* and lapses.                                                             *)
(***************************************************************************)
EXTENDS Onboarding, TLAPS

\* The worker holds the row of its intent.
Inside(w) == tx[w] # None /\ tx[w].next # "lock"

Locked ==
    \A v, w \in Worker : v # w /\ Inside(v) /\ Inside(w) => tx[v].saga # tx[w].saga

\* An intent that is verified names an identity that was inserted: its own, if it was not
\* invited, or one with the number of the invitation.
RowInv ==
    \A s \in Saga :
        /\ row[s].state = "none" => row[s].identity = None
        /\ row[s].state \in {"VERIFIED", "COMPLETED"} => row[s].identity # None
        /\ row[s].identity # None =>
              /\ identity[row[s].identity] # "none"
              /\ Invited(s) \/ row[s].identity = s
              /\ Kind[s] = "phone" => Phone[row[s].identity] = Phone[s]

\* So two identities never have one number.
PhoneInv ==
    \A i, j \in Saga :
        identity[i] # "none" /\ identity[j] # "none" /\ Phone[i] # None /\ Phone[i] = Phone[j]
            => i = j

\* What a request has read before it locked the row, and what it has done since.
Work(w) ==
    LET s == tx[w].saga
        i == row[s].identity
    IN  /\ i # None
        /\ Kind[s] = "mail" /\ ~tx[w].pending => identity[i] = "ACTIVE"
        /\ tx[w].next # "lock" => row[s].state # "COMPLETED"
        /\ tx[w].next \in {"place", "end"} => i \in profile
        /\ tx[w].next = "end" => Kind[s] = "personal" \/ s \in company \/ member[s] = i

WorkInv == \A w \in Worker : tx[w] # None => Work(w)

RemoteInv ==
    /\ \A s \in Saga : invitation[s] # "ACCEPTED" => member[s] = None
    /\ \A s \in company : ~Invited(s)

IInv ==
    /\ TypeOK
    /\ Locked /\ RowInv /\ PhoneInv /\ WorkInv /\ RemoteInv
    /\ EndsOnce /\ AccountsArePlaced

-----------------------------------------------------------------------------
(* What the steps of the first transaction have in common.                 *)

RowType == [state : {"none", "PENDING", "VERIFIED", "COMPLETED"},
            identity : Saga \union {None}, expired : BOOLEAN, token : Nat]

LEMMA RowTyped == IInv => row \in [Saga -> RowType]
  BY DEF IInv, TypeOK, RowType

\* A verified intent names its identity, and the others are as they were.
LEMMA VerifiedRow ==
  ASSUME row \in [Saga -> RowType], NEW s \in Saga, NEW i \in Saga
  PROVE  /\ Verified(s, i) \in [Saga -> RowType]
         /\ Verified(s, i)[s].state = "VERIFIED" /\ Verified(s, i)[s].identity = i
         /\ \A t \in Saga \ {s} : Verified(s, i)[t] = row[t]
<1> DEFINE new == [row[s] EXCEPT !.state = "VERIFIED", !.identity = i]
<1>1. Verified(s, i) = [row EXCEPT ![s] = new]
  BY DEF Verified
<1>2. new \in RowType /\ new.state = "VERIFIED" /\ new.identity = i
  BY DEF RowType
<1> HIDE DEF new
<1> QED
  BY <1>1, <1>2

\* An intent without an identity is in nobody's hands, and nothing was made for it.
LEMMA NothingYet ==
  ASSUME IInv, NEW s \in Saga, row[s].identity = None
  PROVE  /\ \A w \in Worker : tx[w] # None => tx[w].saga # s
         /\ row[s].state \notin {"VERIFIED", "COMPLETED"}
         /\ s \notin company /\ member[s] = None
         /\ sessions[s] = 0
  BY KindAssumption DEF IInv, TypeOK, RowInv, WorkInv, Work, AccountsArePlaced, EndsOnce

LEMMA InsertKeeps ==
  ASSUME IInv, NEW w \in Worker, NEW s \in Saga,
         identity[s] = "none",
         Phone[s] # None => WithPhone(s) = {},
         row[s].identity = None,
         identity' = [identity EXCEPT ![s] = "PENDING"],
         row' \in [Saga -> RowType],
         row'[s].state = "VERIFIED", row'[s].identity = s,
         \A t \in Saga \ {s} : row'[t] = row[t],
         Proceed(w, s, s)
  PROVE  IInv'
<1> USE NothingYet, KindAssumption
<1>1. TypeOK'
  BY DEF IInv, TypeOK, Proceed, remote, RowType
<1>2. Locked'
  BY DEF IInv, TypeOK, Locked, Inside, Proceed
<1>3. RowInv'
  BY DEF IInv, TypeOK, RowInv, Invited
<1>4. PhoneInv'
  BY DEF IInv, TypeOK, PhoneInv, WithPhone
<1>5. WorkInv'
  <2> SUFFICES ASSUME NEW v \in Worker, tx'[v] # None PROVE Work(v)'
    BY DEF WorkInv
  <2>1. CASE v = w
    <3>1. /\ tx'[v].saga = s /\ tx'[v].next = "lock"
          /\ Kind[s] = "mail" /\ ~tx'[v].pending => identity'[s] # "PENDING"
      BY <2>1 DEF IInv, TypeOK, Proceed
    <3>2. row'[s].identity = s /\ s \in Saga /\ identity'[s] \in {"PENDING", "ACTIVE"}
      BY DEF IInv, TypeOK, RowInv
    <3> QED
      BY <3>1, <3>2 DEF Work
  <2>2. CASE v # w
    <3>1. tx'[v] = tx[v] /\ tx[v] # None /\ tx[v].saga \in Saga /\ Work(v)
      BY <2>2 DEF IInv, TypeOK, WorkInv, Proceed
    <3> QED
      BY <3>1 DEF IInv, TypeOK, Work, Proceed, remote
  <2> QED
    BY <2>1, <2>2
<1>6. RemoteInv'
  BY DEF IInv, RemoteInv, Proceed, remote, Invited
<1>7. EndsOnce'
  <2>1. sessions' = sessions /\ sessions[s] = 0 /\ EndsOnce
    BY DEF IInv, Proceed
  <2> QED
    BY <2>1 DEF EndsOnce
<1>8. AccountsArePlaced'
  <2>1. UNCHANGED <<told, profile, company, member>> /\ s \notin told
    BY DEF IInv, AccountsArePlaced, Proceed, remote
  <2>2. \A i \in Saga : identity'[i] = "ACTIVE" <=> identity[i] = "ACTIVE"
    BY DEF IInv, TypeOK
  <2>3. company \subseteq Saga /\ s \notin company /\ member[s] = None /\ AccountsArePlaced
    BY DEF IInv, TypeOK
  <2> QED
    BY <2>1, <2>2, <2>3 DEF AccountsArePlaced
<1> QED
  BY <1>1, <1>2, <1>3, <1>4, <1>5, <1>6, <1>7, <1>8 DEF IInv

\* An invitation finds an identity.
LEMMA AdoptKeeps ==
  ASSUME IInv, NEW w \in Worker, NEW s \in Saga, NEW i \in Saga,
         Invited(s), RowFree(s),
         identity[i] # "none",
         Kind[s] = "phone" => Phone[i] = Phone[s],
         row[s].state # "COMPLETED", row[s].identity \in {None, i},
         UNCHANGED identity,
         row' \in [Saga -> RowType],
         row'[s].state = "VERIFIED", row'[s].identity = i,
         \A t \in Saga \ {s} : row'[t] = row[t],
         Proceed(w, s, i)
  PROVE  IInv'
<1> USE KindAssumption
<1>1. TypeOK'
  BY DEF IInv, TypeOK, Proceed, remote, RowType
<1>2. Locked'
  BY DEF IInv, TypeOK, Locked, Inside, Proceed
<1>3. RowInv'
  BY DEF IInv, TypeOK, RowInv, Invited
<1>4. PhoneInv'
  BY DEF IInv, PhoneInv
<1>5. WorkInv'
  <2> SUFFICES ASSUME NEW v \in Worker, tx'[v] # None PROVE Work(v)'
    BY DEF WorkInv
  <2>1. CASE v = w
    <3>1. /\ tx'[v].saga = s /\ tx'[v].next = "lock"
          /\ Kind[s] = "mail" /\ ~tx'[v].pending => identity'[i] # "PENDING"
      BY <2>1 DEF IInv, TypeOK, Proceed
    <3>2. row'[s].identity = i /\ i \in Saga /\ identity'[i] \in {"PENDING", "ACTIVE"}
      BY DEF IInv, TypeOK, RowInv
    <3> QED
      BY <3>1, <3>2 DEF Work
  <2>2. CASE v # w
    <3>1. tx'[v] = tx[v] /\ tx[v] # None /\ tx[v].saga \in Saga /\ Work(v)
      BY <2>2 DEF IInv, TypeOK, WorkInv, Proceed
    <3> QED
      BY <3>1 DEF IInv, TypeOK, Work, RowFree, Proceed, remote
  <2> QED
    BY <2>1, <2>2
<1>6. RemoteInv'
  BY DEF IInv, RemoteInv, Proceed, remote, Invited
<1>7. EndsOnce'
  BY DEF IInv, TypeOK, EndsOnce, Proceed
<1>8. AccountsArePlaced'
  BY DEF IInv, TypeOK, AccountsArePlaced, RemoteInv, Proceed, remote
<1> QED
  BY <1>1, <1>2, <1>3, <1>4, <1>5, <1>6, <1>7, <1>8 DEF IInv

LEMMA ResumeKeeps ==
  ASSUME IInv, NEW w \in Worker, NEW s \in Saga, Resume(w, s)
  PROVE  IInv'
<1> USE KindAssumption
<1>1. TypeOK'
  BY DEF IInv, TypeOK, Resume, Proceed, remote
<1>2. Locked'
  BY DEF IInv, TypeOK, Locked, Inside, Resume, Proceed
<1>3. RowInv' /\ PhoneInv'
  BY DEF IInv, RowInv, PhoneInv, Invited, Resume
<1>4. WorkInv'
  <2> SUFFICES ASSUME NEW v \in Worker, tx'[v] # None PROVE Work(v)'
    BY DEF WorkInv
  <2>1. CASE v = w
    <3>1. /\ tx'[v].saga = s /\ tx'[v].next = "lock"
          /\ Kind[s] = "mail" /\ ~tx'[v].pending => identity'[row[s].identity] # "PENDING"
      BY <2>1 DEF IInv, TypeOK, Proceed, Resume
    <3>2. row'[s].identity = row[s].identity /\ row[s].identity \in Saga /\ identity'[row[s].identity] \in {"PENDING", "ACTIVE"}
      BY DEF IInv, TypeOK, RowInv, Resume
    <3> QED
      BY <3>1, <3>2 DEF Work
  <2>2. CASE v # w
    <3>1. tx'[v] = tx[v] /\ tx[v] # None /\ tx[v].saga \in Saga /\ Work(v)
      BY <2>2 DEF IInv, TypeOK, WorkInv, Proceed, Resume
    <3> QED
      BY <3>1 DEF Resume, Work, Proceed, remote
  <2> QED
    BY <2>1, <2>2
<1>5. RemoteInv'
  BY DEF IInv, RemoteInv, Resume, Proceed, remote, Invited
<1>6. EndsOnce' /\ AccountsArePlaced'
  BY DEF IInv, EndsOnce, AccountsArePlaced, Resume, Proceed, remote
<1> QED
  BY <1>1, <1>2, <1>3, <1>4, <1>5, <1>6 DEF IInv

\* The intent changes, and neither its identity nor whether it is verified is lost ...
LEMMA RowKeeps ==
  ASSUME IInv, NEW s \in Saga,
         row' \in [Saga -> RowType],
         row'[s].identity = row[s].identity,
         \/ row'[s].state = row[s].state
         \/ row'[s].state = "PENDING" /\ row[s].state # "COMPLETED",
         \A t \in Saga \ {s} : row'[t] = row[t],
         UNCHANGED <<identity, told, sessions, profile, company, token, member, tx>>,
         invitation' \in [Saga -> {"PENDING", "REVOKED", "ACCEPTED", None}],
         \A t \in Saga : invitation'[t] # "ACCEPTED" => invitation[t] # "ACCEPTED"
  PROVE  IInv'
<1> USE KindAssumption
<1>1. TypeOK'
  BY DEF IInv, TypeOK, RowType
<1>2. Locked'
  BY DEF IInv, Locked, Inside
<1>3. RowInv' /\ PhoneInv'
  BY DEF IInv, TypeOK, RowInv, PhoneInv, Invited
<1>4. WorkInv'
  <2> SUFFICES ASSUME NEW v \in Worker, tx'[v] # None PROVE Work(v)'
    BY DEF WorkInv
  <2>1. tx'[v] = tx[v] /\ tx[v].saga \in Saga /\ Work(v)
    BY DEF IInv, TypeOK, WorkInv
  <2> QED
    BY <2>1 DEF Work
<1>5. RemoteInv'
  BY DEF IInv, RemoteInv, Invited
<1>6. EndsOnce'
  BY DEF IInv, TypeOK, EndsOnce
<1>7. AccountsArePlaced'
  <2>1. \A t \in Saga : row'[t].identity = row[t].identity
    OBVIOUS
  <2>2. company \subseteq Saga /\ AccountsArePlaced
    BY DEF IInv, TypeOK
  <2> QED
    BY <2>1, <2>2 DEF AccountsArePlaced
<1> QED
  BY <1>1, <1>2, <1>3, <1>4, <1>5, <1>6, <1>7 DEF IInv

\* ... or the request ends with nothing done.
LEMMA LeaveKeeps ==
  ASSUME IInv, NEW w \in Worker,
         tx' = [tx EXCEPT ![w] = None],
         UNCHANGED <<tables, remote>>
  PROVE  IInv'
<1> USE DEF tables, remote
<1>1. TypeOK'
  BY DEF IInv, TypeOK
<1>2. Locked'
  BY DEF IInv, TypeOK, Locked, Inside
<1>3. RowInv' /\ PhoneInv' /\ RemoteInv'
  BY DEF IInv, RowInv, PhoneInv, RemoteInv, Invited
<1>4. WorkInv'
  BY DEF IInv, TypeOK, WorkInv, Work
<1>5. EndsOnce' /\ AccountsArePlaced'
  BY DEF IInv, EndsOnce, AccountsArePlaced
<1> QED
  BY <1>1, <1>2, <1>3, <1>4, <1>5 DEF IInv

-----------------------------------------------------------------------------
(* The first transaction.                                                  *)

\* Who is found by no address, and by no number, is not inserted.
LEMMA NotFound ==
  ASSUME NEW s \in Saga
  PROVE  /\ Kind[s] # "phone" /\ WithMail(s) = {} => identity[s] = "none"
         /\ Kind[s] # "mail" /\ WithPhone(s) = {} => identity[s] = "none"
         /\ Kind[s] = "mail" => Phone[s] = None
  BY KindAssumption DEF WithMail, WithPhone

LEMMA InsertStep ==
  ASSUME IInv, NEW w \in Worker, NEW s \in Saga, Insert(w, s),
         identity[s] = "none", WithPhone(s) = {}, ~Invited(s)
  PROVE  IInv'
<1>1. row[s].identity = None
  BY DEF IInv, TypeOK, RowInv
<1>2. /\ row' \in [Saga -> RowType]
      /\ row'[s].state = "VERIFIED" /\ row'[s].identity = s
      /\ \A t \in Saga \ {s} : row'[t] = row[t]
  BY RowTyped, VerifiedRow DEF Insert
<1> QED
  BY <1>1, <1>2, InsertKeeps DEF Insert

LEMMA VerifyKeeps ==
  ASSUME IInv, NEW w \in Worker, NEW s \in Saga, Verify(w, s)
  PROVE  IInv'
<1>1. Kind[s] = "phone" /\ Phone[s] # None /\ Invited(s) /\ RowFree(s)
  BY KindAssumption DEF Verify, Invited
<1>2. row[s].identity # None => row[s].identity \in WithPhone(s)
  BY <1>1 DEF IInv, TypeOK, RowInv, WithPhone
<1>3. CASE row[s].state = "PENDING" /\ WithPhone(s) = {} /\ Insert(w, s)
  <2>1. identity[s] = "none" /\ row[s].identity = None
    BY <1>1, <1>2, <1>3, NotFound
  <2>2. /\ row' \in [Saga -> RowType]
        /\ row'[s].state = "VERIFIED" /\ row'[s].identity = s
        /\ \A t \in Saga \ {s} : row'[t] = row[t]
    BY <1>3, RowTyped, VerifiedRow DEF Insert
  <2> QED
    BY <1>3, <2>1, <2>2, InsertKeeps DEF Insert
<1>4. ASSUME row[s].state = "PENDING", NEW i \in WithPhone(s),
             row' = Verified(s, i), UNCHANGED identity, Proceed(w, s, i)
      PROVE  IInv'
  <2>1. i \in Saga /\ identity[i] # "none" /\ Phone[i] = Phone[s]
    BY <1>4 DEF WithPhone
  <2>2. row[s].identity \in {None, i}
    BY <1>1, <1>2, <2>1 DEF IInv, TypeOK, PhoneInv, WithPhone
  <2>3. /\ row' \in [Saga -> RowType]
        /\ row'[s].state = "VERIFIED" /\ row'[s].identity = i
        /\ \A t \in Saga \ {s} : row'[t] = row[t]
    BY <1>4, <2>1, RowTyped, VerifiedRow
  <2>4. row[s].state # "COMPLETED"
    BY <1>4
  <2> QED
    BY <1>1, <1>4, <2>1, <2>2, <2>3, <2>4, AdoptKeeps
<1>5. CASE Resume(w, s)
  BY <1>5, ResumeKeeps
<1> QED
  BY <1>3, <1>4, <1>5 DEF Verify

LEMMA AcceptByMailKeeps ==
  ASSUME IInv, NEW w \in Worker, NEW s \in Saga, AcceptByMail(w, s)
  PROVE  IInv'
<1>1. Kind[s] = "mail" /\ Phone[s] = None /\ Invited(s) /\ RowFree(s)
  BY NotFound DEF AcceptByMail, Invited
<1>2. ASSUME NEW i \in Saga, row' = Bound(Verified(s, i), s)
      PROVE  /\ row' \in [Saga -> RowType]
             /\ row'[s].state = "VERIFIED" /\ row'[s].identity = i
             /\ \A t \in Saga \ {s} : row'[t] = row[t]
  <2> DEFINE rows == Verified(s, i)
  <2>1. /\ rows \in [Saga -> RowType]
        /\ rows[s].state = "VERIFIED" /\ rows[s].identity = i
        /\ \A t \in Saga \ {s} : rows[t] = row[t]
    BY RowTyped, VerifiedRow
  <2>2. row' = [rows EXCEPT ![s].token = token[s]] /\ token[s] \in Nat
    BY <1>2 DEF Bound, IInv, TypeOK
  <2> HIDE DEF rows
  <2> QED
    BY <2>1, <2>2 DEF RowType
<1>3. row[s].state = "none" => row[s].identity = None
  BY DEF IInv, RowInv
<1>4. ASSUME row[s].state = "none", WithMail(s) = {},
             identity' = [identity EXCEPT ![s] = "PENDING"],
             row' = Bound(Verified(s, s), s), Proceed(w, s, s)
      PROVE  IInv'
  <2>1. identity[s] = "none"
    BY <1>1, <1>4, NotFound
  <2> QED
    BY <1>1, <1>2, <1>3, <1>4, <2>1, InsertKeeps
<1>5. ASSUME row[s].state = "none", NEW i \in WithMail(s),
             row' = Bound(Verified(s, i), s), UNCHANGED identity, Proceed(w, s, i)
      PROVE  IInv'
  <2>1. i \in Saga /\ identity[i] # "none"
    BY <1>5 DEF WithMail
  <2>2. row[s].state # "COMPLETED" /\ Kind[s] # "phone"
    BY <1>1, <1>5
  <2> QED
    BY <1>1, <1>2, <1>3, <1>5, <2>1, <2>2, AdoptKeeps
<1>6. CASE Resume(w, s)
  BY <1>6, ResumeKeeps
<1> QED
  BY <1>4, <1>5, <1>6 DEF AcceptByMail

LEMMA RegisterKeeps ==
  ASSUME IInv, NEW w \in Worker, NEW s \in Saga,
         RegisterPersonal(w, s) \/ RegisterCompany(w, s) \/ VerifyCompany(w, s)
  PROVE  IInv'
<1>1. ~Invited(s) /\ Kind[s] # "mail"
  BY DEF RegisterPersonal, RegisterCompany, VerifyCompany, Invited
<1>2. \/ Resume(w, s)
      \/ WithPhone(s) = {} /\ Insert(w, s)
  BY DEF RegisterPersonal, RegisterCompany, VerifyCompany
<1> QED
  BY <1>1, <1>2, NotFound, InsertStep, ResumeKeeps

-----------------------------------------------------------------------------
(* The second transaction.                                                 *)

LEMMA LockRowKeeps ==
  ASSUME IInv, NEW w \in Worker, LockRow(w)
  PROVE  IInv'
<1> DEFINE s == tx[w].saga
<1>1. /\ tx[w] # None /\ s \in Saga /\ RowFree(s) /\ row[s].state # "COMPLETED"
      /\ tx' = [tx EXCEPT ![w].next = "profile"]
      /\ UNCHANGED <<tables, remote>>
  BY DEF LockRow, At, Go, IInv, TypeOK
<1> USE DEF tables, remote
<1>2. TypeOK'
  BY <1>1 DEF IInv, TypeOK
<1>3. Locked'
  BY <1>1 DEF IInv, TypeOK, Locked, Inside, RowFree
<1>4. RowInv' /\ PhoneInv' /\ RemoteInv'
  BY <1>1 DEF IInv, RowInv, PhoneInv, RemoteInv, Invited
<1>5. WorkInv'
  BY <1>1 DEF IInv, TypeOK, WorkInv, Work
<1>6. EndsOnce' /\ AccountsArePlaced'
  BY <1>1 DEF IInv, EndsOnce, AccountsArePlaced
<1> QED
  BY <1>2, <1>3, <1>4, <1>5, <1>6 DEF IInv

LEMMA ProvisionProfileKeeps ==
  ASSUME IInv, NEW w \in Worker, ProvisionProfile(w)
  PROVE  IInv'
<1> DEFINE s == tx[w].saga
           i == row[s].identity
           next == IF Kind[s] = "personal" THEN "end" ELSE "place"
<1>1. /\ tx[w] # None /\ tx[w].next = "profile" /\ s \in Saga /\ i \in Saga
      /\ profile' = profile \union {i}
      /\ tx' = [tx EXCEPT ![w].next = next] /\ next \in {"place", "end"}
      /\ UNCHANGED <<tables, company, invitation, token, member>>
  BY DEF ProvisionProfile, At, Go, IInv, TypeOK, WorkInv, Work
<1> USE DEF tables
<1>2. TypeOK'
  BY <1>1 DEF IInv, TypeOK
<1>3. Locked'
  BY <1>1 DEF IInv, TypeOK, Locked, Inside
<1>4. RowInv' /\ PhoneInv' /\ RemoteInv'
  BY <1>1 DEF IInv, RowInv, PhoneInv, RemoteInv, Invited
<1>5. WorkInv'
  BY <1>1 DEF IInv, TypeOK, WorkInv, Work
<1>6. EndsOnce' /\ AccountsArePlaced'
  BY <1>1 DEF IInv, EndsOnce, AccountsArePlaced
<1> QED
  BY <1>2, <1>3, <1>4, <1>5, <1>6 DEF IInv

LEMMA ProvisionCompanyKeeps ==
  ASSUME IInv, NEW w \in Worker, ProvisionCompany(w)
  PROVE  IInv'
<1> DEFINE s == tx[w].saga
<1>1. /\ tx[w] # None /\ tx[w].next = "place" /\ s \in Saga /\ ~Invited(s)
      /\ row[s].identity \in profile
      /\ company' = company \union {s}
      /\ tx' = [tx EXCEPT ![w].next = "end"]
      /\ UNCHANGED <<tables, profile, invitation, token, member>>
  BY DEF ProvisionCompany, At, Go, IInv, TypeOK, WorkInv, Work
<1> USE DEF tables
<1>2. TypeOK'
  BY <1>1 DEF IInv, TypeOK
<1>3. Locked'
  BY <1>1 DEF IInv, TypeOK, Locked, Inside
<1>4. RowInv' /\ PhoneInv' /\ RemoteInv'
  BY <1>1 DEF IInv, RowInv, PhoneInv, RemoteInv, Invited
<1>5. WorkInv'
  BY <1>1 DEF IInv, TypeOK, WorkInv, Work
<1>6. EndsOnce' /\ AccountsArePlaced'
  BY <1>1 DEF IInv, EndsOnce, AccountsArePlaced
<1> QED
  BY <1>2, <1>3, <1>4, <1>5, <1>6 DEF IInv

\* Who is a member stays the member.
LEMMA AcceptInvitationKeeps ==
  ASSUME IInv, NEW w \in Worker, AcceptInvitation(w)
  PROVE  IInv'
<1> DEFINE s == tx[w].saga
           i == row[s].identity
<1>1. /\ tx[w] # None /\ tx[w].next = "place" /\ s \in Saga
      /\ i \in profile
      /\ invitation' = [invitation EXCEPT ![s] = "ACCEPTED"]
      /\ member' = [member EXCEPT ![s] = i]
      /\ tx' = [tx EXCEPT ![w].next = "end"]
      /\ UNCHANGED <<tables, profile, company, token>>
  BY DEF AcceptInvitation, At, Go, IInv, TypeOK, WorkInv, Work
<1>2. member[s] \in {None, i}
  BY <1>1 DEF AcceptInvitation, IInv, RemoteInv
<1> USE DEF tables
<1>3. TypeOK'
  BY <1>1 DEF IInv, TypeOK
<1>4. Locked'
  BY <1>1 DEF IInv, TypeOK, Locked, Inside
<1>5. RowInv' /\ PhoneInv' /\ RemoteInv'
  BY <1>1 DEF IInv, TypeOK, RowInv, PhoneInv, RemoteInv, Invited
<1>6. WorkInv'
  BY <1>1, <1>2 DEF IInv, TypeOK, WorkInv, Work
<1>7. EndsOnce'
  BY <1>1 DEF IInv, EndsOnce
<1>8. AccountsArePlaced'
  BY <1>1, <1>2, KindAssumption DEF IInv, TypeOK, AccountsArePlaced
<1> QED
  BY <1>3, <1>4, <1>5, <1>6, <1>7, <1>8 DEF IInv

\* What is activated has its place in the other services, and is told of if it was not.
LEMMA ActivateKeeps ==
  ASSUME IInv, NEW w \in Worker, At(w, "end"), Activate(w),
         UNCHANGED <<profile, company, member>>,
         \A s \in Saga : row'[s].identity = row[s].identity
  PROVE  /\ identity' \in [Saga -> {"none", "PENDING", "ACTIVE"}]
         /\ told' \subseteq Saga
         /\ \A i \in Saga : identity'[i] = identity[i] \/ (identity'[i] = "ACTIVE" /\ identity[i] # "none")
         /\ AccountsArePlaced'
<1> DEFINE s == tx[w].saga
           own == row[s].identity
<1>1. /\ tx[w] # None /\ tx[w].next = "end" /\ s \in Saga
      /\ own \in Saga /\ own # None /\ own \in profile
      /\ identity[own] \in {"PENDING", "ACTIVE"}
      /\ Kind[s] = "personal" \/ s \in company \/ member[s] = own
  BY DEF At, IInv, TypeOK, WorkInv, Work, RowInv
<1>2. Invited(s) \/ own = s
  BY <1>1 DEF IInv, RowInv
<1>3. identity' = [identity EXCEPT ![own] = "ACTIVE"]
  BY DEF Activate, ActivateOwner, ActivateInvited, ActivateByMail, Activated
<1>4. told' = told \union {own}
  <2>1. own \in told \/ identity[own] = "PENDING"
    BY <1>1 DEF IInv, AccountsArePlaced
  <2>2. Kind[s] = "mail" => tx[w].pending \/ own \in told
    BY <1>1 DEF IInv, WorkInv, Work, AccountsArePlaced
  <2> QED
    BY <2>1, <2>2 DEF Activate, ActivateOwner, ActivateInvited, ActivateByMail, Activated
<1>5. Kind[own] = "personal" \/ own \in company \/ \E r \in Saga : member[r] = own
  BY <1>1, <1>2 DEF Invited, IInv, RemoteInv
<1>6. AccountsArePlaced'
  BY <1>1, <1>3, <1>4, <1>5 DEF IInv, TypeOK, AccountsArePlaced
<1>7. identity' \in [Saga -> {"none", "PENDING", "ACTIVE"}]
  BY <1>1, <1>3 DEF IInv, TypeOK
<1>8. \A i \in Saga : identity'[i] = identity[i] \/ (identity'[i] = "ACTIVE" /\ identity[i] # "none")
  <2> SUFFICES ASSUME NEW k \in Saga
               PROVE  identity'[k] = identity[k] \/ (identity'[k] = "ACTIVE" /\ identity[k] # "none")
    OBVIOUS
  <2>1. identity'[k] = IF k = own THEN "ACTIVE" ELSE identity[k]
    BY <1>1, <1>3 DEF IInv, TypeOK
  <2>2. identity[own] # "none"
    BY <1>1
  <2> HIDE DEF own
  <2> QED
    BY <2>1, <2>2
<1>9. told' \subseteq Saga
  BY <1>1, <1>4 DEF IInv, TypeOK
<1> QED
  BY <1>6, <1>7, <1>8, <1>9

LEMMA RefuseDeviceKeeps ==
  ASSUME IInv, NEW w \in Worker, RefuseDevice(w)
  PROVE  IInv'
<1>1. /\ At(w, "end") /\ Activate(w)
      /\ tx' = [tx EXCEPT ![w] = None]
      /\ UNCHANGED <<row, sessions, profile, company, invitation, token, member>>
  BY DEF RefuseDevice, remote
<1>2. /\ identity' \in [Saga -> {"none", "PENDING", "ACTIVE"}]
      /\ told' \subseteq Saga
      /\ \A i \in Saga : identity'[i] = identity[i] \/ (identity'[i] = "ACTIVE" /\ identity[i] # "none")
      /\ AccountsArePlaced'
  BY <1>1, ActivateKeeps
<1>3. TypeOK'
  BY <1>1, <1>2 DEF IInv, TypeOK
<1>4. Locked'
  BY <1>1 DEF IInv, TypeOK, Locked, Inside
<1>5. RowInv' /\ PhoneInv' /\ RemoteInv'
  BY <1>1, <1>2 DEF IInv, TypeOK, RowInv, PhoneInv, RemoteInv, Invited
<1>6. WorkInv'
  BY <1>1, <1>2 DEF IInv, TypeOK, WorkInv, Work
<1>7. EndsOnce'
  BY <1>1 DEF IInv, EndsOnce
<1> QED
  BY <1>2, <1>3, <1>4, <1>5, <1>6, <1>7 DEF IInv

\* The one that holds the row has not been signed in, and nobody else comes to its end.
LEMMA EndKeeps ==
  ASSUME IInv, NEW w \in Worker, End(w)
  PROVE  IInv'
<1> DEFINE s == tx[w].saga
<1>1. /\ At(w, "end") /\ Activate(w)
      /\ row' = [row EXCEPT ![s].state = "COMPLETED"]
      /\ sessions' = [sessions EXCEPT ![s] = @ + 1]
      /\ tx' = [tx EXCEPT ![w] = None]
      /\ UNCHANGED <<profile, company, invitation, token, member>>
  BY DEF End, SignIn, remote
<1>2. /\ tx[w] # None /\ s \in Saga /\ row[s].identity # None
      /\ row[s].state # "COMPLETED" /\ Inside(w)
  BY <1>1 DEF At, Inside, IInv, TypeOK, WorkInv, Work
<1>3. /\ row' \in [Saga -> RowType]
      /\ \A r \in Saga : row'[r].identity = row[r].identity
      /\ row'[s].state = "COMPLETED"
      /\ \A r \in Saga \ {s} : row'[r] = row[r]
  <2>1. row' = [row EXCEPT ![s] = [row[s] EXCEPT !.state = "COMPLETED"]]
    BY <1>1
  <2>2. /\ row[s] \in RowType
        /\ [row[s] EXCEPT !.state = "COMPLETED"] \in RowType
        /\ [row[s] EXCEPT !.state = "COMPLETED"].state = "COMPLETED"
        /\ [row[s] EXCEPT !.state = "COMPLETED"].identity = row[s].identity
    BY <1>2, RowTyped DEF RowType
  <2> QED
    BY <1>2, <2>1, <2>2, RowTyped
<1>4. /\ identity' \in [Saga -> {"none", "PENDING", "ACTIVE"}]
      /\ told' \subseteq Saga
      /\ \A i \in Saga : identity'[i] = identity[i] \/ (identity'[i] = "ACTIVE" /\ identity[i] # "none")
      /\ AccountsArePlaced'
  BY <1>1, <1>3, ActivateKeeps
<1>5. TypeOK'
  BY <1>1, <1>2, <1>3, <1>4 DEF IInv, TypeOK, RowType
<1>6. Locked'
  BY <1>1 DEF IInv, TypeOK, Locked, Inside
<1>7. RowInv' /\ PhoneInv' /\ RemoteInv'
  BY <1>1, <1>2, <1>3, <1>4 DEF IInv, TypeOK, RowInv, PhoneInv, RemoteInv, Invited
<1>8. WorkInv'
  <2> SUFFICES ASSUME NEW v \in Worker, tx'[v] # None PROVE Work(v)'
    BY DEF WorkInv
  <2>1. v # w
    BY <1>1 DEF IInv, TypeOK
  <2>2. tx'[v] = tx[v] /\ tx[v].saga \in Saga /\ Work(v)
    BY <1>1, <2>1 DEF IInv, TypeOK, WorkInv
  <2>3. tx[v].next # "lock" => tx[v].saga # s
    BY <1>2, <2>1, <2>2 DEF IInv, Locked, Inside
  <2> QED
    BY <1>1, <1>3, <1>4, <2>2, <2>3 DEF IInv, TypeOK, Work
<1>9. EndsOnce'
  BY <1>1, <1>2, <1>3 DEF IInv, TypeOK, EndsOnce
<1> QED
  BY <1>4, <1>5, <1>6, <1>7, <1>8, <1>9 DEF IInv

-----------------------------------------------------------------------------
(* Codes, time and administrators.                                         *)

LEMMA RowStep ==
  ASSUME IInv, NEW s \in Saga, StartCompany(s) \/ RequestCode(s) \/ Expire(s)
  PROVE  IInv'
<1>1. CASE StartCompany(s)
  <2>1. /\ row' \in [Saga -> RowType] /\ row'[s].identity = row[s].identity
        /\ row'[s].state = "PENDING" /\ row[s].state # "COMPLETED"
        /\ \A t \in Saga \ {s} : row'[t] = row[t]
    BY <1>1 DEF IInv, TypeOK, RowType, StartCompany
  <2>2. /\ UNCHANGED <<identity, told, sessions, profile, company, token, member, tx>>
        /\ UNCHANGED invitation
    BY <1>1 DEF StartCompany, remote
  <2>3. invitation' \in [Saga -> {"PENDING", "REVOKED", "ACCEPTED", None}]
    BY <2>2 DEF IInv, TypeOK
  <2> QED
    BY <2>1, <2>2, <2>3, RowKeeps
<1>2. CASE RequestCode(s)
  <2> DEFINE rows == [row EXCEPT ![s].state = "PENDING", ![s].expired = FALSE]
  <2>1. /\ rows \in [Saga -> RowType] /\ rows[s].identity = row[s].identity
        /\ rows[s].state = "PENDING"
        /\ \A t \in Saga \ {s} : rows[t] = row[t]
    <3> DEFINE new == [row[s] EXCEPT !.state = "PENDING", !.expired = FALSE]
    <3>1. rows = [row EXCEPT ![s] = new]
      OBVIOUS
    <3>2. new \in RowType /\ new.identity = row[s].identity /\ new.state = "PENDING"
      BY RowTyped DEF RowType
    <3> HIDE DEF new, rows
    <3> QED
      BY <3>1, <3>2, RowTyped
  <2>2. row' = [rows EXCEPT ![s].token = token[s]] /\ token[s] \in Nat
    BY <1>2 DEF RequestCode, Bound, IInv, TypeOK
  <2>3. /\ row[s].state # "COMPLETED"
        /\ UNCHANGED <<identity, told, sessions, profile, company, token, member, tx>>
        /\ UNCHANGED invitation
    BY <1>2 DEF RequestCode, remote
  <2> HIDE DEF rows
  <2>4. /\ row' \in [Saga -> RowType] /\ row'[s].identity = row[s].identity
        /\ row'[s].state = "PENDING"
        /\ \A t \in Saga \ {s} : row'[t] = row[t]
    BY <2>1, <2>2 DEF RowType
  <2>5. invitation' \in [Saga -> {"PENDING", "REVOKED", "ACCEPTED", None}]
    BY <2>3 DEF IInv, TypeOK
  <2> QED
    BY <2>3, <2>4, <2>5, RowKeeps
<1>3. CASE Expire(s)
  <2>1. /\ row' \in [Saga -> RowType] /\ row'[s].identity = row[s].identity
        /\ row'[s].state = row[s].state
        /\ \A t \in Saga \ {s} : row'[t] = row[t]
    BY <1>3 DEF IInv, TypeOK, RowType, Expire
  <2>2. UNCHANGED <<identity, told, sessions, profile, company, token, member, tx>>
    BY <1>3 DEF Expire
  <2>3. /\ invitation' \in [Saga -> {"PENDING", "REVOKED", "ACCEPTED", None}]
        /\ \A t \in Saga : invitation'[t] # "ACCEPTED" => invitation[t] # "ACCEPTED"
    BY <1>3 DEF Expire, IInv, TypeOK
  <2> QED
    BY <2>1, <2>2, <2>3, RowKeeps
<1> QED
  BY <1>1, <1>2, <1>3

\* The invitation alone.
LEMMA InvitationStep ==
  ASSUME IInv, NEW s \in Saga, RevokeInvitation(s) \/ ResendInvitation(s)
  PROVE  IInv'
<1>1. /\ UNCHANGED <<identity, row, told, sessions, profile, company, member, tx>>
      /\ invitation' \in [Saga -> {"PENDING", "REVOKED", "ACCEPTED", None}]
      /\ \A t \in Saga : invitation'[t] # "ACCEPTED" => invitation[t] # "ACCEPTED"
      /\ token' \in [Saga -> Nat]
  BY DEF RevokeInvitation, ResendInvitation, tables, IInv, TypeOK
<1>2. TypeOK' /\ Locked'
  BY <1>1 DEF IInv, TypeOK, Locked, Inside
<1>3. RowInv' /\ PhoneInv' /\ RemoteInv'
  BY <1>1 DEF IInv, RowInv, PhoneInv, RemoteInv, Invited
<1>4. WorkInv' /\ EndsOnce' /\ AccountsArePlaced'
  BY <1>1 DEF IInv, WorkInv, Work, EndsOnce, AccountsArePlaced
<1> QED
  BY <1>2, <1>3, <1>4 DEF IInv

-----------------------------------------------------------------------------
(* The theorems.                                                           *)

LEMMA InitInv == Init => IInv
<1> SUFFICES ASSUME Init PROVE IInv
  OBVIOUS
<1> USE DEF Init
<1>1. TypeOK
  BY KindAssumption DEF TypeOK, Invited
<1>2. Locked /\ RowInv /\ PhoneInv /\ WorkInv
  BY DEF Locked, Inside, RowInv, PhoneInv, WorkInv
<1>3. RemoteInv /\ EndsOnce
  BY DEF RemoteInv, EndsOnce
<1>4. AccountsArePlaced
  BY DEF AccountsArePlaced
<1> QED
  BY <1>1, <1>2, <1>3, <1>4 DEF IInv

LEMMA NextInv == IInv /\ [Next]_vars => IInv'
<1> SUFFICES ASSUME IInv, [Next]_vars PROVE IInv'
  OBVIOUS
<1>1. ASSUME NEW w \in Worker, NEW s \in Saga,
             \/ RegisterPersonal(w, s) \/ RegisterCompany(w, s) \/ VerifyCompany(w, s)
             \/ Verify(w, s) \/ AcceptByMail(w, s)
      PROVE  IInv'
  BY <1>1, RegisterKeeps, VerifyKeeps, AcceptByMailKeeps
<1>2. ASSUME NEW w \in Worker,
             \/ LockRow(w) \/ ProvisionProfile(w) \/ ProvisionCompany(w) \/ AcceptInvitation(w)
      PROVE  IInv'
  BY <1>2, LockRowKeeps, ProvisionProfileKeeps, ProvisionCompanyKeeps, AcceptInvitationKeeps
<1>3. ASSUME NEW w \in Worker, End(w) \/ RefuseDevice(w)
      PROVE  IInv'
  BY <1>3, EndKeeps, RefuseDeviceKeeps
<1>4. ASSUME NEW w \in Worker, RefuseInvitation(w) \/ GiveUp(w)
      PROVE  IInv'
  BY <1>4, LeaveKeeps DEF RefuseInvitation, GiveUp
<1>5. ASSUME NEW s \in Saga,
             \/ StartCompany(s) \/ RequestCode(s) \/ Expire(s)
             \/ RevokeInvitation(s) \/ ResendInvitation(s)
      PROVE  IInv'
  BY <1>5, RowStep, InvitationStep
<1>6. CASE UNCHANGED vars
  <2> USE <1>6 DEF vars, tables, remote
  <2>1. TypeOK' /\ Locked' /\ RowInv' /\ PhoneInv'
    BY DEF IInv, TypeOK, Locked, Inside, RowInv, PhoneInv, Invited
  <2>2. WorkInv' /\ RemoteInv' /\ EndsOnce' /\ AccountsArePlaced'
    BY DEF IInv, WorkInv, Work, RemoteInv, Invited, EndsOnce, AccountsArePlaced
  <2> QED
    BY <2>1, <2>2 DEF IInv
<1> QED
  BY <1>1, <1>2, <1>3, <1>4, <1>5, <1>6 DEF Next

\* The inductive invariant holds: intents keep the identity they name, and a request knows
\* no more than what is so.
THEOREM Inductive == Spec => []IInv
  BY InitInv, NextInv, PTL DEF Spec

\* Intents, identities and requests have their types, for any number of them.
THEOREM TypeCorrect == Spec => []TypeOK
<1>1. IInv => TypeOK
  BY DEF IInv
<1> QED
  BY <1>1, Inductive, PTL

\* However many requests retry an onboarding at once, it signs in once
\* (password.py:167-199, registration.py:272-303, invitations.py:295-369).
THEOREM SignsInOnce == Spec => []EndsOnce
<1>1. IInv => EndsOnce
  BY DEF IInv
<1> QED
  BY <1>1, Inductive, PTL

\* No failed or repeated call, no expired intent and no invitation that is revoked or sent
\* again leaves an active account that another service does not know, or a membership of
\* somebody else than the intent names (registration.py:306-341, invitations.py:302-344).
THEOREM AccountsPlaced == Spec => []AccountsArePlaced
<1>1. IInv => AccountsArePlaced
  BY DEF IInv
<1> QED
  BY <1>1, Inductive, PTL

=============================================================================
