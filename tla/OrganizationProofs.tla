------------------------- MODULE OrganizationProofs -------------------------
(***************************************************************************)
(* Proofs about Organization, for any users, requests, roles that are      *)
(* given and limits, and about MediaStore, for any media, messages and     *)
(* workers whose transactions overlap.                                     *)
(***************************************************************************)
EXTENDS Organization, MediaStore, FiniteSetTheorems, TLAPS

MemberType == [user : User \union {NoUser}, status : DOMAIN NextOf]

InvitationType ==
    [to : User \union {NoUser}, channel : Channels, role : Roles, toTeam : BOOLEAN, by : Nat,
     status : {"PENDING", "ACCEPTED", "REVOKED", "EXPIRED"}, live : BOOLEAN, member : Nat]

LEMMA StatusTyped ==
  /\ DOMAIN NextOf = {"INVITED", "ACTIVE", "SUSPENDED", "LEFT", "REMOVED"}
  /\ DOMAIN NextStatus = {"none", "ACTIVE", "SUSPENDED", "DISABLED", "DELETED"}
  /\ \A s \in DOMAIN NextOf : NextOf[s] \subseteq DOMAIN NextOf
  /\ \A s \in DOMAIN NextStatus : "none" \notin NextStatus[s]
  /\ NextStatus["none"] = {}
  BY DEF NextOf, NextStatus

-----------------------------------------------------------------------------
(* How rows are written.                                                   *)

LEMMA RowAppended ==
  ASSUME members \in Seq(MemberType), NEW row \in MemberType,
         members' = Append(members, row)
  PROVE  /\ members' \in Seq(MemberType)
         /\ Members \subseteq Members' /\ Members' = Members \union {Len(members) + 1}
         /\ Len(members) + 1 \notin Members /\ Len(members) + 1 \in Nat
         /\ \A m \in Members : members'[m] = members[m]
         /\ members'[Len(members) + 1] = row
  BY DEF Members

LEMMA StatusWritten ==
  ASSUME members \in Seq(MemberType), NEW m \in Members, NEW status \in DOMAIN NextOf,
         members' = [members EXCEPT ![m].status = status]
  PROVE  /\ members' \in Seq(MemberType)
         /\ Members' = Members
         /\ \A other \in Members \ {m} : members'[other] = members[other]
         /\ members'[m].status = status
<1>1. PICK row \in MemberType : row = [members[m] EXCEPT !.status = status]
  <2>1. members[m] \in MemberType
    BY DEF Members
  <2>2. [members[m] EXCEPT !.status = status] \in MemberType
    BY <2>1 DEF MemberType
  <2> QED
    BY <2>2
<1>2. row.status = status
  BY <1>1 DEF Members, MemberType
<1>3. members' = [members EXCEPT ![m] = row]
  BY <1>1
<1> QED
  BY <1>2, <1>3 DEF Members

LEMMA UserWritten ==
  ASSUME members \in Seq(MemberType), NEW m \in Members, NEW u \in User,
         members' = [members EXCEPT ![m].user = u]
  PROVE  /\ members' \in Seq(MemberType)
         /\ Members' = Members
         /\ \A other \in Members : members'[other].status = members[other].status
<1>1. PICK row \in MemberType : row = [members[m] EXCEPT !.user = u]
  <2>1. members[m] \in MemberType
    BY DEF Members
  <2>2. [members[m] EXCEPT !.user = u] \in MemberType
    BY <2>1 DEF MemberType
  <2> QED
    BY <2>2
<1>2. row.status = members[m].status
  BY <1>1 DEF Members, MemberType
<1>3. members' = [members EXCEPT ![m] = row]
  BY <1>1
<1> QED
  BY <1>2, <1>3 DEF Members

\* An invitation that waits changes its status or its time.
Written(i, status, live, m) ==
    \/ invitations' = [invitations EXCEPT ![i].status = status]
    \/ invitations' = [invitations EXCEPT ![i].live = live]
    \/ invitations' = [invitations EXCEPT ![i].status = status, ![i].member = m]

LEMMA InvitationWritten ==
  ASSUME invitations \in Seq(InvitationType), NEW i \in DOMAIN invitations,
         NEW status \in {"PENDING", "ACCEPTED", "REVOKED", "EXPIRED"}, NEW live \in BOOLEAN,
         NEW m \in Nat,
         Written(i, status, live, m)
  PROVE  /\ invitations' \in Seq(InvitationType)
         /\ DOMAIN invitations' = DOMAIN invitations
         /\ \A j \in DOMAIN invitations \ {i} : invitations'[j] = invitations[j]
         /\ invitations'[i].by = invitations[i].by
<1>0. invitations[i] \in InvitationType
  OBVIOUS
<1>1. CASE invitations' = [invitations EXCEPT ![i].status = status]
  <2>1. PICK row \in InvitationType : row = [invitations[i] EXCEPT !.status = status]
    <3>1. [invitations[i] EXCEPT !.status = status] \in InvitationType
      BY <1>0 DEF InvitationType
    <3> QED
      BY <3>1
  <2>2. row.by = invitations[i].by
    BY <1>0, <2>1 DEF InvitationType
  <2>3. invitations' = [invitations EXCEPT ![i] = row]
    BY <1>1, <2>1
  <2> QED
    BY <2>2, <2>3
<1>2. CASE invitations' = [invitations EXCEPT ![i].live = live]
  <2>1. PICK row \in InvitationType : row = [invitations[i] EXCEPT !.live = live]
    <3>1. [invitations[i] EXCEPT !.live = live] \in InvitationType
      BY <1>0 DEF InvitationType
    <3> QED
      BY <3>1
  <2>2. row.by = invitations[i].by
    BY <1>0, <2>1 DEF InvitationType
  <2>3. invitations' = [invitations EXCEPT ![i] = row]
    BY <1>2, <2>1
  <2> QED
    BY <2>2, <2>3
<1>3. CASE invitations' = [invitations EXCEPT ![i].status = status, ![i].member = m]
  <2>1. PICK row \in InvitationType :
            row = [invitations[i] EXCEPT !.status = status, !.member = m]
    <3>1. [invitations[i] EXCEPT !.status = status, !.member = m] \in InvitationType
      BY <1>0 DEF InvitationType
    <3> QED
      BY <3>1
  <2>2. row.by = invitations[i].by
    BY <1>0, <2>1 DEF InvitationType
  <2>3. invitations' = [invitations EXCEPT ![i] = row]
    BY <1>3, <2>1
  <2> QED
    BY <2>2, <2>3
<1> QED
  BY <1>1, <1>2, <1>3 DEF Written

\* A new invitation, after those by phone that are past their time were put to EXPIRED.
LEMMA InvitationAppended ==
  ASSUME invitations \in Seq(InvitationType), NEW u, NEW channel, NEW row \in InvitationType,
         invitations' = Append(Lapse(u, channel), row)
  PROVE  /\ invitations' \in Seq(InvitationType)
         /\ DOMAIN invitations' = DOMAIN invitations \union {Len(invitations) + 1}
         /\ \A i \in DOMAIN invitations :
               /\ invitations'[i].by = invitations[i].by
               /\ invitations'[i].status \in {invitations[i].status, "EXPIRED"}
         /\ invitations'[Len(invitations) + 1] = row
<1>1. PICK old \in Seq(InvitationType) : old = Lapse(u, channel)
  <2>1. ASSUME NEW i \in DOMAIN invitations PROVE Lapse(u, channel)[i] \in InvitationType
    <3>1. invitations[i] \in InvitationType
      OBVIOUS
    <3>2. [invitations[i] EXCEPT !.status = "EXPIRED"] \in InvitationType
      BY <3>1 DEF InvitationType
    <3> QED
      BY <3>1, <3>2 DEF Lapse
  <2>2. Lapse(u, channel) \in [1 .. Len(invitations) -> InvitationType]
    BY <2>1 DEF Lapse
  <2>3. Lapse(u, channel) \in Seq(InvitationType)
    BY <2>2
  <2> QED
    BY <2>3
<1>2. /\ Len(old) = Len(invitations) /\ DOMAIN old = DOMAIN invitations
      /\ \A i \in DOMAIN invitations :
            old[i].by = invitations[i].by /\ old[i].status \in {invitations[i].status, "EXPIRED"}
  BY <1>1 DEF Lapse, InvitationType
<1>3. invitations' = Append(old, row)
  BY <1>1
<1> QED
  BY <1>2, <1>3

-----------------------------------------------------------------------------
(* The types.                                                              *)

RequestType == [member : Nat, permissions : SUBSET Permissions]

\* What is kept apart so that a step need show only what it writes.
MemberTypes ==
    /\ members \in Seq(MemberType)
    /\ roles \subseteq Members \X Roles
    /\ placed \subseteq Members

InvitationTypes ==
    /\ invitations \in Seq(InvitationType)
    /\ \A i \in DOMAIN invitations : invitations[i].by \in Members

ContextTypes ==
    /\ begun \in Nat
    /\ context \in [Requests -> {NoRequest} \union RequestType]
    /\ \A r \in Requests : context[r] # NoRequest => context[r].member \in Members

OtherTypes ==
    /\ organization \in DOMAIN NextStatus
    /\ settings.limit \in Limits \union {Unlimited} /\ settings.invites \in BOOLEAN
    /\ custom \subseteq Permissions
    /\ team \in {"ACTIVE", "DISABLED", "DELETED"}

LEMMA TypeParts == TypeOK <=> MemberTypes /\ InvitationTypes /\ ContextTypes /\ OtherTypes
  BY DEF TypeOK, MemberTypes, InvitationTypes, ContextTypes, OtherTypes, MemberType,
         InvitationType, RequestType

Unprovisioned == organization = "none" => members = <<>>

IInv ==
    /\ TypeOK
    /\ Unprovisioned
    /\ ActiveOwner
    /\ DepartedUnplaced

LEMMA EffectiveTyped ==
  ASSUME custom \subseteq Permissions, NEW m
  PROVE  Effective(m) \subseteq Permissions
<1>1. \A role \in Roles : Codes(role) \subseteq Permissions
  BY DEF Codes, Roles, Permissions
<1> QED
  BY <1>1 DEF Effective

\* Who waits for the lock has a context, and it names a member.
LEMMA LockedRequest ==
  ASSUME TypeOK, NEW r \in Requests, NEW permission, LockTenant(r, permission)
  PROVE  /\ context[r] \in RequestType /\ context[r].member \in Members
         /\ organization = "ACTIVE"
  BY TypeParts DEF ContextTypes, LockTenant, StillHolds

\* A request that is done leaves the types of the others.
LEMMA ContextKept ==
  ASSUME TypeOK, Members \subseteq Members',
         UNCHANGED <<begun, context>> \/ (\E r \in Requests : Done(r))
  PROVE  ContextTypes'
<1>1. ContextTypes
  BY TypeParts
<1>2. CASE UNCHANGED <<begun, context>>
  BY <1>1, <1>2 DEF ContextTypes
<1>3. ASSUME NEW r \in Requests, Done(r) PROVE ContextTypes'
  BY <1>1, <1>3 DEF ContextTypes, Done
<1> QED
  BY <1>2, <1>3

LEMMA InvitationsKept ==
  ASSUME TypeOK, Members \subseteq Members', UNCHANGED invitations
  PROVE  InvitationTypes'
<1>1. InvitationTypes
  BY TypeParts
<1> QED
  BY <1>1 DEF InvitationTypes

\* A pending invitation is accepted, revoked, or its time passes.
LEMMA InvitationsMoved ==
  ASSUME TypeOK, Members \subseteq Members', NEW i \in DOMAIN invitations,
         NEW status \in {"PENDING", "ACCEPTED", "REVOKED", "EXPIRED"}, NEW live \in BOOLEAN,
         NEW m \in Nat,
         Written(i, status, live, m)
  PROVE  InvitationTypes'
<1>1. InvitationTypes
  BY TypeParts
<1>2. invitations \in Seq(InvitationType)
  BY <1>1 DEF InvitationTypes
<1>3. /\ invitations' \in Seq(InvitationType)
      /\ DOMAIN invitations' = DOMAIN invitations
      /\ \A j \in DOMAIN invitations \ {i} : invitations'[j] = invitations[j]
      /\ invitations'[i].by = invitations[i].by
  BY <1>2, InvitationWritten
<1>4. \A j \in DOMAIN invitations : invitations'[j].by = invitations[j].by
  BY <1>3
<1> QED
  BY <1>1, <1>3, <1>4 DEF InvitationTypes

\* What a row of either table is.
LEMMA RowsTyped ==
  ASSUME TypeOK
  PROVE  /\ \A m \in Members : m \in Nat /\ members[m] \in MemberType
         /\ \A i \in DOMAIN invitations :
               /\ invitations[i] \in InvitationType
               /\ invitations[i].role \in Roles
               /\ invitations[i].to \in User \union {NoUser}
               /\ invitations[i].by \in Members
<1>1. members \in Seq(MemberType) /\ invitations \in Seq(InvitationType)
  BY TypeParts DEF MemberTypes, InvitationTypes
<1>2. \A i \in DOMAIN invitations : invitations[i] \in InvitationType
  BY <1>1
<1>3. \A m \in Members : m \in Nat /\ members[m] \in MemberType
  BY <1>1 DEF Members
<1>4. \A row \in InvitationType : row.role \in Roles /\ row.to \in User \union {NoUser}
  BY DEF InvitationType
<1> QED
  BY <1>2, <1>3, <1>4, TypeParts DEF InvitationTypes

LEMMA TypePartsNext ==
  ASSUME MemberTypes', InvitationTypes', ContextTypes', OtherTypes'
  PROVE  TypeOK'
  BY DEF TypeOK, MemberTypes, InvitationTypes, ContextTypes, OtherTypes, MemberType,
         InvitationType, RequestType

LEMMA TypeInit == Init => TypeOK
<1> SUFFICES ASSUME Init PROVE TypeOK
  OBVIOUS
<1>1. MemberTypes
  BY DEF Init, MemberTypes, Members
<1>2. InvitationTypes
  BY DEF Init, InvitationTypes
<1>3. ContextTypes
  BY DEF Init, ContextTypes
<1>4. OtherTypes
  BY StatusTyped DEF Init, OtherTypes
<1> QED
  BY <1>1, <1>2, <1>3, <1>4, TypeParts

\* What a step writes of the members, when it leaves the rows of the requests alone or
\* is the last of one.
MembersWritten ==
    /\ MemberTypes'
    /\ Members \subseteq Members'

LEMMA MembersUnwritten ==
  ASSUME TypeOK, UNCHANGED <<members, roles, placed>>
  PROVE  MembersWritten
  BY TypeParts DEF MemberTypes, MembersWritten, Members

\* A place is taken, or given up.
LEMMA Placing ==
  ASSUME TypeOK, UNCHANGED <<members, roles>>, NEW m \in Members,
         placed' \in {placed, placed \union {m}, placed \ {m}}
  PROVE  MembersWritten
  BY TypeParts DEF MemberTypes, MembersWritten, Members

LEMMA Granting ==
  ASSUME TypeOK, UNCHANGED members, NEW m \in Members, NEW role \in Roles,
         roles' \in {roles, roles \union {<<m, role>>}, roles \ {<<m, role>>}},
         placed' \in {placed, placed \union {m}}
  PROVE  MembersWritten
  BY TypeParts DEF MemberTypes, MembersWritten, Members

\* The status of a member, and the place that it takes from him.
LEMMA Moving ==
  ASSUME TypeOK, NEW m \in Members, NEW status \in DOMAIN NextOf,
         members' = [members EXCEPT ![m].status = status],
         UNCHANGED roles, placed' \in {placed, placed \ {m}}
  PROVE  MembersWritten
  BY TypeParts, StatusWritten DEF MemberTypes, MembersWritten

\* Whoever enters has the role of the invitation alone.
LEMMA EnterTyped ==
  ASSUME TypeOK, NEW i \in DOMAIN invitations, NEW m \in Members', Enter(i, m),
         members' \in Seq(MemberType), Members \subseteq Members'
  PROVE  MembersWritten
<1>1. invitations[i].role \in Roles
  BY RowsTyped
<1>2. roles' \subseteq Members' \X Roles
  BY <1>1, TypeParts DEF Enter, MemberTypes
<1>3. placed' \subseteq Members'
  BY TypeParts DEF Enter, MemberTypes
<1> QED
  BY <1>2, <1>3 DEF MemberTypes, MembersWritten

\* A command writes what the types allow.
LEMMA CommandTyped ==
  ASSUME IInv, NEW r \in Requests, Command(r)
  PROVE  TypeOK'
<1> USE BoundAssumption
<1>0. TypeOK /\ MemberTypes /\ InvitationTypes /\ ContextTypes /\ OtherTypes
  BY TypeParts DEF IInv
<1>a. ASSUME Done(r), MembersWritten, InvitationTypes', OtherTypes'
      PROVE  TypeOK'
  BY <1>0, <1>a, ContextKept, TypePartsNext DEF MembersWritten
<1>b. ASSUME Done(r), MembersWritten, UNCHANGED invitations, OtherTypes'
      PROVE  TypeOK'
  BY <1>0, <1>a, <1>b, InvitationsKept DEF MembersWritten
<1>1. CASE Refuse(r)
  BY <1>0, <1>1, <1>b, MembersUnwritten DEF Refuse, OtherTypes
<1>2. CASE \E limit \in Limits, invites \in BOOLEAN : UpdateSettings(r, limit, invites)
  <2>1. OtherTypes'
    BY <1>0, <1>2 DEF UpdateSettings, OtherTypes
  <2> QED
    BY <1>0, <1>2, <2>1, <1>b, MembersUnwritten DEF UpdateSettings
<1>3. CASE CreateMember(r)
  <2>1. [user |-> NoUser, status |-> "INVITED"] \in MemberType
    BY StatusTyped DEF MemberType
  <2>2. members' \in Seq(MemberType) /\ Members \subseteq Members'
    BY <1>0, <1>3, <2>1, RowAppended DEF CreateMember, MemberTypes
  <2>3. MembersWritten
    BY <1>0, <1>3, <2>2 DEF CreateMember, MembersWritten, MemberTypes
  <2> QED
    BY <1>0, <1>3, <2>3, <1>b DEF CreateMember, OtherTypes
<1>4. ASSUME NEW m \in Members, NEW status \in DOMAIN NextOf, Transition(r, m, status)
      PROVE  TypeOK'
  <2>1. MembersWritten
    BY <1>0, <1>4, Moving DEF Transition
  <2> QED
    BY <1>0, <1>4, <2>1, <1>b DEF Transition, OtherTypes
<1>5. ASSUME NEW m \in Members, NEW role \in Given, AssignRole(r, m, role) \/ RemoveRole(r, m, role)
      PROVE  TypeOK'
  <2>1. MembersWritten
    <3>1. role \in Roles
      OBVIOUS
    <3> QED
      BY <1>0, <1>5, <3>1, Granting DEF AssignRole, RemoveRole
  <2> QED
    BY <1>0, <1>5, <2>1, <1>b DEF AssignRole, RemoveRole, OtherTypes
<1>6. ASSUME NEW m \in Members, AddToTeam(r, m) \/ EndMembership(r, m)
      PROVE  TypeOK'
  <2>1. MembersWritten
    BY <1>0, <1>6, Placing DEF AddToTeam, EndMembership
  <2> QED
    BY <1>0, <1>6, <2>1, <1>b DEF AddToTeam, EndMembership, OtherTypes
<1>7. ASSUME NEW codes \in CustomCodes, CreateCustomRole(r, codes)
      PROVE  TypeOK'
  <2>1. codes \subseteq Permissions
    BY <1>0, <1>7, LockedRequest DEF CreateCustomRole, RequestType
  <2> QED
    BY <1>0, <1>7, <2>1, <1>b, MembersUnwritten DEF CreateCustomRole, OtherTypes
<1>8. ASSUME NEW status \in {"ACTIVE", "DISABLED", "DELETED"}, TeamTransition(r, status)
      PROVE  TypeOK'
  BY <1>0, <1>8, <1>b, MembersUnwritten DEF TeamTransition, OtherTypes
<1>9. ASSUME NEW u \in User \union {NoUser}, NEW channel \in Channels, NEW role \in Given,
             NEW toTeam \in BOOLEAN, CreateInvitation(r, u, channel, role, toTeam)
      PROVE  TypeOK'
  <2>1. context[r].member \in Members /\ context[r].member \in Nat
    BY <1>0, <1>9, LockedRequest DEF CreateInvitation, RequestType
  <2>2. PICK row \in InvitationType :
            /\ row = [to |-> u, channel |-> channel, role |-> role, toTeam |-> toTeam,
                      by |-> context[r].member, status |-> "PENDING", live |-> TRUE, member |-> 0]
            /\ row.by = context[r].member
    <3>1. role \in Roles
      OBVIOUS
    <3>2. [to |-> u, channel |-> channel, role |-> role, toTeam |-> toTeam,
           by |-> context[r].member, status |-> "PENDING", live |-> TRUE, member |-> 0]
             \in InvitationType
      BY <2>1, <3>1 DEF InvitationType
    <3> QED
      BY <3>2
  <2>3. invitations' = Append(Lapse(u, channel), row)
    BY <1>9, <2>2 DEF CreateInvitation
  <2>4. UNCHANGED members
    BY <1>9 DEF CreateInvitation
  <2>5. InvitationTypes'
    <3>1. /\ invitations' \in Seq(InvitationType)
          /\ DOMAIN invitations' = DOMAIN invitations \union {Len(invitations) + 1}
          /\ \A i \in DOMAIN invitations : invitations'[i].by = invitations[i].by
          /\ invitations'[Len(invitations) + 1] = row
      BY <1>0, <2>3, InvitationAppended DEF InvitationTypes
    <3> QED
      BY <1>0, <2>1, <2>2, <2>4, <3>1 DEF InvitationTypes, Members
  <2> QED
    BY <1>0, <1>9, <2>5, <1>a, MembersUnwritten DEF CreateInvitation, OtherTypes
<1>10. ASSUME NEW i \in DOMAIN invitations, RevokeInvitation(r, i)
       PROVE  TypeOK'
  <2>1. MembersWritten
    BY <1>0, <1>10, MembersUnwritten DEF RevokeInvitation
  <2>2. InvitationTypes'
    BY <1>0, <1>10, <2>1, InvitationsMoved DEF RevokeInvitation, MembersWritten, Written
  <2> QED
    BY <1>0, <1>10, <2>1, <2>2, <1>a DEF RevokeInvitation, OtherTypes
<1>11. ASSUME NEW i \in DOMAIN invitations, NEW m \in Members, AcceptInvitation(r, i, m)
       PROVE  TypeOK'
  <2>1. invitations[i].role \in Roles /\ m \in Nat
    BY <1>0, RowsTyped
  <2>2. MembersWritten
    BY <1>0, <1>11, <2>1, Granting DEF AcceptInvitation
  <2>3. InvitationTypes'
    BY <1>0, <1>11, <2>1, <2>2, InvitationsMoved
       DEF AcceptInvitation, Accepted, MembersWritten, Written
  <2> QED
    BY <1>0, <1>11, <2>2, <2>3, <1>a DEF AcceptInvitation, OtherTypes
<1> QED
  BY <1>1, <1>2, <1>3, <1>4, <1>5, <1>6, <1>7, <1>8, <1>9, <1>10, <1>11 DEF Command

LEMMA BoundAccepted ==
  ASSUME IInv, NEW i \in DOMAIN invitations, AcceptBound(i)
  PROVE  TypeOK'
<1>0. TypeOK /\ MemberTypes /\ InvitationTypes /\ ContextTypes /\ OtherTypes
  BY TypeParts DEF IInv
<1>1. ASSUME MembersWritten, NEW m \in Nat, invitations' = Accepted(i, m)
      PROVE  TypeOK'
  <2>1. ContextTypes'
    BY <1>0, <1>1, ContextKept DEF AcceptBound, MembersWritten
  <2>2. InvitationTypes'
    BY <1>0, <1>1, InvitationsMoved DEF Accepted, MembersWritten, Written
  <2>3. OtherTypes'
    BY <1>0 DEF AcceptBound, OtherTypes
  <2> QED
    BY <1>1, <2>1, <2>2, <2>3, TypePartsNext DEF MembersWritten
<1>2. CASE CreateMemberFromInvitation(i) /\ invitations' = Accepted(i, Len(members) + 1)
  <2>1. [user |-> invitations[i].to, status |-> "ACTIVE"] \in MemberType
    BY <1>0, RowsTyped, StatusTyped DEF MemberType
  <2>2. /\ members' \in Seq(MemberType) /\ Members \subseteq Members'
        /\ Len(members) + 1 \in Members' /\ Len(members) + 1 \in Nat
    BY <1>0, <1>2, <2>1, RowAppended DEF CreateMemberFromInvitation, MemberTypes
  <2>3. MembersWritten
    BY <1>0, <1>2, <2>2, EnterTyped DEF CreateMemberFromInvitation
  <2> QED
    BY <1>1, <1>2, <2>2, <2>3
<1>3. ASSUME NEW m \in Members, RejoinMemberFromInvitation(i, m), invitations' = Accepted(i, m)
      PROVE  TypeOK'
  <2>1. members' \in Seq(MemberType) /\ Members' = Members /\ m \in Nat
    BY <1>0, <1>3, RowsTyped, StatusTyped, StatusWritten
       DEF RejoinMemberFromInvitation, MemberTypes
  <2>2. MembersWritten
    BY <1>0, <1>3, <2>1, EnterTyped DEF RejoinMemberFromInvitation
  <2> QED
    BY <1>1, <1>3, <2>1, <2>2
<1>4. ASSUME NEW m \in Members, UNCHANGED <<members, roles, placed>>, invitations' = Accepted(i, m)
      PROVE  TypeOK'
  <2>1. m \in Nat
    BY <1>0 DEF MemberTypes, Members
  <2> QED
    BY <1>0, <1>1, <1>4, <2>1, MembersUnwritten
<1> QED
  BY <1>2, <1>3, <1>4 DEF AcceptBound

LEMMA TypeStep == IInv /\ [Next]_vars => TypeOK'
<1> SUFFICES ASSUME IInv, [Next]_vars PROVE TypeOK'
  OBVIOUS
<1>0. TypeOK /\ MemberTypes /\ InvitationTypes /\ ContextTypes /\ OtherTypes
  BY TypeParts DEF IInv
<1>1. ASSUME NEW u \in User, Provision(u)
      PROVE  TypeOK'
  <2>1. members = <<>> /\ placed = {} /\ Members = {}
    BY <1>0, <1>1 DEF IInv, Unprovisioned, Provision, MemberTypes, Members
  <2>2. PICK row \in MemberType : row = [user |-> u, status |-> "ACTIVE"]
    BY StatusTyped DEF MemberType
  <2>3. members' = <<row>>
    BY <1>1, <2>2 DEF Provision
  <2>4. members' \in Seq(MemberType) /\ Members' = {1}
    BY <2>3 DEF Members
  <2>5. MemberTypes'
    BY <1>1, <2>1, <2>4 DEF Provision, MemberTypes, Roles
  <2>6. InvitationTypes' /\ ContextTypes'
    BY <1>0, <1>1, <2>1, InvitationsKept, ContextKept DEF Provision
  <2>7. OtherTypes'
    BY <1>0, <1>1, StatusTyped DEF Provision, OtherTypes
  <2> QED
    BY <2>5, <2>6, <2>7, TypePartsNext
<1>2. ASSUME NEW r \in Requests, NEW m \in Members, Begin(r, m)
      PROVE  TypeOK'
  <2>1. m \in Nat /\ Effective(m) \subseteq Permissions
    BY <1>0, EffectiveTyped DEF MemberTypes, Members, OtherTypes
  <2>2. [member |-> m, permissions |-> Effective(m)] \in RequestType
    BY <2>1 DEF RequestType
  <2>3. UNCHANGED members
    BY <1>2 DEF Begin
  <2>4. ContextTypes'
    BY <1>0, <1>2, <2>2, <2>3 DEF Begin, ContextTypes, Members
  <2>5. MembersWritten /\ InvitationTypes'
    BY <1>0, <1>2, MembersUnwritten, InvitationsKept DEF Begin, MembersWritten
  <2> QED
    BY <1>0, <1>2, <2>4, <2>5, TypePartsNext DEF Begin, OtherTypes, MembersWritten
<1>3. ASSUME NEW status \in DOMAIN NextStatus, SetStatus(status)
      PROVE  TypeOK'
  <2>1. MembersWritten
    BY <1>0, <1>3, MembersUnwritten DEF SetStatus
  <2>2. InvitationTypes' /\ ContextTypes'
    BY <1>0, <1>3, <2>1, InvitationsKept, ContextKept DEF SetStatus, MembersWritten
  <2> QED
    BY <1>0, <1>3, <2>1, <2>2, TypePartsNext DEF SetStatus, OtherTypes, MembersWritten
<1>4. ASSUME NEW m \in Members, NEW u \in User, Link(m, u)
      PROVE  TypeOK'
  <2>1. MembersWritten
    BY <1>0, <1>4, UserWritten DEF Link, MemberTypes, MembersWritten
  <2>2. InvitationTypes' /\ ContextTypes'
    BY <1>0, <1>4, <2>1, InvitationsKept, ContextKept DEF Link, MembersWritten
  <2> QED
    BY <1>0, <1>4, <2>1, <2>2, TypePartsNext DEF Link, OtherTypes, MembersWritten
<1>5. ASSUME NEW i \in DOMAIN invitations, TimePasses(i) \/ ExpireInvitation(i)
      PROVE  TypeOK'
  <2>1. MembersWritten
    BY <1>0, <1>5, MembersUnwritten DEF TimePasses, ExpireInvitation
  <2>2. InvitationTypes' /\ ContextTypes'
    <3>1. 0 \in Nat
      OBVIOUS
    <3> QED
      BY <1>0, <1>5, <2>1, <3>1, InvitationsMoved, ContextKept
         DEF TimePasses, ExpireInvitation, MembersWritten, Written
  <2> QED
    BY <1>0, <1>5, <2>1, <2>2, TypePartsNext
       DEF TimePasses, ExpireInvitation, OtherTypes, MembersWritten
<1>6. CASE UNCHANGED vars
  <2>1. MembersWritten
    BY <1>0, <1>6, MembersUnwritten DEF vars
  <2>2. InvitationTypes' /\ ContextTypes'
    BY <1>0, <1>6, <2>1, InvitationsKept, ContextKept DEF vars, MembersWritten
  <2> QED
    BY <1>0, <1>6, <2>1, <2>2, TypePartsNext DEF vars, OtherTypes, MembersWritten
<1> QED
  BY <1>1, <1>2, <1>3, <1>4, <1>5, <1>6, CommandTyped, BoundAccepted DEF Next

-----------------------------------------------------------------------------
(* The invariants.                                                         *)

\* What leaves the owners who are active as they are.
LEMMA OwnersKept ==
  ASSUME IInv, organization # "none",
         Members \subseteq Members',
         \A m \in Members : Active(m) => Active(m)',
         \A m \in Members : Owns(m) => Owns(m)'
  PROVE  ActiveOwner'
  BY DEF IInv, ActiveOwner

\* The last one stays: somebody else loses a role or his status.
LEMMA OwnerLeft ==
  ASSUME IInv, organization # "none", NEW m \in Members,
         Members \subseteq Members',
         Active(m) /\ Owns(m) => ProtectLastOwner(m),
         \A other \in Members \ {m} : Active(other) => Active(other)',
         \A other \in Members \ {m} : Owns(other) => Owns(other)'
  PROVE  ActiveOwner'
  BY DEF IInv, ActiveOwner, ProtectLastOwner

LEMMA OwnerStep == IInv /\ [Next]_vars => ActiveOwner'
<1> SUFFICES ASSUME IInv, [Next]_vars PROVE ActiveOwner'
  OBVIOUS
<1> USE DEF Active, Owns
<1>0. TypeOK /\ MemberTypes /\ ActiveOwner
  BY TypeParts DEF IInv
<1>1. CASE UNCHANGED <<organization, members, roles>>
  BY <1>0, <1>1 DEF ActiveOwner, Members
<1>2. ASSUME NEW u \in User, Provision(u)
      PROVE  ActiveOwner'
  <2>1. members'[1].status = "ACTIVE" /\ 1 \in Members' /\ <<1, "OWNER">> \in roles'
    BY <1>2 DEF Provision, Members
  <2> QED
    BY <2>1 DEF ActiveOwner
<1>3. ASSUME NEW r \in Requests, Command(r)
      PROVE  ActiveOwner'
  <2>1. CASE CreateMember(r)
    <3>1. organization # "none"
      BY <1>0, <2>1, LockedRequest DEF CreateMember
    <3>2. [user |-> NoUser, status |-> "INVITED"] \in MemberType
      BY StatusTyped DEF MemberType
    <3>3. /\ Members \subseteq Members' /\ \A m \in Members : members'[m] = members[m]
          /\ UNCHANGED roles
      BY <1>0, <2>1, <3>2, RowAppended DEF CreateMember, MemberTypes
    <3> QED
      BY <3>1, <3>3, OwnersKept
  <2>2. ASSUME NEW m \in Members, NEW status \in DOMAIN NextOf, Transition(r, m, status)
        PROVE  ActiveOwner'
    <3>1. organization # "none" /\ UNCHANGED roles
      BY <1>0, <2>2, LockedRequest DEF Transition
    <3>2. /\ Members' = Members
          /\ \A other \in Members \ {m} : members'[other] = members[other]
          /\ members'[m].status = status
      BY <1>0, <2>2, StatusWritten DEF Transition, MemberTypes
    <3>3. CASE status = "ACTIVE"
      BY <3>1, <3>2, <3>3, OwnersKept
    <3>4. CASE status # "ACTIVE"
      <4>1. ProtectLastOwner(m)
        BY <2>2, <3>4 DEF Transition
      <4> QED
        BY <3>1, <3>2, <4>1, OwnerLeft
    <3> QED
      BY <3>3, <3>4
  <2>3. ASSUME NEW m \in Members, NEW role \in Given, AssignRole(r, m, role)
        PROVE  ActiveOwner'
    <3>1. organization # "none"
      BY <1>0, <2>3, LockedRequest DEF AssignRole
    <3>2. UNCHANGED members /\ roles \subseteq roles'
      BY <2>3 DEF AssignRole
    <3> QED
      BY <3>1, <3>2, OwnersKept DEF Members
  <2>4. ASSUME NEW m \in Members, NEW role \in Given, RemoveRole(r, m, role)
        PROVE  ActiveOwner'
    <3>1. organization # "none"
      BY <1>0, <2>4, LockedRequest DEF RemoveRole
    <3>2. UNCHANGED members /\ roles' = roles \ {<<m, role>>}
      BY <2>4 DEF RemoveRole
    <3>3. CASE role = "OWNER"
      <4>1. ProtectLastOwner(m)
        BY <2>4, <3>3 DEF RemoveRole
      <4> QED
        BY <3>1, <3>2, <4>1, OwnerLeft DEF Members
    <3>4. CASE role # "OWNER"
      BY <3>1, <3>2, <3>4, OwnersKept DEF Members
    <3> QED
      BY <3>3, <3>4
  <2>5. ASSUME NEW i \in DOMAIN invitations, NEW m \in Members, AcceptInvitation(r, i, m)
        PROVE  ActiveOwner'
    <3>1. organization # "none"
      BY <1>0, <2>5, LockedRequest DEF AcceptInvitation
    <3>2. UNCHANGED members /\ roles \subseteq roles'
      BY <2>5 DEF AcceptInvitation
    <3> QED
      BY <3>1, <3>2, OwnersKept DEF Members
  <2>6. CASE UNCHANGED <<organization, members, roles>>
    BY <2>6, <1>1
  <2> QED
    BY <1>3, <2>1, <2>2, <2>3, <2>4, <2>5, <2>6
       DEF Command, Refuse, UpdateSettings, AddToTeam, EndMembership, CreateCustomRole,
           TeamTransition, CreateInvitation, RevokeInvitation
<1>4. ASSUME NEW status \in DOMAIN NextStatus, SetStatus(status)
      PROVE  ActiveOwner'
  <2>1. organization # "none"
    BY <1>4, StatusTyped DEF SetStatus
  <2> QED
    BY <1>4, <2>1, OwnersKept DEF SetStatus, Members
<1>5. ASSUME NEW m \in Members, NEW u \in User, Link(m, u)
      PROVE  ActiveOwner'
  <2>1. /\ Members' = Members /\ UNCHANGED <<organization, roles>>
        /\ \A other \in Members : members'[other].status = members[other].status
    BY <1>0, <1>5, UserWritten DEF Link, MemberTypes
  <2> QED
    BY <1>0, <2>1 DEF ActiveOwner
<1>6. ASSUME NEW i \in DOMAIN invitations, AcceptBound(i)
      PROVE  ActiveOwner'
  <2>1. organization # "none"
    BY <1>6 DEF AcceptBound, InviterStillMay, StillHolds
  <2>2. CASE CreateMemberFromInvitation(i)
    <3>1. [user |-> invitations[i].to, status |-> "ACTIVE"] \in MemberType
      BY <1>0, RowsTyped, StatusTyped DEF MemberType
    <3>2. /\ Members \subseteq Members' /\ Len(members) + 1 \notin Members
          /\ \A m \in Members : members'[m] = members[m]
      BY <1>0, <2>2, <3>1, RowAppended DEF CreateMemberFromInvitation, MemberTypes
    <3>3. \A m \in Members : Owns(m) => Owns(m)'
      BY <2>2, <3>2 DEF CreateMemberFromInvitation, Enter
    <3> QED
      BY <2>1, <3>2, <3>3, OwnersKept
  <2>3. ASSUME NEW m \in Members, RejoinMemberFromInvitation(i, m)
        PROVE  ActiveOwner'
    <3>1. /\ Members' = Members
          /\ \A other \in Members \ {m} : members'[other] = members[other]
      BY <1>0, <2>3, StatusTyped, StatusWritten DEF RejoinMemberFromInvitation, MemberTypes
    <3>2. \A other \in Members \ {m} : Owns(other) => Owns(other)'
      BY <2>3 DEF RejoinMemberFromInvitation, Enter
    <3>3. ~Active(m)
      BY <2>3 DEF RejoinMemberFromInvitation, Departed
    <3> QED
      BY <2>1, <3>1, <3>2, <3>3, OwnerLeft
  <2> QED
    BY <1>1, <1>6, <2>2, <2>3 DEF AcceptBound
<1> QED
  BY <1>1, <1>2, <1>3, <1>4, <1>5, <1>6
     DEF Next, Begin, TimePasses, ExpireInvitation, vars

LEMMA UnplacedStep == IInv /\ [Next]_vars => DepartedUnplaced'
<1> SUFFICES ASSUME IInv, [Next]_vars PROVE DepartedUnplaced'
  OBVIOUS
<1> USE DEF Departed, Active
<1>0. TypeOK /\ MemberTypes /\ DepartedUnplaced /\ Unprovisioned /\ placed \subseteq Members
  BY TypeParts DEF IInv, MemberTypes
<1>1. CASE UNCHANGED members /\ (\A m \in placed' : m \in placed \/ Active(m))
  BY <1>0, <1>1 DEF DepartedUnplaced
<1>2. ASSUME NEW u \in User, Provision(u)
      PROVE  DepartedUnplaced'
  BY <1>0, <1>2 DEF Provision, Unprovisioned, DepartedUnplaced, Members
<1>3. ASSUME NEW r \in Requests, Command(r)
      PROVE  DepartedUnplaced'
  <2>1. CASE CreateMember(r)
    <3>1. [user |-> NoUser, status |-> "INVITED"] \in MemberType
      BY StatusTyped DEF MemberType
    <3>2. \A m \in Members : members'[m] = members[m]
      BY <1>0, <2>1, <3>1, RowAppended DEF CreateMember, MemberTypes
    <3> QED
      BY <1>0, <2>1, <3>2 DEF CreateMember, DepartedUnplaced
  <2>2. ASSUME NEW m \in Members, NEW status \in DOMAIN NextOf, Transition(r, m, status)
        PROVE  DepartedUnplaced'
    <3>1. /\ \A other \in Members \ {m} : members'[other] = members[other]
          /\ members'[m].status = status
      BY <1>0, <2>2, StatusWritten DEF Transition, MemberTypes
    <3> QED
      BY <1>0, <2>2, <3>1 DEF Transition, DepartedUnplaced
  <2>3. ASSUME NEW m \in Members, AddToTeam(r, m) \/ EndMembership(r, m)
        PROVE  DepartedUnplaced'
    BY <1>1, <2>3 DEF AddToTeam, EndMembership
  <2>4. ASSUME NEW i \in DOMAIN invitations, NEW m \in Members, AcceptInvitation(r, i, m)
        PROVE  DepartedUnplaced'
    BY <1>1, <2>4 DEF AcceptInvitation
  <2>5. CASE UNCHANGED <<members, placed>>
    BY <1>1, <2>5
  <2> QED
    BY <1>3, <2>1, <2>2, <2>3, <2>4, <2>5
       DEF Command, Refuse, UpdateSettings, AssignRole, RemoveRole, CreateCustomRole,
           TeamTransition, CreateInvitation, RevokeInvitation
<1>4. ASSUME NEW m \in Members, NEW u \in User, Link(m, u)
      PROVE  DepartedUnplaced'
  <2>1. /\ UNCHANGED placed
        /\ \A other \in Members : members'[other].status = members[other].status
    BY <1>0, <1>4, UserWritten DEF Link, MemberTypes
  <2> QED
    BY <1>0, <2>1 DEF DepartedUnplaced
<1>5. ASSUME NEW i \in DOMAIN invitations, AcceptBound(i)
      PROVE  DepartedUnplaced'
  <2>1. CASE CreateMemberFromInvitation(i)
    <3>1. PICK row \in MemberType : row = [user |-> invitations[i].to, status |-> "ACTIVE"]
      BY <1>0, RowsTyped, StatusTyped DEF MemberType
    <3>2. /\ \A m \in Members : members'[m] = members[m]
          /\ members'[Len(members) + 1] = row
      BY <1>0, <2>1, <3>1, RowAppended DEF CreateMemberFromInvitation, MemberTypes
    <3>3. \A m \in placed' : m \in placed \/ m = Len(members) + 1
      BY <2>1 DEF CreateMemberFromInvitation, Enter
    <3>4. row.status = "ACTIVE"
      BY <3>1
    <3> QED
      BY <1>0, <3>2, <3>3, <3>4 DEF DepartedUnplaced
  <2>2. ASSUME NEW m \in Members, RejoinMemberFromInvitation(i, m)
        PROVE  DepartedUnplaced'
    <3>1. /\ \A other \in Members \ {m} : members'[other] = members[other]
          /\ members'[m].status = "ACTIVE"
      BY <1>0, <2>2, StatusTyped, StatusWritten DEF RejoinMemberFromInvitation, MemberTypes
    <3> QED
      BY <1>0, <2>2, <3>1 DEF RejoinMemberFromInvitation, Enter, DepartedUnplaced
  <2> QED
    BY <1>1, <1>5, <2>1, <2>2 DEF AcceptBound
<1> QED
  BY <1>1, <1>2, <1>3, <1>4, <1>5
     DEF Next, Begin, SetStatus, TimePasses, ExpireInvitation, vars

\* Nobody becomes a member of what was not provisioned.
LEMMA UnprovisionedStep == IInv /\ [Next]_vars => Unprovisioned'
<1> SUFFICES ASSUME IInv, [Next]_vars, organization' = "none" PROVE members' = <<>>
  BY DEF Unprovisioned
<1>0. TypeOK /\ MemberTypes /\ Unprovisioned
  BY TypeParts DEF IInv
<1>1. ASSUME NEW r \in Requests, Command(r)
      PROVE  UNCHANGED <<organization, members>> \/ organization' = "ACTIVE"
  <2>1. UNCHANGED organization
    BY <1>1
       DEF Command, Refuse, UpdateSettings, CreateMember, Transition, AssignRole, RemoveRole,
           AddToTeam, EndMembership, CreateCustomRole, TeamTransition, CreateInvitation,
           RevokeInvitation, AcceptInvitation
  <2>2. CASE \E m \in Members, status \in DOMAIN NextOf : Transition(r, m, status)
    BY <2>1, <2>2 DEF Transition, LockTenant, StillHolds
  <2>3. CASE CreateMember(r)
    BY <2>1, <2>3 DEF CreateMember, LockTenant, StillHolds
  <2>4. CASE UNCHANGED members
    BY <2>1, <2>4
  <2> QED
    BY <1>1, <2>2, <2>3, <2>4
       DEF Command, Refuse, UpdateSettings, AssignRole, RemoveRole, AddToTeam, EndMembership,
           CreateCustomRole, TeamTransition, CreateInvitation, RevokeInvitation,
           AcceptInvitation
<1>2. ASSUME NEW status \in DOMAIN NextStatus, SetStatus(status)
      PROVE  organization' # "none"
  BY <1>0, <1>2, StatusTyped, TypeParts DEF SetStatus, OtherTypes
<1>3. ASSUME NEW i \in DOMAIN invitations, AcceptBound(i)
      PROVE  organization' = "ACTIVE"
  BY <1>3 DEF AcceptBound, InviterStillMay, StillHolds
<1>4. ASSUME NEW m \in Members, NEW u \in User, Link(m, u)
      PROVE  organization' # "none"
  BY <1>0, <1>4 DEF Link, Unprovisioned, Members
<1> QED
  BY <1>0, <1>1, <1>2, <1>3, <1>4
     DEF Next, Provision, Begin, TimePasses, ExpireInvitation, Unprovisioned, vars

LEMMA InvInit == Init => IInv
  BY TypeInit DEF IInv, Init, Unprovisioned, ActiveOwner, DepartedUnplaced

LEMMA InvStep == IInv /\ [Next]_vars => IInv'
  BY TypeStep, OwnerStep, UnplacedStep, UnprovisionedStep DEF IInv

LEMMA SpecInv == Spec => []IInv
  BY InvInit, InvStep, PTL DEF Spec

\* Every variable keeps its type (models.py of the applications).
THEOREM TypeCorrect == Spec => []TypeOK
<1>1. IInv => TypeOK
  BY DEF IInv
<1> QED
  BY <1>1, SpecInv, PTL

\* An organization that was provisioned always has an active owner, with any number of
\* members, requests and invitations: whoever loses the role or his status is not the
\* last, and who comes back by an invitation was not one.
THEOREM OwnerRemains == Spec => []ActiveOwner
<1>1. IInv => ActiveOwner
  BY DEF IInv
<1> QED
  BY <1>1, SpecInv, PTL

\* Nobody who has left is in a team.
THEOREM DepartedLeaveTeams == Spec => []DepartedUnplaced
<1>1. IInv => DepartedUnplaced
  BY DEF IInv
<1> QED
  BY <1>1, SpecInv, PTL

-----------------------------------------------------------------------------
(* The actions.                                                            *)

Present == {m \in Members : ~Departed(m)}

LEMMA HeadcountTyped ==
  ASSUME TypeOK
  PROVE  IsFiniteSet(Present) /\ Headcount = Cardinality(Present) /\ Headcount \in Nat
<1>1. Members = 1 .. Len(members) /\ Len(members) \in Nat
  BY TypeParts DEF MemberTypes, Members
<1>2. IsFiniteSet(1 .. Len(members))
  BY <1>1, FS_Interval
<1>3. IsFiniteSet(Present)
  BY <1>1, <1>2, FS_Subset DEF Present
<1> QED
  BY <1>3, FS_CardinalityType DEF Headcount, Present

\* Where nobody comes in or comes back there are not more than before.
LEMMA NoMorePresent ==
  ASSUME TypeOK, Present' \subseteq Present
  PROVE  Headcount' <= Headcount
<1>1. Cardinality(Present') <= Cardinality(Present)
  BY HeadcountTyped, FS_Subset
<1> QED
  BY <1>1, HeadcountTyped DEF Headcount, Present

\* Whoever comes in was let in.
LEMMA OneMorePresent ==
  ASSUME TypeOK, NEW row \in MemberType, members' = Append(members, row), WithinCapacity
  PROVE  Headcount' <= settings.limit
<1>1. PICK n \in Nat : n = Len(members) + 1
  BY TypeParts DEF MemberTypes
<1>2. /\ Members' = Members \union {n} /\ n \notin Members
      /\ \A m \in Members : members'[m] = members[m]
  BY <1>1, TypeParts, RowAppended DEF MemberTypes
<1>3. Present' \subseteq Present \union {n}
  BY <1>2 DEF Present, Departed
<1>4. n \notin Present
  BY <1>2 DEF Present
<1>5. /\ IsFiniteSet(Present \union {n})
      /\ Cardinality(Present \union {n}) = Cardinality(Present) + 1
  BY <1>4, HeadcountTyped, FS_AddElement
<1>6. Cardinality(Present') <= Cardinality(Present) + 1 /\ Cardinality(Present') \in Nat
  BY <1>3, <1>5, FS_Subset, FS_CardinalityType
<1>7. settings.limit \in Nat
  <2>1. settings.limit \in Limits \union {Unlimited}
    BY TypeParts DEF OtherTypes
  <2>2. Unlimited \in Nat /\ Limits \subseteq Nat
    BY BoundAssumption DEF Unlimited
  <2> QED
    BY <2>1, <2>2
<1> QED
  BY <1>6, <1>7, HeadcountTyped DEF Headcount, Present, WithinCapacity

LEMMA CapacityStep ==
  ASSUME IInv, [Next]_vars, organization # "none",
         \A m \in Members : Departed(m) => Departed(m)'
  PROVE  Headcount' <= Headcount \/ Headcount' <= settings.limit
<1>0. TypeOK /\ MemberTypes
  BY TypeParts DEF IInv
<1>1. ASSUME Members' = Members PROVE Headcount' <= Headcount
  <2>1. Present' \subseteq Present
    BY <1>1 DEF Present
  <2> QED
    BY <1>0, <2>1, NoMorePresent
<1>2. CASE UNCHANGED members
  BY <1>1, <1>2 DEF Members
<1>3. ASSUME NEW r \in Requests, CreateMember(r)
      PROVE  Headcount' <= settings.limit
  <2>1. [user |-> NoUser, status |-> "INVITED"] \in MemberType
    BY StatusTyped DEF MemberType
  <2> QED
    BY <1>0, <1>3, <2>1, OneMorePresent DEF CreateMember
<1>4. ASSUME NEW r \in Requests, NEW m \in Members, NEW status \in DOMAIN NextOf,
             Transition(r, m, status)
      PROVE  Headcount' <= Headcount
  BY <1>0, <1>1, <1>4, StatusWritten DEF Transition, MemberTypes
<1>5. ASSUME NEW m \in Members, NEW u \in User, Link(m, u)
      PROVE  Headcount' <= Headcount
  BY <1>0, <1>1, <1>5, UserWritten DEF Link, MemberTypes
<1>6. ASSUME NEW i \in DOMAIN invitations, AcceptBound(i)
      PROVE  Headcount' <= Headcount \/ Headcount' <= settings.limit
  <2>1. CASE CreateMemberFromInvitation(i)
    <3>1. [user |-> invitations[i].to, status |-> "ACTIVE"] \in MemberType
      BY <1>0, RowsTyped, StatusTyped DEF MemberType
    <3> QED
      BY <1>0, <2>1, <3>1, OneMorePresent DEF CreateMemberFromInvitation
  <2>2. ASSUME NEW m \in Members, RejoinMemberFromInvitation(i, m)
        PROVE  Headcount' <= Headcount
    BY <1>0, <1>1, <2>2, StatusTyped, StatusWritten DEF RejoinMemberFromInvitation, MemberTypes
  <2> QED
    BY <1>2, <1>6, <2>1, <2>2 DEF AcceptBound
<1>7. ASSUME NEW r \in Requests, Command(r)
      PROVE  Headcount' <= Headcount \/ Headcount' <= settings.limit
  <2>1. \/ CreateMember(r)
        \/ \E m \in Members, status \in DOMAIN NextOf : Transition(r, m, status)
        \/ UNCHANGED members
    BY <1>7 DEF Command, Refuse, UpdateSettings, AssignRole, RemoveRole, AddToTeam,
                EndMembership, CreateCustomRole, TeamTransition, CreateInvitation,
                RevokeInvitation, AcceptInvitation
  <2> QED
    BY <2>1, <1>2, <1>3, <1>4
<1>8. ASSUME NEW u \in User, Provision(u)
      PROVE  FALSE
  BY <1>8 DEF Provision
<1> QED
  BY <1>2, <1>5, <1>6, <1>7, <1>8
     DEF Next, Begin, SetStatus, TimePasses, ExpireInvitation, vars

\* Only a rejoin takes the organization above its limit, whatever the limit is and
\* however many are created, invited and set at the same time.
THEOREM CapacityIsKept == Spec => OnlyRejoinsExceed
<1>1. IInv /\ [Next]_vars =>
         [ /\ organization # "none"
           /\ Headcount' > Headcount
           /\ \A m \in Members : Departed(m) => Departed(m)'
           => Headcount' <= settings.limit ]_vars
  <2> SUFFICES ASSUME IInv, [Next]_vars, organization # "none", Headcount' > Headcount,
                      \A m \in Members : Departed(m) => Departed(m)'
               PROVE  Headcount' <= settings.limit
    OBVIOUS
  <2>1. TypeOK /\ TypeOK'
    BY TypeStep DEF IInv
  <2>2. Headcount \in Nat
    BY <2>1, HeadcountTyped
  <2>3. Headcount' \in Nat
    <3>1. Members' = 1 .. Len(members') /\ Len(members') \in Nat
      BY <2>1 DEF TypeOK, Members
    <3>2. IsFiniteSet(1 .. Len(members'))
      BY <3>1, FS_Interval
    <3>3. IsFiniteSet(Present')
      BY <3>1, <3>2, FS_Subset DEF Present
    <3> QED
      BY <3>3, FS_CardinalityType DEF Headcount, Present
  <2> QED
    BY <2>2, <2>3, CapacityStep
<1> QED
  BY <1>1, SpecInv, PTL DEF Spec, OnlyRejoinsExceed

\* No addressed invitation outlives what its inviter may give, for any inviter, role and
\* recipient.
THEOREM InvitersMustStillMay == Spec => InvitationsLapse
<1>1. IInv /\ [Next]_vars =>
         [ \A i \in DOMAIN invitations :
             (Pending(i) /\ invitations'[i].status = "ACCEPTED" /\ invitations[i].to # NoUser) =>
                /\ Active(invitations[i].by)
                /\ Codes(invitations[i].role) \subseteq Effective(invitations[i].by) ]_vars
  <2> SUFFICES ASSUME IInv, [Next]_vars, NEW i \in DOMAIN invitations,
                      Pending(i), invitations'[i].status = "ACCEPTED", invitations[i].to # NoUser
               PROVE  /\ Active(invitations[i].by)
                      /\ Codes(invitations[i].role) \subseteq Effective(invitations[i].by)
    OBVIOUS
  <2>0. TypeOK /\ invitations \in Seq(InvitationType) /\ invitations[i].status = "PENDING"
    BY TypeParts DEF IInv, InvitationTypes, Pending
  <2>1. invitations' # invitations
    BY <2>0
  <2>2. ASSUME NEW r \in Requests, NEW u \in User \union {NoUser}, NEW channel \in Channels,
               NEW role \in Given, NEW toTeam \in BOOLEAN,
               CreateInvitation(r, u, channel, role, toTeam)
        PROVE  FALSE
    <3>1. Lapse(u, channel)[i].status \in {"PENDING", "EXPIRED"}
      BY <2>0 DEF Lapse, InvitationType
    <3>2. invitations'[i] = Lapse(u, channel)[i]
      BY <2>0, <2>2 DEF CreateInvitation, Lapse
    <3> QED
      BY <3>1, <3>2
  <2>3. ASSUME NEW r \in Requests, NEW j \in DOMAIN invitations, RevokeInvitation(r, j)
        PROVE  FALSE
    <3>1. invitations'[i].status \in {invitations[i].status, "REVOKED"}
      BY <2>0, <2>3 DEF RevokeInvitation, InvitationType
    <3> QED
      BY <2>0, <3>1
  <2>4. ASSUME NEW j \in DOMAIN invitations, TimePasses(j) \/ ExpireInvitation(j)
        PROVE  FALSE
    <3>1. CASE j = i
      <4>1. \/ invitations'[i] = [invitations[i] EXCEPT !.live = FALSE]
            \/ invitations'[i] = [invitations[i] EXCEPT !.status = "EXPIRED"]
        BY <2>0, <2>4, <3>1 DEF TimePasses, ExpireInvitation
      <4>2. invitations[i] \in InvitationType
        BY <2>0
      <4>3. invitations'[i].status \in {invitations[i].status, "EXPIRED"}
        BY <4>1, <4>2 DEF InvitationType
      <4> QED
        BY <2>0, <4>3
    <3>2. CASE j # i
      <4>1. invitations'[i] = invitations[i]
        BY <2>0, <2>4, <3>2 DEF TimePasses, ExpireInvitation
      <4> QED
        BY <2>0, <4>1
    <3> QED
      BY <3>1, <3>2
  <2>5. ASSUME NEW r \in Requests, NEW j \in DOMAIN invitations, NEW m \in Members,
               AcceptInvitation(r, j, m)
        PROVE  FALSE
    <3>1. j # i
      BY <2>5 DEF AcceptInvitation
    <3>2. invitations'[i] = invitations[i]
      BY <2>0, <2>5, <3>1 DEF AcceptInvitation, Accepted
    <3> QED
      BY <2>0, <3>2
  <2>6. ASSUME NEW j \in DOMAIN invitations, AcceptBound(j)
        PROVE  j = i
    <3> SUFFICES ASSUME j # i PROVE FALSE
      OBVIOUS
    <3>1. invitations'[i] = invitations[i]
      BY <2>0, <2>6 DEF AcceptBound, Accepted
    <3> QED
      BY <2>0, <3>1
  <2>7. AcceptBound(i)
    BY <2>1, <2>2, <2>3, <2>4, <2>5, <2>6
       DEF Next, Command, Provision, Begin, SetStatus, Link, Refuse, UpdateSettings,
           CreateMember, Transition, AssignRole, RemoveRole, AddToTeam, EndMembership,
           CreateCustomRole, TeamTransition, vars
  <2> QED
    BY <2>7 DEF AcceptBound, InviterStillMay, StillHolds, MayDelegate
<1> QED
  BY <1>1, SpecInv, PTL DEF Spec, InvitationsLapse

-----------------------------------------------------------------------------
(* Uploads and the usage of an account (MediaStore).                       *)

LEMMA Sized ==
  ASSUME NEW m \in Media
  PROVE  /\ Size[m] \in Nat \ {0}
         /\ IsFiniteSet({m}) /\ Cardinality({m}) = 1
         /\ IsFiniteSet(1 .. Size[m]) /\ Cardinality(1 .. Size[m]) = Size[m]
         /\ 1 * Size[m] = Size[m]
<1>1. PICK n \in Nat \ {0} : n = Size[m]
  BY MediaAssumption
<1>2. IsFiniteSet(1 .. n) /\ Cardinality(1 .. n) = n - 1 + 1
  BY FS_Interval
<1>3. n - 1 + 1 = n /\ 1 * n = n
  OBVIOUS
<1>4. IsFiniteSet({m}) /\ Cardinality({m}) = 1
  BY FS_Singleton
<1>5. IsFiniteSet(1 .. n) /\ Cardinality(1 .. n) = n
  BY <1>2, <1>3
<1> QED
  BY <1>1, <1>3, <1>4, <1>5, Zenon

LEMMA OctetsFinite ==
  ASSUME NEW S \in SUBSET Media
  PROVE  IsFiniteSet(Octets(S))
<1> DEFINE OctetsOf(m) == {m} \X (1 .. Size[m])
           T == {OctetsOf(m) : m \in S}
           f == [m \in S |-> OctetsOf(m)]
<1>1. IsFiniteSet(S)
  BY FS_Subset, MediaAssumption
<1>2. f \in Surjection(S, T)
  BY DEF Surjection
<1>3. IsFiniteSet(T)
  BY <1>1, <1>2, FS_Surjection
<1>4. ASSUME NEW m \in S PROVE IsFiniteSet(OctetsOf(m))
  <2>1. IsFiniteSet({m}) /\ IsFiniteSet(1 .. Size[m])
    BY Sized
  <2> QED
    BY <2>1, FS_Product
<1>5. \A R \in T : IsFiniteSet(R)
  BY <1>4
<1>6. IsFiniteSet(UNION T)
  <2> HIDE DEF T
  <2> QED
    BY <1>3, <1>5, FS_UNION
<1> QED
  BY <1>6 DEF Octets

LEMMA BytesTyped ==
  ASSUME NEW S \in SUBSET Media
  PROVE  Bytes(S) \in Nat
  BY OctetsFinite, FS_CardinalityType DEF Bytes

LEMMA BytesOfOne ==
  ASSUME NEW m \in Media
  PROVE  Bytes({m}) = Size[m]
<1>1. Octets({m}) = {m} \X (1 .. Size[m])
  BY DEF Octets
<1>2. Cardinality({m} \X (1 .. Size[m])) = Cardinality({m}) * Cardinality(1 .. Size[m])
  BY Sized, FS_Product
<1>3. Cardinality({m}) * Cardinality(1 .. Size[m]) = 1 * Size[m]
  BY Sized
<1>4. 1 * Size[m] = Size[m]
  BY Sized
<1> QED
  BY <1>1, <1>2, <1>3, <1>4 DEF Bytes

LEMMA BytesApart ==
  ASSUME NEW S \in SUBSET Media, NEW T \in SUBSET Media, S \cap T = {}
  PROVE  Bytes(S \union T) = Bytes(S) + Bytes(T)
<1>1. Octets(S \union T) = Octets(S) \union Octets(T)
  BY DEF Octets
<1>2. Octets(S) \cap Octets(T) = {}
  BY DEF Octets
<1>3. IsFiniteSet(Octets(S)) /\ IsFiniteSet(Octets(T))
  BY OctetsFinite
<1>4. Cardinality(Octets(S) \cap Octets(T)) = 0
  BY <1>2, FS_EmptySet
<1>5. Cardinality(Octets(S) \union Octets(T))
        = Cardinality(Octets(S)) + Cardinality(Octets(T)) - 0
  BY <1>3, <1>4, FS_Union
<1>6. Bytes(S \union T) = Bytes(S) + Bytes(T) - 0
  BY <1>1, <1>5 DEF Bytes
<1>7. Bytes(S) \in Nat /\ Bytes(T) \in Nat
  BY BytesTyped
<1> QED
  BY <1>6, <1>7

LEMMA BytesWithout ==
  ASSUME NEW S \in SUBSET Media, NEW T \in SUBSET Media
  PROVE  Bytes(S \ T) = Bytes(S) - Bytes(S \cap T)
<1>1. (S \ T) \union (S \cap T) = S /\ (S \ T) \cap (S \cap T) = {}
  OBVIOUS
<1>2. Bytes(S) = Bytes(S \ T) + Bytes(S \cap T)
  BY <1>1, BytesApart
<1>3. Bytes(S \ T) \in Nat /\ Bytes(S \cap T) \in Nat
  BY BytesTyped
<1> QED
  BY <1>2, <1>3

LEMMA BytesAtMost ==
  ASSUME NEW S \in SUBSET Media, NEW T \in SUBSET S
  PROVE  Bytes(T) <= Bytes(S)
<1>1. (S \ T) \union T = S /\ (S \ T) \cap T = {}
  OBVIOUS
<1>2. Bytes(S) = Bytes(S \ T) + Bytes(T)
  BY <1>1, BytesApart
<1>3. Bytes(S \ T) \in Nat /\ Bytes(T) \in Nat
  BY BytesTyped
<1> QED
  BY <1>2, <1>3

\* One medium more, and one less.
LEMMA OneMore ==
  ASSUME NEW S \in SUBSET Media, NEW m \in Media \ S
  PROVE  /\ Bytes(S \union {m}) = Bytes(S) + Size[m]
         /\ Cardinality(S \union {m}) = Cardinality(S) + 1
<1>1. IsFiniteSet(S)
  BY FS_Subset, MediaAssumption
<1>2. Bytes(S \union {m}) = Bytes(S) + Bytes({m})
  BY BytesApart
<1> QED
  BY <1>1, <1>2, BytesOfOne, FS_AddElement

LEMMA OneLess ==
  ASSUME NEW S \in SUBSET Media, NEW m \in S
  PROVE  /\ Bytes(S \ {m}) = Bytes(S) - Size[m]
         /\ Cardinality(S \ {m}) = Cardinality(S) - 1
<1>1. IsFiniteSet(S)
  BY FS_Subset, MediaAssumption
<1>2. S \cap {m} = {m}
  OBVIOUS
<1>3. Bytes(S \ {m}) = Bytes(S) - Bytes({m})
  BY <1>2, BytesWithout
<1> QED
  BY <1>1, <1>3, BytesOfOne, FS_RemoveElement

LEMMA Counted ==
  ASSUME NEW S \in SUBSET Media
  PROVE  Cardinality(S) \in Nat /\ IsFiniteSet(S)
  BY FS_Subset, FS_CardinalityType, MediaAssumption

-----------------------------------------------------------------------------
(* What a method makes of the copy.                                        *)

\* d may be written back over c.
Follows(c, d) ==
    /\ d \in Tables
    /\ Agrees(c) /\ Remembers(c) => Agrees(d) /\ Remembers(d)
    /\ c.processed \subseteq d.processed
    /\ \A m \in Media : d.row[m] = "none" => c.row[m] = "none"

LEMMA Lessens ==
  ASSUME NEW a \in Nat, NEW b \in Nat
  PROVE  /\ Less(a, b) \in Nat
         /\ b <= a => Less(a, b) = a - b
         /\ \A n \in Nat : a <= n /\ b <= n => Less(a, b) <= n - b
         /\ Less(a, b) <= a
  BY DEF Less

LEMMA LessTyped ==
  ASSUME NEW a \in Int, NEW b \in Nat
  PROVE  Less(a, b) \in Int
  BY DEF Less

LEMMA HavingTyped ==
  ASSUME NEW c \in Tables, NEW S
  PROVE  Having(c, S) \in SUBSET Media /\ Kept(c) \in SUBSET Media
  BY DEF Having, Kept

LEMMA Unchanging ==
  ASSUME NEW c \in Tables
  PROVE  Follows(c, c)
  BY DEF Follows

\* The rest of the copy stays, or the outbox grows.
LEMMA RowWritten ==
  ASSUME NEW c \in Tables, NEW d \in Tables,
         d.refs = c.refs, d.processed = c.processed, Agrees(c) => Agrees(d),
         \A k \in Media : d.row[k] = "none" => c.row[k] = "none"
  PROVE  Follows(c, d)
  BY DEF Follows, Remembers, Holds

LEMMA Initiated ==
  ASSUME NEW c \in Tables, NEW m \in Media, c.row[m] = "none",
         NEW d, d = [c EXCEPT !.row[m] = "PENDING"]
  PROVE  Follows(c, d) /\ \A k \in Media \ {m} : d.row[k] = c.row[k]
<1>1. d \in Tables /\ d.row = [c.row EXCEPT ![m] = "PENDING"] /\ d.used = c.used
      /\ d.refs = c.refs /\ d.processed = c.processed
  BY DEF Tables, MediaStatus
<1>2. c.row \in [Media -> MediaStatus \union {"none"}]
  BY DEF Tables
<1>3. Kept(d) = Kept(c) /\ Having(d, {"UPLOADING"}) = Having(c, {"UPLOADING"})
  BY <1>1, <1>2 DEF Kept, Having
<1>4. Agrees(c) => Agrees(d)
  BY <1>1, <1>3 DEF Agrees
<1>5. \A k \in Media : d.row[k] = "none" => c.row[k] = "none"
  BY <1>1, <1>2
<1>6. Follows(c, d)
  BY <1>1, <1>4, <1>5, RowWritten
<1> QED
  BY <1>1, <1>2, <1>6

LEMMA MultipartInitiated ==
  ASSUME NEW c \in Tables, NEW m \in Media, c.row[m] = "none",
         NEW d, d = Reserving(c, m)
  PROVE  /\ Follows(c, d) /\ \A k \in Media \ {m} : d.row[k] = c.row[k]
         /\ d.row[m] = "UPLOADING"
<1>1. Size[m] \in Nat
  BY MediaAssumption
<1>2. c.row \in [Media -> MediaStatus \union {"none"}] /\ c.used.reserved \in Nat
  BY DEF Tables
<1>3. /\ d.row = [c.row EXCEPT ![m] = "UPLOADING"]
      /\ d.used = [c.used EXCEPT !.reserved = @ + Size[m]]
      /\ d.outbox = c.outbox
      /\ d.refs = c.refs /\ d.processed = c.processed /\ d.revoked = c.revoked
      /\ d = [row |-> d.row, refs |-> d.refs, processed |-> d.processed,
              revoked |-> d.revoked, outbox |-> d.outbox, used |-> d.used]
  BY DEF Tables, Reserving
<1>4. /\ d.used.stored = c.used.stored /\ d.used.count = c.used.count
      /\ d.used.reserved = c.used.reserved + Size[m]
      /\ d.used \in [stored : Int, count : Int, reserved : Nat]
  BY <1>1, <1>3 DEF Tables
<1>5. d \in Tables
  <2>1. d.row \in [Media -> MediaStatus \union {"none"}]
    BY <1>2, <1>3 DEF MediaStatus
  <2> QED
    BY <1>3, <1>4, <2>1 DEF Tables
<1>6. /\ Kept(d) = Kept(c) /\ m \notin Having(c, {"UPLOADING"})
      /\ Having(d, {"UPLOADING"}) = Having(c, {"UPLOADING"}) \union {m}
  BY <1>2, <1>3 DEF Kept, Having
<1>7. Bytes(Having(d, {"UPLOADING"})) = Bytes(Having(c, {"UPLOADING"})) + Size[m]
  BY <1>6, OneMore, HavingTyped
<1>8. Bytes(Having(c, {"UPLOADING"})) \in Nat
  BY HavingTyped, BytesTyped
<1>9. Agrees(c) => c.used.reserved <= Bytes(Having(c, {"UPLOADING"}))
  BY DEF Agrees
<1>10. Agrees(c) => d.used.reserved <= Bytes(Having(d, {"UPLOADING"}))
  BY <1>1, <1>2, <1>4, <1>7, <1>8, <1>9
<1>11. Agrees(c) => Agrees(d)
  BY <1>4, <1>6, <1>10 DEF Agrees
<1>12. \A k \in Media : d.row[k] = "none" => c.row[k] = "none"
  BY <1>2, <1>3
<1>13. Follows(c, d)
  BY <1>3, <1>5, <1>11, <1>12, RowWritten
<1> QED
  BY <1>2, <1>3, <1>13

\* What was reserved for m is released, and m is not uploading any more.
LEMMA Released ==
  ASSUME NEW c \in Tables, NEW d, NEW m \in Media,
         Having(d, {"UPLOADING"}) = Having(c, {"UPLOADING"}) \ {m},
         d.used.reserved = Less(c.used.reserved, Size[m])
  PROVE  /\ d.used.reserved \in Nat
         /\ Agrees(c) => d.used.reserved <= Bytes(Having(d, {"UPLOADING"}))
<1> DEFINE U == Having(c, {"UPLOADING"})
<1>1. Size[m] \in Nat /\ c.used.reserved \in Nat
  BY MediaAssumption DEF Tables
<1>2. U \in SUBSET Media
  BY HavingTyped
<1>3. Less(c.used.reserved, Size[m]) \in Nat
  BY <1>1, Lessens
<1> SUFFICES ASSUME Agrees(c)
             PROVE  d.used.reserved <= Bytes(Having(d, {"UPLOADING"}))
  BY <1>3
<1>4. Bytes(U) \in Nat /\ c.used.reserved <= Bytes(U)
  BY <1>2, BytesTyped DEF Agrees
<1>5. CASE m \in U
  <2>1. Bytes(U \ {m}) = Bytes(U) - Size[m]
    BY <1>2, <1>5, OneLess
  <2>2. Bytes(U \ {m}) \in Nat
    BY <1>2, BytesTyped
  <2>3. Size[m] <= Bytes(U)
    BY <1>1, <1>4, <2>1, <2>2
  <2>4. Less(c.used.reserved, Size[m]) <= Bytes(U) - Size[m]
    BY <1>1, <1>4, <2>3, Lessens
  <2> QED
    BY <1>3, <2>1, <2>4
<1>6. CASE m \notin U
  <2>1. U \ {m} = U
    BY <1>6
  <2>2. Less(c.used.reserved, Size[m]) <= c.used.reserved
    BY <1>1, Lessens
  <2> QED
    BY <1>1, <1>3, <1>4, <2>1, <2>2
<1> QED
  BY <1>5, <1>6

LEMMA Marked ==
  ASSUME NEW c \in Tables, NEW m \in Media,
         c.row[m] \in {"PENDING", "UPLOADING", "UPLOADED"}, NEW d, d = MarkReady(c, m)
  PROVE  Follows(c, d) /\ \A k \in Media \ {m} : d.row[k] = c.row[k]
<1>1. Size[m] \in Nat
  BY MediaAssumption
<1>2. c.row \in [Media -> MediaStatus \union {"none"}] /\ c.used.reserved \in Nat
      /\ c.used.stored \in Int /\ c.used.count \in Int
  BY DEF Tables
<1>3. /\ d.row = [c.row EXCEPT ![m] = "READY"]
      /\ d.used = [stored |-> c.used.stored + Size[m], count |-> c.used.count + 1,
                   reserved |-> Less(c.used.reserved, Size[m])]
      /\ d.outbox = c.outbox \union {<<"ready", m>>}
      /\ d.refs = c.refs /\ d.processed = c.processed /\ d.revoked = c.revoked
      /\ d = [row |-> d.row, refs |-> d.refs, processed |-> d.processed,
              revoked |-> d.revoked, outbox |-> d.outbox, used |-> d.used]
  BY DEF Tables, MarkReady, Told
<1>4. /\ Kept(d) = Kept(c) \union {m} /\ m \notin Kept(c)
      /\ Having(d, {"UPLOADING"}) = Having(c, {"UPLOADING"}) \ {m}
  BY <1>2, <1>3 DEF Kept, Having
<1>5. /\ d.used.reserved \in Nat
      /\ Agrees(c) => d.used.reserved <= Bytes(Having(d, {"UPLOADING"}))
  BY <1>3, <1>4, Released
<1>6. /\ Bytes(Kept(d)) = Bytes(Kept(c)) + Size[m]
      /\ Cardinality(Kept(d)) = Cardinality(Kept(c)) + 1
  BY <1>4, OneMore, HavingTyped
<1>7. Agrees(c) => Agrees(d)
  BY <1>3, <1>5, <1>6 DEF Agrees
<1>8. d \in Tables
  <2>1. d.used \in [stored : Int, count : Int, reserved : Nat]
    BY <1>1, <1>2, <1>3, <1>5
  <2>2. d.row \in [Media -> MediaStatus \union {"none"}]
    BY <1>2, <1>3 DEF MediaStatus
  <2> QED
    BY <1>3, <2>1, <2>2 DEF Tables
<1> QED
  BY <1>2, <1>3, <1>7, <1>8, RowWritten

LEMMA AbortFollows ==
  ASSUME NEW c \in Tables, NEW m \in Media,
         c.row[m] = "UPLOADING", NEW d, d = Aborted(c, m)
  PROVE  Follows(c, d) /\ \A k \in Media \ {m} : d.row[k] = c.row[k]
<1>1. c.row \in [Media -> MediaStatus \union {"none"}]
      /\ c.used \in [stored : Int, count : Int, reserved : Nat]
  BY DEF Tables
<1>2. /\ d.row = [c.row EXCEPT ![m] = "FAILED"]
      /\ d.used = [c.used EXCEPT !.reserved = Less(@, Size[m])]
      /\ d.outbox = c.outbox \union {<<"failed", m>>}
      /\ d.refs = c.refs /\ d.processed = c.processed /\ d.revoked = c.revoked
      /\ d = [row |-> d.row, refs |-> d.refs, processed |-> d.processed,
              revoked |-> d.revoked, outbox |-> d.outbox, used |-> d.used]
  BY DEF Tables, Aborted, Told
<1>3. Kept(d) = Kept(c) /\ Having(d, {"UPLOADING"}) = Having(c, {"UPLOADING"}) \ {m}
  BY <1>1, <1>2 DEF Kept, Having
<1>4. /\ d.used.stored = c.used.stored /\ d.used.count = c.used.count
      /\ d.used.reserved = Less(c.used.reserved, Size[m])
  BY <1>1, <1>2
<1>5. /\ d.used.reserved \in Nat
      /\ Agrees(c) => d.used.reserved <= Bytes(Having(d, {"UPLOADING"}))
  BY <1>3, <1>4, Released
<1>6. Agrees(c) => Agrees(d)
  BY <1>3, <1>4, <1>5 DEF Agrees
<1>7. d \in Tables
  <2>1. d.used \in [stored : Int, count : Int, reserved : Nat]
    BY <1>1, <1>2, <1>4, <1>5
  <2>2. d.row \in [Media -> MediaStatus \union {"none"}]
    BY <1>1, <1>2 DEF MediaStatus
  <2> QED
    BY <1>2, <2>1, <2>2 DEF Tables
<1>8. \A k \in Media : d.row[k] = "none" => c.row[k] = "none"
  BY <1>1, <1>2
<1>9. Follows(c, d)
  BY <1>2, <1>6, <1>7, <1>8, RowWritten
<1> QED
  BY <1>1, <1>2, <1>9

\* A kept medium is counted, so nothing is subtracted from zero.
LEMMA DeleteFollows ==
  ASSUME NEW c \in Tables, NEW m \in Media,
         c.row[m] = "READY", NEW d,
         d = Gone(c, m, c.used.stored - Size[m], c.used.count - 1)
  PROVE  Follows(c, d) /\ \A k \in Media \ {m} : d.row[k] = c.row[k]
<1>1. c.row \in [Media -> MediaStatus \union {"none"}]
      /\ c.used \in [stored : Int, count : Int, reserved : Nat]
  BY DEF Tables
<1>2. /\ d.row = [c.row EXCEPT ![m] = "DELETED"]
      /\ d.used = [c.used EXCEPT !.stored = c.used.stored - Size[m],
                                 !.count = c.used.count - 1]
      /\ d.outbox = c.outbox \union {<<"deleted", m>>}
      /\ d.refs = c.refs /\ d.processed = c.processed /\ d.revoked = c.revoked
      /\ d = [row |-> d.row, refs |-> d.refs, processed |-> d.processed,
              revoked |-> d.revoked, outbox |-> d.outbox, used |-> d.used]
  BY DEF Tables, Gone, Told
<1>3. /\ Kept(d) = Kept(c) \ {m} /\ m \in Kept(c)
      /\ Having(d, {"UPLOADING"}) = Having(c, {"UPLOADING"})
  BY <1>1, <1>2 DEF Kept, Having
<1>4. /\ d.used.stored = c.used.stored - Size[m] /\ d.used.count = c.used.count - 1
      /\ d.used.reserved = c.used.reserved
  BY <1>1, <1>2
<1>5. /\ Bytes(Kept(d)) = Bytes(Kept(c)) - Size[m]
      /\ Cardinality(Kept(d)) = Cardinality(Kept(c)) - 1
  BY <1>3, OneLess, HavingTyped
<1>6. Agrees(c) => Agrees(d)
  BY <1>3, <1>4, <1>5 DEF Agrees
<1>7. Size[m] \in Nat
  BY MediaAssumption
<1>8. d \in Tables
  <2>1. c.used.stored - Size[m] \in Int /\ c.used.count - 1 \in Int
    BY <1>1, <1>7
  <2>2. d.used \in [stored : Int, count : Int, reserved : Nat]
    BY <1>1, <1>2, <2>1
  <2>3. d.row \in [Media -> MediaStatus \union {"none"}]
    BY <1>1, <1>2 DEF MediaStatus
  <2> QED
    BY <1>2, <2>2, <2>3 DEF Tables
<1>9. \A k \in Media : d.row[k] = "none" => c.row[k] = "none"
  BY <1>1, <1>2
<1>10. Follows(c, d)
  BY <1>2, <1>6, <1>8, <1>9, RowWritten
<1> QED
  BY <1>1, <1>2, <1>10

LEMMA CleaningFollows ==
  ASSUME NEW c \in Tables, NEW O \in SUBSET Media,
         \A m \in O : /\ c.row[m] \in {"PENDING", "UPLOADING"}
                      /\ c.row[m] = "UPLOADING" => Strategy[m] = "MULTIPART",
         NEW d, d = CleanOrphans(c, O)
  PROVE  /\ Follows(c, d) /\ \A k \in Media \ O : d.row[k] = c.row[k]
         /\ \A k \in O : d.row[k] = "FAILED"
<1> DEFINE multipart == {m \in O : Strategy[m] = "MULTIPART"}
           U == Having(c, {"UPLOADING"})
<1>1. c.row \in [Media -> MediaStatus \union {"none"}]
      /\ c.used \in [stored : Int, count : Int, reserved : Nat]
  BY DEF Tables
<1>2. /\ d.row = [m \in Media |-> IF m \in O THEN "FAILED" ELSE c.row[m]]
      /\ d.used = [c.used EXCEPT !.reserved = Less(@, Bytes(multipart))]
      /\ d.outbox = c.outbox \union ({"failed"} \X O)
      /\ d.refs = c.refs /\ d.processed = c.processed /\ d.revoked = c.revoked
      /\ d = [row |-> d.row, refs |-> d.refs, processed |-> d.processed,
              revoked |-> d.revoked, outbox |-> d.outbox, used |-> d.used]
  BY DEF Tables, CleanOrphans
<1>3. Kept(d) = Kept(c) /\ Having(d, {"UPLOADING"}) = U \ O
  BY <1>1, <1>2 DEF Kept, Having
<1>4. /\ d.used.stored = c.used.stored /\ d.used.count = c.used.count
      /\ d.used.reserved = Less(c.used.reserved, Bytes(multipart))
  BY <1>1, <1>2
<1>5. /\ d.used.reserved \in Nat
      /\ Agrees(c) => d.used.reserved <= Bytes(Having(d, {"UPLOADING"}))
  <2>1. U \in SUBSET Media /\ multipart \in SUBSET Media /\ U \cap O \in SUBSET multipart
    BY HavingTyped DEF Having
  <2>2. /\ Bytes(U) \in Nat /\ Bytes(multipart) \in Nat /\ Bytes(U \cap O) \in Nat
        /\ Bytes(U \ O) \in Nat
    <3>1. U \cap O \in SUBSET Media /\ U \ O \in SUBSET Media
      BY <2>1
    <3> QED
      BY <2>1, <3>1, BytesTyped
  <2>3. Bytes(U \ O) = Bytes(U) - Bytes(U \cap O)
    BY <2>1, BytesWithout
  <2>4. Bytes(U \cap O) <= Bytes(multipart)
    BY <2>1, BytesAtMost
  <2>5. c.used.reserved \in Nat /\ (Agrees(c) => c.used.reserved <= Bytes(U))
    BY <1>1 DEF Agrees
  <2> HIDE DEF U, multipart
  <2>6. Less(c.used.reserved, Bytes(multipart)) \in Nat
    BY <2>2, <2>5, Lessens
  <2>7. Agrees(c) => Less(c.used.reserved, Bytes(multipart)) <= Bytes(U) - Bytes(U \cap O)
    BY <2>2, <2>3, <2>4, <2>5 DEF Less
  <2> QED
    BY <1>3, <1>4, <2>3, <2>6, <2>7
<1>6. Agrees(c) => Agrees(d)
  BY <1>3, <1>4, <1>5 DEF Agrees
<1>7. d \in Tables
  <2>1. d.used \in [stored : Int, count : Int, reserved : Nat]
    BY <1>1, <1>2, <1>4, <1>5
  <2>2. d.row \in [Media -> MediaStatus \union {"none"}]
    BY <1>1, <1>2 DEF MediaStatus
  <2>3. d.outbox \in SUBSET ({"ready", "failed", "deleted"} \X Media)
    BY <1>2 DEF Tables
  <2> QED
    BY <1>2, <2>1, <2>2, <2>3 DEF Tables
<1>8. \A k \in Media : d.row[k] = "none" => c.row[k] = "none"
  BY <1>1, <1>2
<1>9. Follows(c, d)
  BY <1>2, <1>6, <1>7, <1>8, RowWritten
<1> QED
  BY <1>1, <1>2, <1>9

LEMMA PurgeFollows ==
  ASSUME NEW c, NEW R, NEW F, NEW d, d = Purge(c, R, F),
         c \in Tables, R \subseteq Media, F \subseteq R,
         \A m \in R : c.row[m] = "READY"
  PROVE  /\ Follows(c, d) /\ \A k \in Media \ R : d.row[k] = c.row[k]
         /\ \A k \in R : d.row[k] \in {"DELETED", "DELETING"}
<1> DEFINE gone == R \ F
           K == Kept(c)
<1>1. c.row \in [Media -> MediaStatus \union {"none"}]
      /\ c.used \in [stored : Int, count : Int, reserved : Nat]
  BY DEF Tables
<1>2. /\ d.row = [m \in Media |-> IF m \in gone THEN "DELETED"
                                  ELSE IF m \in F THEN "DELETING" ELSE c.row[m]]
      /\ d.used = [c.used EXCEPT !.stored = Less(@, Bytes(gone)),
                                 !.count = Less(@, Cardinality(gone))]
      /\ d.outbox = c.outbox \union ({"deleted"} \X gone)
      /\ d.refs = c.refs /\ d.processed = c.processed /\ d.revoked = c.revoked
      /\ d = [row |-> d.row, refs |-> d.refs, processed |-> d.processed,
              revoked |-> d.revoked, outbox |-> d.outbox, used |-> d.used]
  BY DEF Tables, Purge
<1>3. /\ gone \in SUBSET K /\ K \in SUBSET Media /\ Kept(d) = K \ gone
      /\ Having(d, {"UPLOADING"}) = Having(c, {"UPLOADING"})
  BY <1>1, <1>2 DEF Kept, Having
<1>4. /\ d.used.stored = Less(c.used.stored, Bytes(gone))
      /\ d.used.count = Less(c.used.count, Cardinality(gone))
      /\ d.used.reserved = c.used.reserved
  BY <1>1, <1>2
<1>5. Agrees(c) => c.used.stored = Bytes(K) /\ c.used.count = Cardinality(K)
  BY DEF Agrees
<1>6. /\ gone \in SUBSET Media /\ K \ gone \in SUBSET Media /\ K \cap gone = gone
      /\ K = (K \ gone) \union gone /\ (K \ gone) \cap gone = {}
  BY <1>3
<1> HIDE DEF gone, K
<1>7. /\ Bytes(K) \in Nat /\ Bytes(gone) \in Nat /\ Bytes(K \ gone) \in Nat
      /\ Bytes(K \ gone) = Bytes(K) - Bytes(gone)
  <2>1. Bytes(K \ gone) = Bytes(K) - Bytes(K \cap gone)
    BY <1>3, <1>6, BytesWithout
  <2> QED
    BY <1>3, <1>6, <2>1, BytesTyped
<1>8. /\ Cardinality(K) \in Nat /\ Cardinality(gone) \in Nat
      /\ Cardinality(K \ gone) \in Nat
      /\ Cardinality(K \ gone) = Cardinality(K) - Cardinality(gone)
  <2>1. Cardinality(K \ gone) = Cardinality(K) - Cardinality(K \cap gone)
    BY <1>3, Counted, FS_Difference
  <2> QED
    BY <1>3, <1>6, <2>1, Counted
<1>9. Less(Bytes(K), Bytes(gone)) = Bytes(K \ gone)
  BY <1>7, Lessens
<1>10. Less(Cardinality(K), Cardinality(gone)) = Cardinality(K \ gone)
  BY <1>8, Lessens
<1>11. Agrees(c) => Agrees(d)
  BY <1>3, <1>4, <1>5, <1>9, <1>10 DEF Agrees
<1>12. d \in Tables
  <2>1. d.used.stored \in Int /\ d.used.count \in Int /\ d.used.reserved \in Nat
    <3>1. c.used.stored \in Int /\ c.used.count \in Int /\ c.used.reserved \in Nat
      BY <1>1
    <3>2. /\ Less(c.used.stored, Bytes(gone)) \in Int
          /\ Less(c.used.count, Cardinality(gone)) \in Int
      BY <1>7, <1>8, <3>1, LessTyped
    <3> QED
      BY <1>4, <3>1, <3>2
  <2>2. d.used = [stored |-> d.used.stored, count |-> d.used.count,
                  reserved |-> d.used.reserved]
    BY <1>1, <1>2
  <2>3. d.used \in [stored : Int, count : Int, reserved : Nat]
    BY <2>1, <2>2
  <2>4. d.row \in [Media -> MediaStatus \union {"none"}]
    BY <1>1, <1>2 DEF MediaStatus
  <2>5. d.outbox \in SUBSET ({"ready", "failed", "deleted"} \X Media)
    BY <1>2, <1>6 DEF Tables
  <2> QED
    BY <1>2, <2>3, <2>4, <2>5 DEF Tables
<1>13. \A k \in Media : d.row[k] = "none" => c.row[k] = "none"
  BY <1>1, <1>2
<1>14. Follows(c, d)
  BY <1>2, <1>11, <1>12, <1>13, RowWritten
<1>15. \A k \in R : k \in gone \/ k \in F
  BY DEF gone
<1>16. \A k \in Media \ R : k \notin gone /\ k \notin F
  BY DEF gone
<1> QED
  BY <1>1, <1>2, <1>14, <1>15, <1>16

LEMMA EventFollows ==
  ASSUME NEW c \in Tables, NEW e \in Event,
         e \notin c.processed, NEW d, d = Applied(c, e)
  PROVE  Follows(c, d) /\ d.row = c.row
<1>1. /\ d.row = c.row /\ d.used = c.used /\ d.outbox = c.outbox
      /\ d.refs = CASE e[1] = "created" -> c.refs \union {e[2]}
                    [] e[1] = "deleted" -> c.refs \ {e[2]}
                    [] OTHER -> c.refs
      /\ d.revoked = CASE e[1] = "left" -> TRUE
                       [] e[1] = "reactivated" -> FALSE
                       [] OTHER -> c.revoked
      /\ d.processed = c.processed \union {e}
      /\ d = [row |-> d.row, refs |-> d.refs, processed |-> d.processed,
              revoked |-> d.revoked, outbox |-> d.outbox, used |-> d.used]
  BY DEF Tables, Applied
<1>2. /\ e[1] \in {"created", "deleted", "left", "reactivated"}
      /\ e[1] \in {"created", "deleted"} => e[2] \in Messages
      /\ \A kind, k : e = <<kind, k>> => kind = e[1] /\ k = e[2]
      /\ e = <<e[1], e[2]>>
  BY DEF Event
<1>3. d.revoked \in BOOLEAN
  BY <1>1, <1>2 DEF Tables
<1>4. d.refs \in SUBSET Messages
  BY <1>1, <1>2 DEF Tables
<1>5. d \in Tables
  BY <1>1, <1>3, <1>4 DEF Tables
<1>6. Agrees(c) => Agrees(d)
  BY <1>1 DEF Agrees, Kept, Having
<1>7. Remembers(c) => Remembers(d)
  <2> SUFFICES ASSUME Remembers(c), NEW k \in Messages,
                      <<"created", k>> \in d.processed,
                      <<"deleted", k>> \notin d.processed
               PROVE  k \in d.refs
    BY DEF Remembers, Holds
  <2>1. e # <<"deleted", k>> /\ <<"deleted", k>> \notin c.processed
    BY <1>1
  <2>2. CASE e = <<"created", k>>
    BY <1>1, <1>2, <2>2
  <2>3. CASE e # <<"created", k>>
    <3>1. k \in c.refs
      BY <1>1, <2>1, <2>3 DEF Remembers, Holds
    <3>2. e[1] = "deleted" => e[2] # k
      BY <1>2, <2>1
    <3> QED
      BY <1>1, <1>2, <3>1, <3>2
  <2> QED
    BY <2>2, <2>3
<1> QED
  BY <1>1, <1>5, <1>6, <1>7 DEF Follows

-----------------------------------------------------------------------------
(* The invariant.                                                          *)

\* The tables, and the copies that may be written back over them.
Versions == {db} \union {tx[v].copy : v \in {v \in Workers : tx[v] # NoTx}}

Silent(c, m) == \A kind \in {"ready", "failed", "deleted"} : <<kind, m>> \notin c.outbox

\* What a version says of a medium's upload, and what its outbox tells of the medium,
\* against what the store has.
Fits(c) ==
    \A m \in Media :
        /\ c.row[m] = "PENDING" => Strategy[m] = "SIMPLE"
        /\ uploads[m] # NoUpload \/ (Strategy[m] = "MULTIPART" /\ db.row[m] = "none")
              => c.row[m] \in {"none", "UPLOADING"} /\ Silent(c, m)
        /\ <<"failed", m>> \in c.outbox
              => objects[m] = "none" /\ (Strategy[m] = "SIMPLE" => m \in expired)
        /\ Strategy[m] = "MULTIPART" /\ <<"deleted", m>> \in c.outbox => objects[m] = "none"
        /\ Strategy[m] = "MULTIPART" /\ <<"ready", m>> \in c.outbox => objects[m] # "other"

\* No two versions disagree on how an upload in parts has ended.
Consistent(c, d) ==
    \A m \in Media : Strategy[m] = "MULTIPART" /\ <<"ready", m>> \in c.outbox
                        => <<"failed", m>> \notin d.outbox

VersionInv ==
    /\ \A c \in Versions : Fits(c)
    /\ \A c, d \in Versions : Consistent(c, d)

\* An open upload is one in parts and has no object yet, an object in parts is of a medium
\* with a row, and what was swept is gone for good.
StoreInv ==
    \A m \in Media :
        /\ uploads[m] # NoUpload => Strategy[m] = "MULTIPART" /\ objects[m] = "none"
        /\ Strategy[m] = "MULTIPART" /\ db.row[m] = "none" => objects[m] = "none"
        /\ m \in expired => db.row[m] # "none"
        /\ m \in swept => m \in expired /\ objects[m] = "none" /\ uploads[m] = NoUpload

\* A transaction that no other has overtaken holds what is committed, and then what may
\* be written back over it.
TransactionInv ==
    \A v \in Workers : tx[v] # NoTx =>
        /\ tx[v].stage # "done" =>
              /\ \A m \in Media : db.row[m] = "none" => tx[v].copy.row[m] = "none"
              /\ tx[v].same = {} /\ tx[v].sameUsed = {}
              /\ ~tx[v].overtaken => tx[v].copy = db
        /\ tx[v].stage = "done" /\ ~tx[v].overtaken =>
              /\ Follows(db, tx[v].copy)
              /\ \A m \in tx[v].same : tx[v].copy.row[m] = db.row[m]
              /\ \A k \in tx[v].sameUsed : tx[v].copy.used[k] = db.used[k]

MediaInv == MediaTypeOK /\ VersionInv /\ StoreInv /\ TransactionInv

LEMMA Versioned ==
  ASSUME MediaTypeOK
  PROVE  /\ db \in Tables /\ Versions \in SUBSET Tables /\ db \in Versions
         /\ \A v \in Workers : tx[v] # NoTx =>
              tx[v] \in Transaction /\ tx[v].copy \in Versions
  BY DEF MediaTypeOK, Versions, Transaction

\* A step whose only new version is c.
LEMMA VersionAdded ==
  ASSUME VersionInv, NEW c, Versions' \subseteq Versions \union {c},
         Fits(c)', Consistent(c, c),
         \A d \in Versions : Fits(d)' /\ Consistent(c, d) /\ Consistent(d, c)
  PROVE  VersionInv'
<1>1. \A d \in Versions' : Fits(d)'
  OBVIOUS
<1>2. \A b, d \in Versions' : Consistent(b, d)
  BY DEF VersionInv
<1>3. (\A b, d \in Versions : Consistent(b, d))'
  BY <1>2 DEF Consistent
<1> QED
  BY <1>1, <1>3 DEF VersionInv

LEMMA VersionsKept ==
  ASSUME VersionInv, Versions' \subseteq Versions, \A d \in Versions : Fits(d)'
  PROVE  VersionInv'
<1>1. \A b, d \in Versions' : Consistent(b, d)
  BY DEF VersionInv
<1>2. (\A b, d \in Versions : Consistent(b, d))'
  BY <1>1 DEF Consistent
<1> QED
  BY <1>2 DEF VersionInv

\* The tables and the store as they were.
LEMMA StillFits ==
  ASSUME UNCHANGED <<db, objects, uploads, expired>>
  PROVE  \A c : Fits(c)' <=> Fits(c)
  BY DEF Fits, Silent

\* A method that returns the copy c, having changed the store.
LEMMA Returned ==
  ASSUME MediaInv, NEW w \in Workers, Open(w), NEW c, Follows(Copy(w), c), Return(w, c),
         UNCHANGED <<db, expired, opened>>, swept' \subseteq Media,
         objects' \in [Media -> Content],
         uploads' \in [Media -> {NoUpload} \union [Parts -> Content]],
         StoreInv', Fits(c)', Consistent(c, c),
         \A d \in Versions : Fits(d)' /\ Consistent(c, d) /\ Consistent(d, c)
  PROVE  MediaInv'
<1>1. /\ tx \in [Workers -> {NoTx} \union Transaction] /\ tx[w] \in Transaction
      /\ tx[w] # NoTx /\ tx[w].stage = "open" /\ c \in Tables
  BY DEF MediaInv, MediaTypeOK, Open, Follows
<1>2. /\ tx' = [tx EXCEPT ![w] = [tx[w] EXCEPT !.stage = "done", !.copy = c]]
      /\ [tx[w] EXCEPT !.stage = "done", !.copy = c] \in Transaction
  BY <1>1 DEF Return, Transaction
<1>3. /\ \A v \in Workers \ {w} : tx'[v] = tx[v]
      /\ tx'[w].stage = "done" /\ tx'[w].copy = c /\ tx'[w].same = tx[w].same
      /\ tx'[w].sameUsed = tx[w].sameUsed /\ tx'[w].overtaken = tx[w].overtaken
  BY <1>1, <1>2 DEF Transaction
<1>4. MediaTypeOK'
  BY <1>1, <1>2 DEF MediaInv, MediaTypeOK
<1>5. Versions' \subseteq Versions \union {c}
  BY <1>3 DEF Versions
<1>6. VersionInv'
  BY <1>5, VersionAdded DEF MediaInv
<1>7. TransactionInv'
  <2> SUFFICES ASSUME NEW v \in Workers, tx'[v] # NoTx
               PROVE  /\ tx'[v].stage # "done" =>
                           /\ \A m \in Media :
                                db.row[m] = "none" => tx'[v].copy.row[m] = "none"
                           /\ tx'[v].same = {} /\ tx'[v].sameUsed = {}
                           /\ ~tx'[v].overtaken => tx'[v].copy = db
                      /\ tx'[v].stage = "done" /\ ~tx'[v].overtaken =>
                           /\ Follows(db, tx'[v].copy)
                           /\ \A m \in tx'[v].same : tx'[v].copy.row[m] = db.row[m]
                           /\ \A k \in tx'[v].sameUsed :
                                tx'[v].copy.used[k] = db.used[k]
    BY DEF TransactionInv
  <2>1. CASE v = w
    BY <1>1, <1>3, <2>1 DEF MediaInv, TransactionInv, Copy
  <2>2. CASE v # w
    BY <1>3, <2>2 DEF MediaInv, TransactionInv
  <2> QED
    BY <2>1, <2>2
<1> QED
  BY <1>4, <1>6, <1>7 DEF MediaInv

\* ... and with the tables and the store as they were.
LEMMA ReturnedQuietly ==
  ASSUME MediaInv, NEW w \in Workers, Open(w), NEW c, Follows(Copy(w), c), Return(w, c),
         UNCHANGED <<db, objects, uploads, expired, swept, opened>>,
         Fits(c), Consistent(c, c),
         \A d \in Versions : Consistent(c, d) /\ Consistent(d, c)
  PROVE  MediaInv'
<1>1. StoreInv'
  BY DEF MediaInv, StoreInv
<1>2. Fits(c)' /\ \A d \in Versions : Fits(d)'
  BY StillFits DEF MediaInv, VersionInv
<1> QED
  BY <1>1, <1>2, Returned DEF MediaInv, MediaTypeOK

LEMMA Opened ==
  ASSUME MediaInv, NEW w \in Workers, Open(w)
  PROVE  /\ Copy(w) \in Tables /\ Copy(w) \in Versions /\ Fits(Copy(w))
         /\ \A d \in Versions : Consistent(Copy(w), d) /\ Consistent(d, Copy(w))
         /\ \A m \in Media : db.row[m] = "none" => Copy(w).row[m] = "none"
         /\ ~tx[w].overtaken => Copy(w) = db
<1>1. Copy(w) \in Tables /\ Copy(w) \in Versions
  BY Versioned DEF MediaInv, Open, Copy
<1> QED
  BY <1>1 DEF MediaInv, VersionInv, TransactionInv, Open, Copy

LEMMA Unread ==
  ASSUME MediaInv, NEW w \in Workers, Open(w), Return(w, Copy(w)),
         UNCHANGED <<db, objects, uploads, expired, swept, opened>>
  PROVE  MediaInv'
  BY Opened, Unchanging, ReturnedQuietly

-----------------------------------------------------------------------------
(* The steps of a transaction.                                             *)

LEMMA HydrateKeeps ==
  ASSUME MediaInv, NEW w \in Workers, Hydrate(w)
  PROVE  MediaInv'
<1> DEFINE t == [stage |-> "reading", copy |-> db, same |-> {}, sameUsed |-> {},
                 overtaken |-> FALSE]
<1>1. /\ tx \in [Workers -> {NoTx} \union Transaction] /\ db \in Tables
      /\ tx' = [tx EXCEPT ![w] = t] /\ opened \in Nat /\ opened' = opened + 1
      /\ UNCHANGED <<db, objects, uploads, expired, swept>>
  BY DEF MediaInv, MediaTypeOK, Hydrate
<1>2. t \in Transaction
  BY <1>1 DEF Transaction
<1>3. MediaTypeOK'
  BY <1>1, <1>2 DEF MediaInv, MediaTypeOK
<1>4. Versions' \subseteq Versions
  BY <1>1 DEF Versions
<1>5. VersionInv'
  BY <1>1, <1>4, StillFits, VersionsKept DEF MediaInv, VersionInv
<1>6. StoreInv'
  BY <1>1 DEF MediaInv, StoreInv
<1>7. TransactionInv'
  BY <1>1 DEF MediaInv, TransactionInv
<1> QED
  BY <1>3, <1>5, <1>6, <1>7 DEF MediaInv

LEMMA HydrateRestKeeps ==
  ASSUME MediaInv, NEW w \in Workers, HydrateRest(w)
  PROVE  MediaInv'
<1> PICK c : c = [tx[w].copy EXCEPT !.processed = db.processed, !.used = db.used]
  OBVIOUS
<1> PICK t : t = [tx[w] EXCEPT !.stage = "open", !.copy = c]
  OBVIOUS
<1>1. /\ tx \in [Workers -> {NoTx} \union Transaction] /\ db \in Tables
      /\ tx[w] # NoTx /\ tx[w] \in Transaction /\ tx[w].stage = "reading"
      /\ tx' = [tx EXCEPT ![w] = t]
      /\ UNCHANGED <<db, objects, uploads, expired, swept, opened>>
  BY DEF MediaInv, MediaTypeOK, HydrateRest
<1>2. /\ tx[w].copy \in Tables /\ tx[w].copy \in Versions
  BY <1>1, Versioned DEF MediaInv
<1>3. /\ c \in Tables /\ c.row = tx[w].copy.row /\ c.outbox = tx[w].copy.outbox
      /\ tx[w].copy = db => c = db
  BY <1>1, <1>2 DEF Tables
<1>4. t \in Transaction /\ t.stage = "open" /\ t.copy = c /\ t.same = tx[w].same
      /\ t.sameUsed = tx[w].sameUsed /\ t.overtaken = tx[w].overtaken
  BY <1>1, <1>3 DEF Transaction
<1>5. MediaTypeOK'
  BY <1>1, <1>4 DEF MediaInv, MediaTypeOK
<1>6. Versions' \subseteq Versions \union {c}
  BY <1>1, <1>4 DEF Versions
<1>7. Fits(c)
  BY <1>2, <1>3 DEF MediaInv, VersionInv, Fits, Silent
<1>8. Consistent(c, c) /\ \A d \in Versions : Consistent(c, d) /\ Consistent(d, c)
  BY <1>2, <1>3 DEF MediaInv, VersionInv, Consistent
<1>9. Fits(c)' /\ \A d \in Versions : Fits(d)'
  BY <1>1, <1>7, StillFits DEF MediaInv, VersionInv
<1>10. VersionInv'
  BY <1>6, <1>8, <1>9, VersionAdded DEF MediaInv
<1>11. StoreInv'
  BY <1>1 DEF MediaInv, StoreInv
<1>12. TransactionInv'
  <2>1. \A v \in Workers \ {w} : tx'[v] = tx[v]
    BY <1>1
  <2>2. tx'[w] = t
    BY <1>1
  <2> QED
    BY <1>1, <1>3, <1>4, <2>1, <2>2 DEF MediaInv, TransactionInv
<1> QED
  BY <1>5, <1>10, <1>11, <1>12 DEF MediaInv

LEMMA RollbackKeeps ==
  ASSUME MediaInv, NEW w \in Workers, tx' = [tx EXCEPT ![w] = NoTx],
         UNCHANGED <<db, expired, swept, opened>>,
         objects' \in [Media -> Content],
         uploads' \in [Media -> {NoUpload} \union [Parts -> Content]],
         StoreInv', \A d \in Versions : Fits(d)'
  PROVE  MediaInv'
<1>1. tx \in [Workers -> {NoTx} \union Transaction]
  BY DEF MediaInv, MediaTypeOK
<1>2. \A v \in Workers : tx'[v] # NoTx => tx[v] # NoTx /\ tx'[v] = tx[v]
  BY <1>1
<1>3. MediaTypeOK'
  BY <1>1 DEF MediaInv, MediaTypeOK
<1>4. Versions' \subseteq Versions
  BY <1>2 DEF Versions
<1>5. VersionInv'
  BY <1>4, VersionsKept DEF MediaInv
<1>6. TransactionInv'
  BY <1>2 DEF MediaInv, TransactionInv
<1> QED
  BY <1>3, <1>5, <1>6 DEF MediaInv

LEMMA MergeKeeps ==
  ASSUME MediaInv, NEW w \in Workers,
         MergeUsage(w) \/ \E m \in Media : MergeMedia(w, m)
  PROVE  MediaInv'
<1>1. /\ tx \in [Workers -> {NoTx} \union Transaction]
      /\ tx[w] # NoTx /\ tx[w] \in Transaction /\ tx[w].stage = "done"
      /\ UNCHANGED <<db, objects, uploads, expired, swept, opened>>
  BY DEF MediaInv, MediaTypeOK, MergeUsage, MergeMedia, Ended
<1>2. PICK t \in Transaction :
        /\ tx' = [tx EXCEPT ![w] = t]
        /\ t.stage = "done" /\ t.copy = tx[w].copy /\ t.overtaken = tx[w].overtaken
        /\ \A m \in t.same : m \in tx[w].same \/ tx[w].copy.row[m] = db.row[m]
        /\ \A k \in t.sameUsed :
              k \in tx[w].sameUsed \/ tx[w].copy.used[k] = db.used[k]
  <2>1. CASE MergeUsage(w)
    <3> DEFINE t == [tx[w] EXCEPT !.sameUsed =
                       {k \in Columns : tx[w].copy.used[k] = db.used[k]}]
    <3>1. tx' = [tx EXCEPT ![w] = t]
      BY <1>1, <2>1 DEF MergeUsage, Copy
    <3>2. t \in Transaction /\ t.stage = "done" /\ t.copy = tx[w].copy
          /\ t.overtaken = tx[w].overtaken /\ t.same = tx[w].same
          /\ t.sameUsed = {k \in Columns : tx[w].copy.used[k] = db.used[k]}
      BY <1>1 DEF Transaction
    <3> QED
      BY <3>1, <3>2
  <2>2. ASSUME NEW m \in Media, MergeMedia(w, m)
        PROVE  \E t \in Transaction :
                 /\ tx' = [tx EXCEPT ![w] = t]
                 /\ t.stage = "done" /\ t.copy = tx[w].copy
                 /\ t.overtaken = tx[w].overtaken
                 /\ \A k \in t.same : k \in tx[w].same \/ tx[w].copy.row[k] = db.row[k]
                 /\ \A k \in t.sameUsed :
                       k \in tx[w].sameUsed \/ tx[w].copy.used[k] = db.used[k]
    <3> DEFINE t == [tx[w] EXCEPT !.same = @ \union {m}]
    <3>1. tx' = [tx EXCEPT ![w] = t] /\ tx[w].copy.row[m] = db.row[m]
      BY <1>1, <2>2 DEF MergeMedia, Copy
    <3>2. t \in Transaction /\ t.stage = "done" /\ t.copy = tx[w].copy
          /\ t.overtaken = tx[w].overtaken /\ t.same = tx[w].same \union {m}
          /\ t.sameUsed = tx[w].sameUsed
      BY <1>1 DEF Transaction
    <3> QED
      BY <3>1, <3>2
  <2> QED
    BY <2>1, <2>2
<1>3. tx'[w] = t /\ \A v \in Workers \ {w} : tx'[v] = tx[v]
  BY <1>1, <1>2
<1>4. MediaTypeOK'
  BY <1>1, <1>2 DEF MediaInv, MediaTypeOK
<1>5. Versions' \subseteq Versions
  BY <1>1, <1>2, <1>3 DEF Versions
<1>6. VersionInv'
  BY <1>1, <1>5, StillFits, VersionsKept DEF MediaInv, VersionInv
<1>7. StoreInv'
  BY <1>1 DEF MediaInv, StoreInv
<1>8. TransactionInv'
  <2> SUFFICES ASSUME NEW v \in Workers, tx'[v] # NoTx
               PROVE  /\ tx'[v].stage # "done" =>
                           /\ \A m \in Media :
                                db.row[m] = "none" => tx'[v].copy.row[m] = "none"
                           /\ tx'[v].same = {} /\ tx'[v].sameUsed = {}
                           /\ ~tx'[v].overtaken => tx'[v].copy = db
                      /\ tx'[v].stage = "done" /\ ~tx'[v].overtaken =>
                           /\ Follows(db, tx'[v].copy)
                           /\ \A m \in tx'[v].same : tx'[v].copy.row[m] = db.row[m]
                           /\ \A k \in tx'[v].sameUsed :
                                tx'[v].copy.used[k] = db.used[k]
    BY <1>1 DEF TransactionInv
  <2>1. CASE v = w
    BY <1>1, <1>2, <1>3, <2>1 DEF MediaInv, TransactionInv
  <2>2. CASE v # w
    BY <1>3, <2>2 DEF MediaInv, TransactionInv
  <2> QED
    BY <2>1, <2>2
<1> QED
  BY <1>4, <1>6, <1>7, <1>8 DEF MediaInv

LEMMA Persisted ==
  ASSUME MediaInv, NEW w \in Workers, Persist(w)
  PROVE  /\ db' \in Tables /\ db'.outbox = Copy(w).outbox \union db.outbox
         /\ \A m \in Media : /\ db'.row[m] \in {db.row[m], Copy(w).row[m]}
                             /\ db'.row[m] = "none" => db.row[m] = "none"
         /\ ~tx[w].overtaken /\ Agrees(db) /\ Remembers(db)
              => Agrees(db') /\ Remembers(db')
<1> DEFINE c == Copy(w)
<1>1. /\ db \in Tables /\ c \in Tables /\ tx[w] # NoTx /\ tx[w] \in Transaction
      /\ tx[w].stage = "done"
  BY Versioned DEF MediaInv, Persist, Ended, Copy, Versions
<1>2. c = tx[w].copy
  BY DEF Copy
<1> HIDE DEF c
<1>3. PICK unseen \in SUBSET (db.refs \ c.refs), still \in {FALSE, db.revoked} :
        /\ ~tx[w].overtaken => unseen = {} /\ ~still
        /\ db' = [row |-> [m \in Media |-> IF m \in tx[w].same \/ c.row[m] = "none"
                                            THEN db.row[m] ELSE c.row[m]],
                  refs |-> c.refs \union unseen,
                  processed |-> c.processed \union db.processed,
                  revoked |-> c.revoked \/ still,
                  outbox |-> c.outbox \union db.outbox,
                  used |-> [stored |-> UsageWritten(w, "stored"), count |-> UsageWritten(w, "count"),
                            reserved |-> UsageWritten(w, "reserved")]]
  BY DEF Persist, c
<1>4. /\ c.row \in [Media -> MediaStatus \union {"none"}]
      /\ db.row \in [Media -> MediaStatus \union {"none"}]
      /\ c.used \in [stored : Int, count : Int, reserved : Nat]
      /\ db.used \in [stored : Int, count : Int, reserved : Nat]
      /\ db.revoked \in BOOLEAN /\ c.revoked \in BOOLEAN
      /\ db.refs \subseteq Messages /\ c.refs \subseteq Messages
  BY <1>1 DEF Tables
<1>5. /\ UsageWritten(w, "stored") \in {c.used.stored, db.used.stored}
      /\ UsageWritten(w, "count") \in {c.used.count, db.used.count}
      /\ UsageWritten(w, "reserved") \in {c.used.reserved, db.used.reserved}
  BY <1>2 DEF UsageWritten, Copy
<1>6. db' \in Tables
  <2>1. db'.used \in [stored : Int, count : Int, reserved : Nat]
    BY <1>3, <1>4, <1>5
  <2>2. db'.row \in [Media -> MediaStatus \union {"none"}]
    BY <1>3, <1>4
  <2>3. db'.refs \in SUBSET Messages /\ db'.revoked \in BOOLEAN
    BY <1>3, <1>4
  <2>4. /\ db'.processed \in SUBSET Event
        /\ db'.outbox \in SUBSET ({"ready", "failed", "deleted"} \X Media)
    BY <1>1, <1>3 DEF Tables
  <2> QED
    BY <1>3, <2>1, <2>2, <2>3, <2>4 DEF Tables
<1>7. \A m \in Media : /\ db'.row[m] \in {db.row[m], c.row[m]}
                       /\ db'.row[m] = "none" => db.row[m] = "none"
  BY <1>3, <1>4
<1>8. ASSUME ~tx[w].overtaken, Agrees(db), Remembers(db)
      PROVE  Agrees(db') /\ Remembers(db')
  <2>1. /\ Follows(db, c) /\ \A m \in tx[w].same : c.row[m] = db.row[m]
        /\ \A k \in tx[w].sameUsed : c.used[k] = db.used[k]
    BY <1>1, <1>2, <1>8 DEF MediaInv, TransactionInv
  <2>2. Agrees(c) /\ Remembers(c)
    BY <1>8, <2>1 DEF Follows
  <2>3. db'.row = c.row
    BY <1>3, <1>4, <2>1 DEF Follows
  <2>4. /\ UsageWritten(w, "stored") = c.used.stored /\ UsageWritten(w, "count") = c.used.count
        /\ UsageWritten(w, "reserved") = c.used.reserved
    BY <1>2, <2>1 DEF UsageWritten, Copy
  <2>5. /\ db'.used.stored = c.used.stored /\ db'.used.count = c.used.count
        /\ db'.used.reserved = c.used.reserved
    BY <1>3, <2>4
  <2>6. db'.refs = c.refs /\ db'.processed = c.processed
    BY <1>3, <1>8, <2>1 DEF Follows
  <2>7. Agrees(db')
    BY <2>2, <2>3, <2>5 DEF Agrees, Kept, Having
  <2>8. Remembers(db')
    BY <2>2, <2>6 DEF Remembers, Holds
  <2> QED
    BY <2>7, <2>8
<1> QED
  BY <1>3, <1>6, <1>7, <1>8 DEF c

LEMMA PersistKeeps ==
  ASSUME MediaInv, NEW w \in Workers, Persist(w)
  PROVE  MediaInv'
<1>1. /\ tx \in [Workers -> {NoTx} \union Transaction] /\ tx[w] # NoTx
      /\ Copy(w) \in Versions /\ db \in Versions
      /\ UNCHANGED <<objects, uploads, expired, swept, opened>>
  BY Versioned DEF MediaInv, MediaTypeOK, Persist, Ended, Copy
<1>2. tx' = [v \in Workers |->
               IF v = w \/ tx[v] = NoTx THEN NoTx
               ELSE [tx[v] EXCEPT !.overtaken = @ \/ db' # db]]
  BY DEF Persist
<1>3. ASSUME NEW v \in Workers, tx'[v] # NoTx
      PROVE  /\ tx[v] # NoTx /\ tx'[v] \in Transaction
             /\ tx'[v].stage = tx[v].stage /\ tx'[v].copy = tx[v].copy
             /\ tx'[v].same = tx[v].same /\ tx'[v].sameUsed = tx[v].sameUsed
             /\ ~tx'[v].overtaken => ~tx[v].overtaken /\ db' = db
  <2>1. tx[v] # NoTx /\ tx'[v] = [tx[v] EXCEPT !.overtaken = @ \/ db' # db]
    BY <1>2, <1>3
  <2>2. tx[v] \in Transaction
    BY <1>1, <2>1
  <2> QED
    BY <2>1, <2>2 DEF Transaction
<1>4. MediaTypeOK'
  <2>1. tx' \in [Workers -> {NoTx} \union Transaction]
    BY <1>2, <1>3
  <2> QED
    BY <1>1, <2>1, Persisted DEF MediaInv, MediaTypeOK
<1>5. PICK d : d = db'
  OBVIOUS
<1>6. Versions' \subseteq Versions \union {d}
  BY <1>3, <1>5 DEF Versions
<1>7. \A m \in Media : /\ d.row[m] \in {db.row[m], Copy(w).row[m]}
                       /\ d.row[m] = "none" => db.row[m] = "none"
  BY <1>5, Persisted
<1>8. d.outbox = Copy(w).outbox \union db.outbox
  BY <1>5, Persisted
<1>9. \A b : Fits(b) => Fits(b)'
  BY <1>1, <1>5, <1>7 DEF Fits, Silent
<1>10. Fits(d)
  BY <1>1, <1>7, <1>8 DEF MediaInv, VersionInv, Fits, Silent
<1>11. Consistent(d, d) /\ \A b \in Versions : Consistent(b, d) /\ Consistent(d, b)
  BY <1>1, <1>8 DEF MediaInv, VersionInv, Consistent
<1>12. VersionInv'
  BY <1>6, <1>9, <1>10, <1>11, VersionAdded DEF MediaInv, VersionInv
<1>13. StoreInv'
  BY <1>1, <1>5, <1>7 DEF MediaInv, StoreInv
<1>14. TransactionInv'
  <2> SUFFICES ASSUME NEW v \in Workers, tx'[v] # NoTx
               PROVE  /\ tx'[v].stage # "done" =>
                           /\ \A m \in Media :
                                db'.row[m] = "none" => tx'[v].copy.row[m] = "none"
                           /\ tx'[v].same = {} /\ tx'[v].sameUsed = {}
                           /\ ~tx'[v].overtaken => tx'[v].copy = db'
                      /\ tx'[v].stage = "done" /\ ~tx'[v].overtaken =>
                           /\ Follows(db', tx'[v].copy)
                           /\ \A m \in tx'[v].same : tx'[v].copy.row[m] = db'.row[m]
                           /\ \A k \in tx'[v].sameUsed :
                                tx'[v].copy.used[k] = db'.used[k]
    BY DEF TransactionInv
  <2>1. CASE tx'[v].overtaken
    BY <1>3, <1>5, <1>7, <2>1 DEF MediaInv, TransactionInv
  <2>2. CASE ~tx'[v].overtaken
    BY <1>3, <2>2 DEF MediaInv, TransactionInv
  <2> QED
    BY <2>1, <2>2
<1> QED
  BY <1>4, <1>12, <1>13, <1>14 DEF MediaInv

-----------------------------------------------------------------------------
(* The methods.                                                            *)

LEMMA InitiateKeeps ==
  ASSUME MediaInv, NEW w \in Workers, NEW m \in Media, Initiate(w, m)
  PROVE  MediaInv'
<1> PICK c : c = [Copy(w) EXCEPT !.row[m] = "PENDING"]
  OBVIOUS
<1>1. /\ Open(w) /\ Return(w, c) /\ Strategy[m] = "SIMPLE" /\ Copy(w).row[m] = "none"
      /\ UNCHANGED <<db, objects, uploads, expired, swept, opened>>
  BY DEF Initiate, Open
<1>2. /\ Copy(w) \in Tables /\ Copy(w) \in Versions /\ Fits(Copy(w))
      /\ \A d \in Versions : Consistent(Copy(w), d) /\ Consistent(d, Copy(w))
  BY <1>1, Opened
<1>3. Follows(Copy(w), c) /\ \A k \in Media \ {m} : c.row[k] = Copy(w).row[k]
  BY <1>1, <1>2, Initiated
<1>4. c.row[m] = "PENDING" /\ c.outbox = Copy(w).outbox
  BY <1>2 DEF Tables
<1>5. Fits(c)
  BY <1>1, <1>2, <1>3, <1>4 DEF MediaInv, StoreInv, Fits, Silent
<1>6. Consistent(c, c) /\ \A d \in Versions : Consistent(c, d) /\ Consistent(d, c)
  BY <1>2, <1>4 DEF Consistent
<1> QED
  BY <1>1, <1>3, <1>5, <1>6, ReturnedQuietly

LEMMA InitiateMultipartKeeps ==
  ASSUME MediaInv, NEW w \in Workers, NEW m \in Media, InitiateMultipart(w, m)
  PROVE  MediaInv'
<1> PICK c : c = Reserving(Copy(w), m)
  OBVIOUS
<1>1. /\ Open(w) /\ Return(w, c) /\ UNCHANGED <<db, objects, expired, swept, opened>>
      /\ uploads' = [uploads EXCEPT ![m] = [n \in Parts |-> "none"]]
      /\ Strategy[m] = "MULTIPART" /\ db.row[m] = "none"
  BY DEF InitiateMultipart, CreateUpload
<1>2. /\ Copy(w) \in Tables /\ Copy(w) \in Versions /\ Fits(Copy(w))
      /\ \A d \in Versions : Consistent(Copy(w), d) /\ Consistent(d, Copy(w))
      /\ Copy(w).row[m] = "none"
  BY <1>1, Opened
<1>3. /\ Follows(Copy(w), c) /\ c.row[m] = "UPLOADING"
      /\ \A k \in Media \ {m} : c.row[k] = Copy(w).row[k]
  BY <1>2, MultipartInitiated
<1>4. c.outbox = Copy(w).outbox
  BY <1>2 DEF Tables, Reserving
<1>5. MediaTypeOK /\ StoreInv /\ VersionInv
  BY DEF MediaInv
<1>6. uploads' \in [Media -> {NoUpload} \union [Parts -> Content]]
  <2>1. [n \in Parts |-> "none"] \in [Parts -> Content]
    BY DEF Content
  <2> QED
    BY <1>1, <1>5, <2>1 DEF MediaTypeOK
<1>7. \A k \in Media \ {m} : uploads'[k] = uploads[k]
  BY <1>1, <1>5 DEF MediaTypeOK
<1>8. StoreInv'
  BY <1>1, <1>5, <1>7 DEF StoreInv
<1>9. \A d : Fits(d) => Fits(d)'
  BY <1>1, <1>7 DEF Fits, Silent
<1>10. Fits(c)
  BY <1>1, <1>2, <1>3, <1>4 DEF Fits, Silent
<1>11. Consistent(c, c) /\ \A d \in Versions : Consistent(c, d) /\ Consistent(d, c)
  BY <1>2, <1>4 DEF Consistent
<1>12. Fits(c)' /\ \A d \in Versions : Fits(d)'
  BY <1>5, <1>9, <1>10 DEF VersionInv
<1> QED
  BY <1>1, <1>3, <1>5, <1>6, <1>8, <1>11, <1>12, Returned DEF MediaTypeOK

\* What _mark_ready makes of a copy.
LEMMA MarkedReady ==
  ASSUME NEW b \in Tables, NEW m \in Media, NEW c, c = MarkReady(b, m)
  PROVE  /\ c.row[m] = "READY" /\ \A k \in Media \ {m} : c.row[k] = b.row[k]
         /\ c.outbox = b.outbox \union {<<"ready", m>>}
  BY DEF MarkReady, Told, Tables

LEMMA CompleteKeeps ==
  ASSUME MediaInv, NEW w \in Workers, NEW m \in Media, Complete(w, m)
  PROVE  MediaInv'
<1> PICK c : c = MarkReady(Copy(w), m)
  OBVIOUS
<1>1. /\ Open(w) /\ Return(w, c) /\ objects[m] = "declared"
      /\ Copy(w).row[m] \in {"PENDING", "UPLOADING", "UPLOADED"}
      /\ UNCHANGED <<db, objects, uploads, expired, swept, opened>>
  BY DEF Complete, Verified
<1>2. /\ Copy(w) \in Tables /\ Copy(w) \in Versions /\ Fits(Copy(w))
      /\ \A d \in Versions : Consistent(Copy(w), d) /\ Consistent(d, Copy(w))
  BY <1>1, Opened
<1>3. Follows(Copy(w), c)
  BY <1>1, <1>2, Marked
<1>4. /\ c.row[m] = "READY" /\ \A k \in Media \ {m} : c.row[k] = Copy(w).row[k]
      /\ c.outbox = Copy(w).outbox \union {<<"ready", m>>}
  BY <1>2, MarkedReady
<1>5. uploads[m] = NoUpload /\ (Strategy[m] = "MULTIPART" => db.row[m] # "none")
  BY <1>1 DEF MediaInv, StoreInv
<1>6. Fits(c)
  BY <1>1, <1>2, <1>4, <1>5 DEF Fits, Silent
<1>7. \A d \in Versions \union {c} : <<"failed", m>> \notin d.outbox
  BY <1>1, <1>2, <1>4 DEF MediaInv, VersionInv, Fits
<1>8. Consistent(c, c) /\ \A d \in Versions : Consistent(c, d) /\ Consistent(d, c)
  BY <1>2, <1>4, <1>7 DEF Consistent
<1> QED
  BY <1>1, <1>3, <1>6, <1>8, ReturnedQuietly

LEMMA CompleteMultipartKeeps ==
  ASSUME MediaInv, NEW w \in Workers, NEW m \in Media, CompleteMultipart(w, m)
  PROVE  MediaInv'
<1> PICK c : c = MarkReady(Copy(w), m)
  OBVIOUS
<1>1. /\ Open(w) /\ Copy(w).row[m] = "UPLOADING"
      /\ Strategy[m] = "MULTIPART" /\ uploads[m] # NoUpload
      /\ uploads' = [k \in Media |-> IF k \in {m} THEN NoUpload ELSE uploads[k]]
      /\ UNCHANGED <<db, expired, swept, opened>>
  BY DEF CompleteMultipart, CompleteUpload, AbortUploads
<1>2. PICK content \in {"declared", "other"} : objects' = [objects EXCEPT ![m] = content]
  BY DEF CompleteMultipart, CompleteUpload
<1>3. /\ Copy(w) \in Tables /\ Copy(w) \in Versions /\ Fits(Copy(w))
      /\ \A d \in Versions : Consistent(Copy(w), d) /\ Consistent(d, Copy(w))
      /\ db.row[m] # "none"
  BY <1>1, Opened
<1>4. MediaTypeOK /\ StoreInv /\ VersionInv
  BY DEF MediaInv
<1>5. /\ objects' \in [Media -> Content] /\ objects'[m] = content
      /\ \A k \in Media \ {m} : objects'[k] = objects[k]
  BY <1>2, <1>4 DEF MediaTypeOK, Content
<1>6. /\ uploads' \in [Media -> {NoUpload} \union [Parts -> Content]]
      /\ uploads'[m] = NoUpload /\ \A k \in Media \ {m} : uploads'[k] = uploads[k]
  BY <1>1, <1>4 DEF MediaTypeOK
<1>7. StoreInv'
  BY <1>1, <1>3, <1>4, <1>5, <1>6 DEF StoreInv
<1>8. \A d \in Versions : Silent(d, m) /\ Fits(d)
  BY <1>1, <1>4 DEF VersionInv, Fits
<1>9. \A d \in Versions : Fits(d)'
  BY <1>1, <1>3, <1>5, <1>6, <1>8 DEF Fits, Silent
<1>10. CASE objects'[m] = "declared"
  <2>1. Return(w, c)
    BY <1>10 DEF CompleteMultipart, Verified
  <2>2. Follows(Copy(w), c)
    BY <1>1, <1>3, Marked
  <2>3. /\ c.row[m] = "READY" /\ \A k \in Media \ {m} : c.row[k] = Copy(w).row[k]
        /\ c.outbox = Copy(w).outbox \union {<<"ready", m>>}
    BY <1>3, MarkedReady
  <2>4. Fits(c)'
    BY <1>1, <1>3, <1>5, <1>6, <1>8, <1>10, <2>3 DEF Fits, Silent
  <2>5. \A d \in Versions \union {c} : <<"failed", m>> \notin d.outbox
    BY <1>3, <1>8, <2>3 DEF Silent
  <2>6. Consistent(c, c) /\ \A d \in Versions : Consistent(c, d) /\ Consistent(d, c)
    BY <1>3, <2>3, <2>5 DEF Consistent
  <2> QED
    BY <1>1, <1>4, <1>5, <1>6, <1>7, <1>9, <2>1, <2>2, <2>4, <2>6, Returned
       DEF MediaTypeOK
<1>11. CASE objects'[m] # "declared"
  <2>1. tx' = [tx EXCEPT ![w] = NoTx]
    BY <1>11 DEF CompleteMultipart, Verified
  <2> QED
    BY <1>1, <1>5, <1>6, <1>7, <1>9, <2>1, RollbackKeeps
<1> QED
  BY <1>10, <1>11

LEMMA AbortMultipartKeeps ==
  ASSUME MediaInv, NEW w \in Workers, NEW m \in Media, AbortMultipart(w, m)
  PROVE  MediaInv'
<1> PICK c : c = Aborted(Copy(w), m)
  OBVIOUS
<1>1. /\ Open(w) /\ Return(w, c) /\ UNCHANGED <<db, objects, expired, swept, opened>>
      /\ Strategy[m] = "MULTIPART" /\ uploads[m] # NoUpload
      /\ Copy(w).row[m] # "none"
      /\ uploads' = [k \in Media |-> IF k \in {m} THEN NoUpload ELSE uploads[k]]
  BY DEF AbortMultipart, Abortable, AbortUploads
<1>2. /\ Copy(w) \in Tables /\ Copy(w) \in Versions /\ Fits(Copy(w))
      /\ \A d \in Versions : Consistent(Copy(w), d) /\ Consistent(d, Copy(w))
      /\ db.row[m] # "none"
  BY <1>1, Opened
<1>3. Copy(w).row[m] = "UPLOADING"
  BY <1>1, <1>2 DEF Fits
<1>4. Follows(Copy(w), c) /\ \A k \in Media \ {m} : c.row[k] = Copy(w).row[k]
  BY <1>2, <1>3, AbortFollows
<1>5. c.row[m] = "FAILED" /\ c.outbox = Copy(w).outbox \union {<<"failed", m>>}
  BY <1>2 DEF Aborted, Told, Tables
<1>6. MediaTypeOK /\ StoreInv /\ VersionInv
  BY DEF MediaInv
<1>7. /\ uploads' \in [Media -> {NoUpload} \union [Parts -> Content]]
      /\ uploads'[m] = NoUpload /\ \A k \in Media \ {m} : uploads'[k] = uploads[k]
  BY <1>1, <1>6 DEF MediaTypeOK
<1>8. StoreInv' /\ objects[m] = "none"
  BY <1>1, <1>6, <1>7 DEF StoreInv
<1>9. \A d \in Versions : Silent(d, m) /\ Fits(d)
  BY <1>1, <1>6 DEF VersionInv, Fits
<1>10. \A d \in Versions : Fits(d)'
  BY <1>1, <1>2, <1>7, <1>9 DEF Fits, Silent
<1>11. Fits(c)'
  BY <1>1, <1>2, <1>4, <1>5, <1>7, <1>8, <1>9 DEF Fits, Silent
<1>12. \A d \in Versions \union {c} : <<"ready", m>> \notin d.outbox
  BY <1>2, <1>5, <1>9 DEF Silent
<1>13. Consistent(c, c) /\ \A d \in Versions : Consistent(c, d) /\ Consistent(d, c)
  BY <1>2, <1>5, <1>12 DEF Consistent
<1> QED
  BY <1>1, <1>4, <1>6, <1>7, <1>8, <1>10, <1>11, <1>13, Returned DEF MediaTypeOK

LEMMA DeleteKeeps ==
  ASSUME MediaInv, NEW w \in Workers, NEW m \in Media, Delete(w, m)
  PROVE  MediaInv'
<1> PICK c : c = Gone(Copy(w), m, Copy(w).used.stored - Size[m], Copy(w).used.count - 1)
  OBVIOUS
<1>1. /\ Open(w) /\ Return(w, c) /\ UNCHANGED <<db, uploads, expired, swept, opened>>
      /\ Copy(w).row[m] = "READY"
      /\ objects' = [k \in Media |-> IF k \in {m} THEN "none" ELSE objects[k]]
  BY DEF Delete, DeleteObjects
<1>2. /\ Copy(w) \in Tables /\ Copy(w) \in Versions /\ Fits(Copy(w))
      /\ \A d \in Versions : Consistent(Copy(w), d) /\ Consistent(d, Copy(w))
      /\ db.row[m] # "none"
  BY <1>1, Opened
<1>3. uploads[m] = NoUpload
  BY <1>1, <1>2 DEF Fits
<1>4. Follows(Copy(w), c) /\ \A k \in Media \ {m} : c.row[k] = Copy(w).row[k]
  BY <1>1, <1>2, DeleteFollows
<1>5. c.row[m] = "DELETED" /\ c.outbox = Copy(w).outbox \union {<<"deleted", m>>}
  BY <1>2 DEF Gone, Told, Tables
<1>6. MediaTypeOK /\ StoreInv /\ VersionInv
  BY DEF MediaInv
<1>7. /\ objects' \in [Media -> Content]
      /\ objects'[m] = "none" /\ \A k \in Media \ {m} : objects'[k] = objects[k]
  BY <1>1, <1>6 DEF MediaTypeOK, Content
<1>8. StoreInv'
  BY <1>1, <1>6, <1>7 DEF StoreInv
<1>9. \A d : Fits(d) => Fits(d)'
  BY <1>1, <1>7 DEF Fits, Silent
<1>10. Fits(c)'
  BY <1>1, <1>2, <1>3, <1>4, <1>5, <1>7 DEF Fits, Silent
<1>11. Consistent(c, c) /\ \A d \in Versions : Consistent(c, d) /\ Consistent(d, c)
  BY <1>2, <1>5 DEF Consistent
<1>12. \A d \in Versions : Fits(d)'
  BY <1>6, <1>9 DEF VersionInv
<1> QED
  BY <1>1, <1>4, <1>6, <1>7, <1>8, <1>10, <1>11, <1>12, Returned DEF MediaTypeOK

LEMMA ConsumeKeeps ==
  ASSUME MediaInv, NEW w \in Workers, NEW e \in Event, Consume(w, e)
  PROVE  MediaInv'
<1>1. Open(w) /\ UNCHANGED <<db, objects, uploads, expired, swept, opened>>
  BY DEF Consume
<1>2. /\ Copy(w) \in Tables /\ Copy(w) \in Versions /\ Fits(Copy(w))
      /\ \A d \in Versions : Consistent(Copy(w), d) /\ Consistent(d, Copy(w))
  BY <1>1, Opened
<1>3. CASE e \in Copy(w).processed
  <2>1. Return(w, Copy(w))
    BY <1>3 DEF Consume
  <2> QED
    BY <1>1, <2>1, Unread
<1>4. CASE e \notin Copy(w).processed
  <2> PICK c : c = Applied(Copy(w), e)
    OBVIOUS
  <2>1. Return(w, c)
    BY <1>4 DEF Consume
  <2>2. Follows(Copy(w), c) /\ c.row = Copy(w).row
    BY <1>2, <1>4, EventFollows
  <2>3. c.outbox = Copy(w).outbox
    BY <1>2 DEF Applied, Tables
  <2>4. Fits(c)
    BY <1>2, <2>2, <2>3 DEF Fits, Silent
  <2>5. Consistent(c, c) /\ \A d \in Versions : Consistent(c, d) /\ Consistent(d, c)
    BY <1>2, <2>3 DEF Consistent
  <2> QED
    BY <1>1, <2>1, <2>2, <2>4, <2>5, ReturnedQuietly
<1> QED
  BY <1>3, <1>4

LEMMA CleanupKeeps ==
  ASSUME MediaInv, NEW w \in Workers, RunCleanup(w)
  PROVE  MediaInv'
<1>1. Open(w) /\ UNCHANGED <<db, expired, opened>>
  BY DEF RunCleanup
<1>2. /\ Copy(w) \in Tables /\ Copy(w) \in Versions /\ Fits(Copy(w))
      /\ \A d \in Versions : Consistent(Copy(w), d) /\ Consistent(d, Copy(w))
      /\ \A m \in Media : db.row[m] = "none" => Copy(w).row[m] = "none"
  BY <1>1, Opened
<1>3. PICK O \in SUBSET Orphans(Copy(w)), R \in SUBSET Retired(Copy(w)) :
        \E F \in SUBSET R :
          /\ AbortUploads(O)
          /\ DeleteObjects((R \ F) \union {m \in O : Strategy[m] = "SIMPLE"})
          /\ swept' = swept \union (R \ F)
          /\ Return(w, Purge(CleanOrphans(Copy(w), O), R, F))
  BY DEF RunCleanup
<1>4. PICK F \in SUBSET R :
        /\ AbortUploads(O)
        /\ DeleteObjects((R \ F) \union {m \in O : Strategy[m] = "SIMPLE"})
        /\ swept' = swept \union (R \ F)
        /\ Return(w, Purge(CleanOrphans(Copy(w), O), R, F))
  BY <1>3
<1>5. MediaTypeOK /\ StoreInv /\ VersionInv /\ expired \subseteq Media
  BY DEF MediaInv, MediaTypeOK
<1>6. /\ O \in SUBSET Media /\ O \subseteq expired
      /\ \A m \in O :
           \/ /\ Copy(w).row[m] = "UPLOADING" /\ Strategy[m] = "MULTIPART"
              /\ uploads[m] # NoUpload
           \/ Copy(w).row[m] = "PENDING" /\ Strategy[m] = "SIMPLE"
  BY <1>2, <1>5 DEF Orphans, Abortable, Fits
<1>7. /\ R \in SUBSET Media /\ R \subseteq expired /\ R \cap O = {}
      /\ \A m \in R : Copy(w).row[m] = "READY" /\ uploads[m] = NoUpload
  BY <1>2, <1>5, <1>6 DEF Retired, Fits
<1> PICK b : b = CleanOrphans(Copy(w), O)
  OBVIOUS
<1> PICK c : c = Purge(b, R, F)
  OBVIOUS
<1>8. /\ Follows(Copy(w), b) /\ \A k \in Media \ O : b.row[k] = Copy(w).row[k]
      /\ \A k \in O : b.row[k] = "FAILED"
  BY <1>2, <1>6, CleaningFollows
<1>9. b \in Tables /\ \A m \in R : b.row[m] = "READY"
  BY <1>6, <1>7, <1>8 DEF Follows
<1>10. /\ Follows(b, c) /\ \A k \in Media \ R : c.row[k] = b.row[k]
       /\ \A k \in R : c.row[k] \in {"DELETED", "DELETING"}
  <2>1. F \subseteq R /\ R \subseteq Media /\ c = Purge(b, R, F)
    BY <1>4, <1>7
  <2> QED
    BY <1>9, <2>1, PurgeFollows
<1>11. Follows(Copy(w), c)
  BY <1>8, <1>10 DEF Follows
<1>12. c.outbox = Copy(w).outbox \union ({"failed"} \X O) \union ({"deleted"} \X (R \ F))
  <2>1. b.outbox = Copy(w).outbox \union ({"failed"} \X O)
    BY <1>2 DEF CleanOrphans, Tables
  <2>2. c.outbox = b.outbox \union ({"deleted"} \X (R \ F))
    BY <1>9 DEF Purge, Tables
  <2> QED
    BY <2>1, <2>2
<1>13. \A k \in Media : /\ <<"ready", k>> \in c.outbox => <<"ready", k>> \in Copy(w).outbox
                        /\ <<"failed", k>> \in c.outbox
                             => <<"failed", k>> \in Copy(w).outbox \/ k \in O
                        /\ <<"deleted", k>> \in c.outbox
                             => <<"deleted", k>> \in Copy(w).outbox \/ k \in R \ F
  BY <1>12
<1>14. /\ objects' \in [Media -> Content]
       /\ \A k \in Media : objects'[k] \in {objects[k], "none"}
       /\ \A k \in R \ F : objects'[k] = "none"
       /\ \A k \in O : Strategy[k] = "SIMPLE" => objects'[k] = "none"
  BY <1>4, <1>5, <1>6, <1>7 DEF DeleteObjects, MediaTypeOK, Content
<1>15. /\ uploads' \in [Media -> {NoUpload} \union [Parts -> Content]]
       /\ \A k \in O : uploads'[k] = NoUpload
       /\ \A k \in Media \ O : uploads'[k] = uploads[k]
  BY <1>4, <1>5, <1>6 DEF AbortUploads, MediaTypeOK
<1>16. swept' \subseteq Media /\ swept' = swept \union (R \ F)
  BY <1>4, <1>5, <1>7 DEF MediaTypeOK
<1>17. StoreInv'
  BY <1>1, <1>5, <1>7, <1>14, <1>15, <1>16 DEF StoreInv
<1>18. \A k \in O : Strategy[k] = "MULTIPART" => objects[k] = "none" /\ objects'[k] = "none"
  BY <1>5, <1>6, <1>14 DEF StoreInv
<1>19. \A d \in Versions : Fits(d)'
  <2> SUFFICES ASSUME NEW d \in Versions PROVE Fits(d)'
    OBVIOUS
  <2>1. Fits(d)
    BY <1>5 DEF VersionInv
  <2>2. \A k \in Media : uploads'[k] # NoUpload => uploads[k] # NoUpload
    BY <1>15
  <2>3. \A k \in Media : objects[k] # "other" => objects'[k] # "other"
    BY <1>14
  <2>4. \A k \in Media : objects[k] = "none" => objects'[k] = "none"
    BY <1>14
  <2> QED
    BY <1>1, <2>1, <2>2, <2>3, <2>4 DEF Fits, Silent
<1>20. Fits(c)'
  <2> SUFFICES ASSUME NEW m \in Media
               PROVE  /\ c.row[m] = "PENDING" => Strategy[m] = "SIMPLE"
                      /\ uploads'[m] # NoUpload
                         \/ (Strategy[m] = "MULTIPART" /\ db.row[m] = "none")
                           => c.row[m] \in {"none", "UPLOADING"} /\ Silent(c, m)
                      /\ <<"failed", m>> \in c.outbox
                           => /\ objects'[m] = "none"
                              /\ Strategy[m] = "SIMPLE" => m \in expired
                      /\ Strategy[m] = "MULTIPART" /\ <<"deleted", m>> \in c.outbox
                           => objects'[m] = "none"
                      /\ Strategy[m] = "MULTIPART" /\ <<"ready", m>> \in c.outbox
                           => objects'[m] # "other"
    BY <1>1 DEF Fits, Silent
  <2>1. CASE m \in O
    <3>1. /\ c.row[m] = "FAILED" /\ uploads'[m] = NoUpload /\ db.row[m] # "none"
          /\ objects'[m] = "none" /\ m \in expired
      BY <1>2, <1>6, <1>7, <1>8, <1>10, <1>14, <1>15, <1>18, <2>1
    <3> QED
      BY <3>1
  <2>2. CASE m \in R
    <3>1. /\ c.row[m] \in {"DELETED", "DELETING"} /\ uploads'[m] = NoUpload
          /\ db.row[m] # "none" /\ m \notin O
      BY <1>2, <1>7, <1>10, <1>15, <2>2
    <3>2. m \in R \ F => objects'[m] = "none"
      BY <1>14
    <3> QED
      BY <1>2, <1>13, <1>14, <3>1, <3>2 DEF Fits
  <2>3. CASE m \notin O \union R
    <3>1. c.row[m] = Copy(w).row[m] /\ uploads'[m] = uploads[m]
      BY <1>8, <1>10, <1>15, <2>3
    <3>2. /\ <<"ready", m>> \in c.outbox => <<"ready", m>> \in Copy(w).outbox
          /\ <<"failed", m>> \in c.outbox => <<"failed", m>> \in Copy(w).outbox
          /\ <<"deleted", m>> \in c.outbox => <<"deleted", m>> \in Copy(w).outbox
      BY <1>13, <2>3
    <3> QED
      BY <1>2, <1>14, <3>1, <3>2 DEF Fits, Silent
  <2> QED
    BY <2>1, <2>2, <2>3
<1>21. \A d \in Versions, k \in O : Strategy[k] = "MULTIPART" => Silent(d, k)
  BY <1>5, <1>6 DEF VersionInv, Fits
<1>22. Consistent(c, c) /\ \A d \in Versions : Consistent(c, d) /\ Consistent(d, c)
  BY <1>2, <1>6, <1>13, <1>21 DEF Consistent, Silent
<1> QED
  BY <1>1, <1>4, <1>11, <1>14, <1>15, <1>16, <1>17, <1>19, <1>20, <1>22, Returned

\* The workers and the tables as they were.
LEMMA Outside ==
  ASSUME MediaInv, UNCHANGED <<db, tx, swept, opened>>,
         objects' \in [Media -> Content],
         uploads' \in [Media -> {NoUpload} \union [Parts -> Content]],
         expired' \subseteq Media, StoreInv', \A d : Fits(d) => Fits(d)'
  PROVE  MediaInv'
<1>1. MediaTypeOK'
  BY DEF MediaInv, MediaTypeOK
<1>2. Versions' \subseteq Versions
  BY DEF Versions
<1>3. VersionInv'
  BY <1>2, VersionsKept DEF MediaInv, VersionInv
<1>4. TransactionInv'
  BY DEF MediaInv, TransactionInv
<1> QED
  BY <1>1, <1>3, <1>4 DEF MediaInv

LEMMA PutKeeps ==
  ASSUME MediaInv, NEW m \in Media, Put(m)
  PROVE  MediaInv'
<1>1. MediaTypeOK /\ StoreInv
  BY DEF MediaInv
<1>2. /\ Strategy[m] = "SIMPLE" /\ m \notin expired
      /\ UNCHANGED <<db, tx, uploads, expired, swept, opened>>
  BY DEF Put
<1>3. PICK content \in {"declared", "other"} : objects' = [objects EXCEPT ![m] = content]
  BY DEF Put
<1>4. /\ objects' \in [Media -> Content]
      /\ \A k \in Media \ {m} : objects'[k] = objects[k]
  BY <1>1, <1>3 DEF MediaTypeOK, Content
<1>5. StoreInv'
  BY <1>1, <1>2, <1>4 DEF StoreInv
<1>6. \A d : Fits(d) => Fits(d)'
  BY <1>2, <1>4 DEF Fits, Silent
<1> QED
  BY <1>1, <1>2, <1>4, <1>5, <1>6, Outside DEF MediaTypeOK

LEMMA PutPartKeeps ==
  ASSUME MediaInv, NEW m \in Media, NEW n \in Parts, PutPart(m, n)
  PROVE  MediaInv'
<1>1. MediaTypeOK /\ StoreInv
  BY DEF MediaInv
<1>2. uploads[m] # NoUpload /\ UNCHANGED <<db, tx, objects, expired, swept, opened>>
  BY DEF PutPart
<1>3. PICK content \in {"declared", "other"} : uploads' = [uploads EXCEPT ![m][n] = content]
  BY DEF PutPart
<1>4. uploads[m] \in [Parts -> Content]
  BY <1>1, <1>2 DEF MediaTypeOK
<1>5. [uploads[m] EXCEPT ![n] = content] \in [Parts -> Content]
  BY <1>4 DEF Content
<1>6. uploads' = [uploads EXCEPT ![m] = [uploads[m] EXCEPT ![n] = content]]
  BY <1>3
<1>7. /\ uploads' \in [Media -> {NoUpload} \union [Parts -> Content]]
      /\ \A k \in Media : uploads'[k] # NoUpload <=> uploads[k] # NoUpload
  BY <1>1, <1>2, <1>5, <1>6, MediaAssumption DEF MediaTypeOK
<1>8. StoreInv'
  BY <1>1, <1>2, <1>7 DEF StoreInv
<1>9. \A d : Fits(d) => Fits(d)'
  BY <1>2, <1>7 DEF Fits, Silent
<1> QED
  BY <1>1, <1>2, <1>7, <1>8, <1>9, Outside DEF MediaTypeOK

LEMMA ExpireKeeps ==
  ASSUME MediaInv, NEW m \in Media, Expire(m)
  PROVE  MediaInv'
<1>1. MediaTypeOK /\ StoreInv
  BY DEF MediaInv
<1>2. /\ UNCHANGED <<db, tx, objects, uploads, swept, opened>>
      /\ db.row[m] # "none" /\ expired' = expired \union {m}
  BY DEF Expire
<1>3. StoreInv'
  BY <1>1, <1>2 DEF StoreInv
<1>4. \A d : Fits(d) => Fits(d)'
  BY <1>2 DEF Fits, Silent
<1> QED
  BY <1>1, <1>2, <1>3, <1>4, Outside DEF MediaTypeOK

LEMMA MediaInitially ==
  ASSUME MediaInit
  PROVE  MediaInv
<1>1. /\ db \in Tables /\ db.outbox = {}
      /\ \A m \in Media : db.row[m] = "none"
  BY DEF MediaInit, Tables
<1>2. MediaTypeOK
  BY <1>1 DEF MediaInit, MediaTypeOK, Content
<1>3. Versions = {db}
  BY DEF MediaInit, Versions
<1>4. VersionInv
  BY <1>1, <1>3 DEF VersionInv, Fits, Silent, Consistent
<1>5. StoreInv /\ TransactionInv
  BY <1>1 DEF MediaInit, StoreInv, TransactionInv
<1> QED
  BY <1>2, <1>4, <1>5 DEF MediaInv

LEMMA MediaStep ==
  ASSUME MediaInv, [MediaNext]_mediaVars
  PROVE  MediaInv'
<1>1. CASE UNCHANGED mediaVars
  <2>1. StoreInv' /\ \A d : Fits(d) => Fits(d)'
    BY <1>1 DEF mediaVars, MediaInv, StoreInv, Fits, Silent
  <2> QED
    BY <1>1, <2>1, Outside DEF mediaVars, MediaInv, MediaTypeOK
<1>2. ASSUME NEW w \in Workers,
             Hydrate(w) \/ HydrateRest(w) \/ MergeUsage(w) \/ Persist(w) \/ RunCleanup(w)
      PROVE  MediaInv'
  BY <1>2, HydrateKeeps, HydrateRestKeeps, MergeKeeps, PersistKeeps, CleanupKeeps
<1>3. ASSUME NEW w \in Workers, Rollback(w)
      PROVE  MediaInv'
  <2>1. tx' = [tx EXCEPT ![w] = NoTx]
        /\ UNCHANGED <<db, objects, uploads, expired, swept, opened>>
    BY <1>3 DEF Rollback
  <2>2. StoreInv' /\ \A d \in Versions : Fits(d)'
    BY <2>1, StillFits DEF MediaInv, StoreInv, VersionInv
  <2> QED
    BY <2>1, <2>2, RollbackKeeps DEF MediaInv, MediaTypeOK
<1>4. ASSUME NEW w \in Workers, NEW m \in Media,
             Initiate(w, m) \/ InitiateMultipart(w, m) \/ Complete(w, m)
             \/ CompleteMultipart(w, m) \/ AbortMultipart(w, m) \/ Delete(w, m)
      PROVE  MediaInv'
  BY <1>4, InitiateKeeps, InitiateMultipartKeeps, CompleteKeeps, CompleteMultipartKeeps,
     AbortMultipartKeeps, DeleteKeeps
<1>5. ASSUME NEW w \in Workers, NEW m \in Media,
             PartUrls(w, m) \/ MultipartStatus(w, m) \/ Download(w, m)
      PROVE  MediaInv'
  BY <1>5, Unread DEF PartUrls, MultipartStatus, Download
<1>6. ASSUME NEW w \in Workers, NEW m \in Media, MergeMedia(w, m)
      PROVE  MediaInv'
  BY <1>6, MergeKeeps
<1>7. ASSUME NEW w \in Workers, NEW e \in Event, Consume(w, e)
      PROVE  MediaInv'
  BY <1>7, ConsumeKeeps
<1>8. ASSUME NEW m \in Media, Put(m) \/ Expire(m) \/ \E n \in Parts : PutPart(m, n)
      PROVE  MediaInv'
  BY <1>8, PutKeeps, ExpireKeeps, PutPartKeeps
<1> QED
  BY <1>1, <1>2, <1>3, <1>4, <1>5, <1>6, <1>7, <1>8 DEF MediaNext

-----------------------------------------------------------------------------
(* What follows.                                                           *)

\* The inductive invariant of media-service, however many of its operations overlap: what
\* each version of the tables says of an upload against what the store has, and what a
\* transaction that no other has overtaken may write back.
THEOREM MediaInvariant == MediaSpec => []MediaInv
<1>1. MediaInv /\ [MediaNext]_mediaVars => MediaInv'
  BY MediaStep
<1> QED
  BY <1>1, MediaInitially, PTL DEF MediaSpec

\* Type correctness of the tables, their copies and the store.
THEOREM MediaTypeCorrect == MediaSpec => []MediaTypeOK
<1>1. MediaInv => MediaTypeOK
  BY DEF MediaInv
<1> QED
  BY <1>1, MediaInvariant, PTL

\* What the others are told of an upload holds in the store, for any media, any parts and
\* any number of requests, consumers and cleanup runs that overlap.
THEOREM OutcomesAlwaysHold == MediaSpec => []OutcomesHold
<1>1. ASSUME MediaInv PROVE OutcomesHold
  <2> SUFFICES ASSUME NEW m \in Media
               PROVE  /\ Strategy[m] = "MULTIPART" /\ <<"ready", m>> \in db.outbox =>
                            <<"failed", m>> \notin db.outbox /\ objects[m] # "other"
                      /\ <<"failed", m>> \in db.outbox \/ m \in swept => Empty(m)
                      /\ Strategy[m] = "MULTIPART" /\ <<"deleted", m>> \in db.outbox
                           => Empty(m)
    BY DEF OutcomesHold
  <2>1. Fits(db) /\ Consistent(db, db)
    BY <1>1 DEF MediaInv, VersionInv, Versions
  <2>2. <<"failed", m>> \in db.outbox \/ <<"deleted", m>> \in db.outbox
          => uploads[m] = NoUpload
    BY <2>1 DEF Fits, Silent
  <2> QED
    BY <1>1, <2>1, <2>2 DEF MediaInv, StoreInv, Fits, Consistent, Empty
<1> QED
  BY <1>1, MediaInvariant, PTL

\* The usage and the references go wrong, and the cleanup takes an object that a message
\* holds, only where a transaction goes on after another one has changed the tables.
THEOREM OverlapsOnlyHarm == MediaSpec => OnlyOverlapsHarm
<1>1. MediaInv /\ [MediaNext]_mediaVars =>
        [/\ Agrees(db) /\ Remembers(db)
         /\ ~(Agrees(db)' /\ Remembers(db)') \/ \E m \in swept' \ swept : InUse(m)
         => \E w \in Workers : tx[w] # NoTx /\ tx[w].overtaken /\ tx'[w] # tx[w]]_mediaVars
  <2> SUFFICES ASSUME MediaInv, MediaNext, Agrees(db), Remembers(db),
                      ~(Agrees(db)' /\ Remembers(db)')
                      \/ \E m \in swept' \ swept : InUse(m)
               PROVE  \E w \in Workers :
                         tx[w] # NoTx /\ tx[w].overtaken /\ tx'[w] # tx[w]
    OBVIOUS
  <2>1. tx \in [Workers -> {NoTx} \union Transaction]
    BY DEF MediaInv, MediaTypeOK
  <2>2. ASSUME NEW w \in Workers, Persist(w)
        PROVE  tx[w] # NoTx /\ tx[w].overtaken /\ tx'[w] # tx[w]
    <3>1. swept' = swept /\ tx[w] # NoTx /\ tx'[w] = NoTx
      BY <2>1, <2>2 DEF Persist, Ended
    <3>2. ~tx[w].overtaken => Agrees(db') /\ Remembers(db')
      BY <2>2, Persisted
    <3>3. Agrees(db') /\ Remembers(db') => Agrees(db)' /\ Remembers(db)'
      BY DEF Agrees, Remembers, Kept, Having, Holds
    <3>4. tx[w] \in Transaction
      BY <2>1, <3>1
    <3>5. tx[w].overtaken \in BOOLEAN
      BY <3>4 DEF Transaction
    <3> QED
      BY <3>1, <3>2, <3>3, <3>5
  <2>3. ASSUME NEW w \in Workers, RunCleanup(w)
        PROVE  tx[w] # NoTx /\ tx[w].overtaken /\ tx'[w] # tx[w]
    <3>1. Open(w) /\ db' = db
      BY <2>3 DEF RunCleanup
    <3>2. Agrees(db)' /\ Remembers(db)'
      BY <3>1 DEF Agrees, Remembers, Kept, Having, Holds
    <3>3. PICK m \in swept' \ swept : InUse(m)
      BY <3>2
    <3>4. m \in Retired(Copy(w))
      BY <2>3 DEF RunCleanup
    <3>5. ~Referenced(Copy(w), m)
      BY <3>4 DEF Retired
    <3>6. Copy(w) # db
      BY <3>3, <3>5 DEF InUse, Referenced, Remembers
    <3>7. tx[w] # NoTx /\ tx[w].overtaken
      BY <3>1, <3>6, Opened DEF Open
    <3>8. PICK c : Return(w, c)
      BY <2>3 DEF RunCleanup
    <3>9. tx[w] \in Transaction /\ tx[w].stage = "open"
      BY <2>1, <3>1 DEF Open
    <3>10. tx'[w].stage = "done"
      BY <2>1, <3>8, <3>9 DEF Return, Transaction
    <3> QED
      BY <3>7, <3>9, <3>10
  <2>4. ASSUME NEW w \in Workers,
               \/ Hydrate(w) \/ HydrateRest(w) \/ MergeUsage(w) \/ Rollback(w)
               \/ \E e \in Event : Consume(w, e)
        PROVE  UNCHANGED <<db, swept>>
    BY <2>4 DEF Hydrate, HydrateRest, MergeUsage, Rollback, Consume
  <2>5. ASSUME NEW w \in Workers, NEW m \in Media,
               \/ MergeMedia(w, m)
               \/ Initiate(w, m) \/ InitiateMultipart(w, m) \/ Complete(w, m)
               \/ CompleteMultipart(w, m) \/ AbortMultipart(w, m) \/ Delete(w, m)
               \/ PartUrls(w, m) \/ MultipartStatus(w, m) \/ Download(w, m)
        PROVE  UNCHANGED <<db, swept>>
    <3>1. CASE MergeMedia(w, m) \/ Initiate(w, m) \/ InitiateMultipart(w, m)
      BY <3>1 DEF MergeMedia, Initiate, InitiateMultipart
    <3>2. CASE Complete(w, m) \/ CompleteMultipart(w, m)
      BY <3>2 DEF Complete, CompleteMultipart
    <3>3. CASE AbortMultipart(w, m) \/ Delete(w, m)
      BY <3>3 DEF AbortMultipart, Delete
    <3>4. CASE PartUrls(w, m) \/ MultipartStatus(w, m) \/ Download(w, m)
      BY <3>4 DEF PartUrls, MultipartStatus, Download
    <3> QED
      BY <2>5, <3>1, <3>2, <3>3, <3>4
  <2>6. ASSUME NEW m \in Media, Put(m) \/ Expire(m) \/ \E n \in Parts : PutPart(m, n)
        PROVE  UNCHANGED <<db, swept>>
    BY <2>6 DEF Put, Expire, PutPart
  <2>7. (\E w \in Workers : Persist(w) \/ RunCleanup(w)) \/ UNCHANGED <<db, swept>>
    BY <2>4, <2>5, <2>6 DEF MediaNext
  <2>8. CASE UNCHANGED <<db, swept>>
    BY <2>8 DEF Agrees, Remembers, Kept, Having, Holds
  <2> QED
    BY <2>2, <2>3, <2>7, <2>8
<1> QED
  BY <1>1, MediaInvariant, PTL DEF MediaSpec, OnlyOverlapsHarm

=============================================================================
