---------------------------- MODULE Organization ----------------------------
(***************************************************************************)
(* organization-service: one tenant, its members and their roles, its      *)
(* invitations and a team.  A request reads who calls and with which       *)
(* permissions (JWTContextAuthentication) and runs its command later.      *)
(* Every command begins with the lock of the organization's row and is one *)
(* transaction, so that a command is one action; what the request has read *)
(* before the lock can be out of date by then.                             *)
(***************************************************************************)
EXTENDS Integers, Sequences, FiniteSets

CONSTANTS
    User,           \* platform identities
    NoUser,         \* a member that is not linked, an invitation without a recipient
    Requests,       \* requests that may be in progress at once
    NoRequest,
    CustomCodes,    \* what a custom role can be made of: some sets of permissions
    Given,          \* roles that are given (bound)
    Channels,       \* how invitations are sent (bound)
    Limits,         \* values of max_members
    MaxMembers,     \* rows of members (bound)
    MaxInvitations, \* rows of invitations (bound)
    MaxRequests     \* requests that ever begin (bound)

VARIABLES
    organization,   \* its status, "none" before it is provisioned
    settings,       \* max_members, beyond the bound for None, and allow_member_invites
    members,        \* rows in the order of their insertion
    roles,          \* RoleAssignment: pairs of a member and a role
    custom,         \* the permissions of the custom role, {} before there is one
    team, placed,   \* status of a team, members with an ACTIVE membership in it
    invitations,
    begun,          \* requests so far
    context         \* TenantContext of each request

vars == <<organization, settings, members, roles, custom, team, placed, invitations,
          begun, context>>

Permissions ==
    {"organization.update", "member.create", "member.update", "member.remove",
     "team.update", "team.delete", "invitation.create", "invitation.revoke",
     "invitation.accept", "role.manage"}

Roles == {"OWNER", "ADMIN", "MANAGER", "MEMBER", "CUSTOM"}

ASSUME BoundAssumption == Given \subseteq Roles /\ Limits \subseteq Nat /\ MaxMembers \in Nat

\* ROLE_PERMISSIONS.
Codes(role) ==
    CASE role = "OWNER" -> Permissions
      [] role = "ADMIN" -> Permissions \ {"role.manage", "invitation.accept"}
      [] role = "MANAGER" -> {"team.update", "invitation.create"}
      [] role = "MEMBER" -> {}
      [] role = "CUSTOM" -> custom

Members == DOMAIN members
Effective(m) == UNION {Codes(role) : role \in {x \in Roles : <<m, x>> \in roles}}

Departed(m) == members[m].status \in {"REMOVED", "LEFT"}
Active(m) == members[m].status = "ACTIVE"
Owns(m) == <<m, "OWNER">> \in roles
Headcount == Cardinality({m \in Members : ~Departed(m)})

\* max_members is NULL: more than there can be rows.
Unlimited == MaxMembers + 1

Init ==
    /\ organization = "none"
    /\ settings = [limit |-> Unlimited, invites |-> TRUE]
    /\ members = <<>>
    /\ roles = {}
    /\ custom = {}
    /\ team = "ACTIVE"
    /\ placed = {}
    /\ invitations = <<>>
    /\ begun = 0
    /\ context = [r \in Requests |-> NoRequest]

-----------------------------------------------------------------------------
(* Requests and what commands check.                                       *)

\* The caller is an active member of an active organization.
Begin(r, m) ==
    /\ context[r] = NoRequest
    /\ begun < MaxRequests /\ begun' = begun + 1
    /\ organization = "ACTIVE"
    /\ Active(m) /\ members[m].user # NoUser
    /\ context' = [context EXCEPT ![r] = [member |-> m, permissions |-> Effective(m)]]
    /\ UNCHANGED <<organization, settings, members, roles, custom, team, placed, invitations>>

Done(r) == context' = [context EXCEPT ![r] = NoRequest] /\ UNCHANGED begun

\* A DomainError, which leaves nothing behind.
Refuse(r) ==
    /\ context[r] # NoRequest
    /\ Done(r)
    /\ UNCHANGED <<organization, settings, members, roles, custom, team, placed, invitations>>

\* Under the lock: the organization, the caller's status and one permission once more.
StillHolds(m, permission) ==
    organization = "ACTIVE" /\ Active(m) /\ permission \in Effective(m)

\* lock_tenant
LockTenant(r, permission) ==
    /\ context[r] # NoRequest
    /\ permission \in context[r].permissions
    /\ StillHolds(context[r].member, permission)

\* check_delegation: by the permissions of a context, not by those of now.
MayDelegate(m, permissions, role) ==
    /\ Codes(role) \subseteq permissions
    /\ role = "OWNER" => Owns(m)

\* Mutant: an owner who is suspended counts.
ProtectAnyOwner(m) == Owns(m) => \E other \in Members \ {m} : Owns(other)

ProtectLastOwner(m) ==
    Owns(m) => \E other \in Members \ {m} : Owns(other) /\ Active(other)

\* Mutant: the limit is missed by one.
WithinCapacityAndOne == Headcount <= settings.limit

WithinCapacity == Headcount < settings.limit

-----------------------------------------------------------------------------
(* The organization.                                                       *)

\* provision_organization, from a company registration; a retry finds it and its owner.
Provision(u) ==
    /\ organization = "none"
    /\ organization' = "ACTIVE"
    /\ settings' = [limit |-> Unlimited, invites |-> TRUE]
    /\ members' = <<[user |-> u, status |-> "ACTIVE"]>>
    /\ roles' = {<<1, "OWNER">>}
    /\ UNCHANGED <<custom, team, placed, invitations, begun, context>>

UpdateSettings(r, limit, invites) ==
    /\ LockTenant(r, "organization.update")
    /\ settings' = [limit |-> limit, invites |-> invites]
    /\ Done(r)
    /\ UNCHANGED <<organization, members, roles, custom, team, placed, invitations>>

NextStatus ==
    [none |-> {}, ACTIVE |-> {"SUSPENDED", "DISABLED"}, SUSPENDED |-> {"ACTIVE", "DISABLED"},
     DISABLED |-> {"ACTIVE", "DELETED"}, DELETED |-> {}]

\* set_organization_status, the operator's way, which can also bring a tenant back.
SetStatus(status) ==
    /\ status \in NextStatus[organization]
    /\ organization' = status
    /\ UNCHANGED <<settings, members, roles, custom, team, placed, invitations, begun, context>>

-----------------------------------------------------------------------------
(* Members and roles.                                                      *)

\* create_resource: a row that no identity is linked to.
CreateMember(r) ==
    /\ LockTenant(r, "member.create")
    /\ WithinCapacity
    /\ Len(members) < MaxMembers
    /\ members' = Append(members, [user |-> NoUser, status |-> "INVITED"])
    /\ Done(r)
    /\ UNCHANGED <<organization, settings, roles, custom, team, placed, invitations>>

\* link_member, an operator's command; member_tenant_user is unique.
Link(m, u) ==
    /\ members[m] = [user |-> NoUser, status |-> "INVITED"]
    /\ \A other \in Members : members[other].user # u
    /\ members' = [members EXCEPT ![m].user = u]
    /\ UNCHANGED <<organization, settings, roles, custom, team, placed, invitations, begun, context>>

NextOf ==
    [INVITED |-> {"ACTIVE", "REMOVED"}, ACTIVE |-> {"SUSPENDED", "LEFT", "REMOVED"},
     SUSPENDED |-> {"ACTIVE", "LEFT", "REMOVED"}, LEFT |-> {}, REMOVED |-> {}]

\* transition, of a member.
Transition(r, m, status) ==
    /\ LockTenant(r, IF status \in {"REMOVED", "LEFT"} THEN "member.remove" ELSE "member.update")
    /\ status \in NextOf[members[m].status]
    /\ IF status = "ACTIVE" THEN members[m].user # NoUser ELSE ProtectLastOwner(m)
    /\ members' = [members EXCEPT ![m].status = status]
    /\ placed' = IF status \in {"REMOVED", "LEFT"} THEN placed \ {m} ELSE placed
    /\ Done(r)
    /\ UNCHANGED <<organization, settings, roles, custom, team, invitations>>

AssignRole(r, m, role) ==
    /\ LockTenant(r, "role.manage")
    /\ MayDelegate(context[r].member, context[r].permissions, role)
    /\ role = "CUSTOM" => custom # {}
    /\ ~Departed(m)
    /\ roles' = roles \union {<<m, role>>}
    /\ Done(r)
    /\ UNCHANGED <<organization, settings, members, custom, team, placed, invitations>>

\* assign_role with remove.
RemoveRole(r, m, role) ==
    /\ LockTenant(r, "role.manage")
    /\ MayDelegate(context[r].member, context[r].permissions, role)
    /\ ~Departed(m)
    /\ role = "OWNER" => ProtectLastOwner(m)
    /\ roles' = roles \ {<<m, role>>}
    /\ Done(r)
    /\ UNCHANGED <<organization, settings, members, custom, team, placed, invitations>>

\* role_tenant_name is unique.
CreateCustomRole(r, codes) ==
    /\ LockTenant(r, "role.manage")
    /\ codes \subseteq context[r].permissions
    /\ custom = {}
    /\ custom' = codes
    /\ Done(r)
    /\ UNCHANGED <<organization, settings, members, roles, team, placed, invitations>>

-----------------------------------------------------------------------------
(* The team.                                                               *)

\* Mutant: of anyone who is a member.
AddAnyone(r, m) ==
    /\ LockTenant(r, "team.update")
    /\ team = "ACTIVE"
    /\ m \notin placed
    /\ placed' = placed \union {m}
    /\ Done(r)
    /\ UNCHANGED <<organization, settings, members, roles, custom, team, invitations>>

\* add_membership; team_active_membership is unique.
AddToTeam(r, m) ==
    /\ LockTenant(r, "team.update")
    /\ team = "ACTIVE" /\ Active(m)
    /\ m \notin placed
    /\ placed' = placed \union {m}
    /\ Done(r)
    /\ UNCHANGED <<organization, settings, members, roles, custom, team, invitations>>

\* end_membership
EndMembership(r, m) ==
    /\ LockTenant(r, "team.update")
    /\ m \in placed
    /\ placed' = placed \ {m}
    /\ Done(r)
    /\ UNCHANGED <<organization, settings, members, roles, custom, team, invitations>>

\* transition, of a team.
TeamTransition(r, status) ==
    /\ LockTenant(r, IF status = "DELETED" THEN "team.delete" ELSE "team.update")
    /\ \/ team = "ACTIVE" /\ status \in {"DISABLED", "DELETED"}
       \/ team = "DISABLED" /\ status \in {"ACTIVE", "DELETED"}
    /\ team' = status
    /\ Done(r)
    /\ UNCHANGED <<organization, settings, members, roles, custom, placed, invitations>>

-----------------------------------------------------------------------------
(* Invitations.                                                            *)

Pending(i) == invitations[i].status = "PENDING"
SentTo(u, channel) ==
    {i \in DOMAIN invitations : invitations[i].to = u /\ invitations[i].channel = channel}

\* No other invitation waits for the recipient.  By phone, one past its time is put to
\* EXPIRED first and an active member is not invited again.
NoneWaits(u, channel) ==
    /\ \A i \in SentTo(u, channel) : Pending(i) => ~invitations[i].live
    /\ channel = "phone" =>
          \A i \in SentTo(u, channel) :
             invitations[i].status = "ACCEPTED" => ~Active(invitations[i].member)

Lapse(u, channel) ==
    [i \in DOMAIN invitations |->
        IF channel = "phone" /\ i \in SentTo(u, channel) /\ Pending(i)
        THEN [invitations[i] EXCEPT !.status = "EXPIRED"] ELSE invitations[i]]

\* create_invitation: without a recipient it is for accept_invitation.
CreateInvitation(r, u, channel, role, toTeam) ==
    /\ LockTenant(r, "invitation.create")
    /\ settings.invites
    /\ role = "CUSTOM" => custom # {}
    /\ MayDelegate(context[r].member, context[r].permissions, role)
    /\ (channel = "none") = (u = NoUser)
    /\ u # NoUser => NoneWaits(u, channel) /\ (toTeam => team = "ACTIVE")
    /\ Len(invitations) < MaxInvitations
    /\ invitations' = Append(Lapse(u, channel),
           [to |-> u, channel |-> channel, role |-> role, toTeam |-> toTeam,
            by |-> context[r].member, status |-> "PENDING", live |-> TRUE, member |-> 0])
    /\ Done(r)
    /\ UNCHANGED <<organization, settings, members, roles, custom, team, placed>>

RevokeInvitation(r, i) ==
    /\ LockTenant(r, "invitation.revoke")
    /\ Pending(i)
    /\ invitations' = [invitations EXCEPT ![i].status = "REVOKED"]
    /\ Done(r)
    /\ UNCHANGED <<organization, settings, members, roles, custom, team, placed>>

\* expires_at passes.
TimePasses(i) ==
    /\ Pending(i) /\ invitations[i].live
    /\ invitations' = [invitations EXCEPT ![i].live = FALSE]
    /\ UNCHANGED <<organization, settings, members, roles, custom, team, placed, begun, context>>

\* expire_invitations
ExpireInvitation(i) ==
    /\ Pending(i) /\ ~invitations[i].live
    /\ invitations' = [invitations EXCEPT ![i].status = "EXPIRED"]
    /\ UNCHANGED <<organization, settings, members, roles, custom, team, placed, begun, context>>

Accepted(i, m) == [invitations EXCEPT ![i].status = "ACCEPTED", ![i].member = m]

\* accept_invitation: a manager of the tenant names the member.
AcceptInvitation(r, i, m) ==
    /\ LockTenant(r, "invitation.accept")
    /\ Pending(i) /\ invitations[i].live /\ invitations[i].to = NoUser
    /\ Active(m)
    /\ MayDelegate(context[r].member, context[r].permissions, invitations[i].role)
    /\ invitations[i].toTeam => LockTenant(r, "team.update") /\ team = "ACTIVE" /\ m \notin placed
    /\ roles' = roles \union {<<m, invitations[i].role>>}
    /\ placed' = IF invitations[i].toTeam THEN placed \union {m} ELSE placed
    /\ invitations' = Accepted(i, m)
    /\ Done(r)
    /\ UNCHANGED <<organization, settings, members, custom, team>>

\* Mutant: the inviter is who he was when he invited.
InviterOnceMight(i) == organization = "ACTIVE" /\ settings.invites

\* accept_bound asks again what the inviter may, with a context of now.
InviterStillMay(i) ==
    LET by == invitations[i].by IN
    /\ StillHolds(by, "invitation.create")
    /\ settings.invites
    /\ MayDelegate(by, Effective(by), invitations[i].role)

\* replace_role_from_invitation and assign_invitation_placements
Enter(i, m) ==
    /\ roles' = {x \in roles : x[1] # m} \union {<<m, invitations[i].role>>}
    /\ placed' = IF invitations[i].toTeam THEN placed \union {m} ELSE placed

\* create_member_from_invitation: a place is taken.
CreateMemberFromInvitation(i) ==
    /\ WithinCapacity
    /\ Len(members) < MaxMembers
    /\ members' = Append(members, [user |-> invitations[i].to, status |-> "ACTIVE"])
    /\ Enter(i, Len(members) + 1)

\* rejoin_member_from_invitation: none is asked for.
RejoinMemberFromInvitation(i, m) ==
    /\ Departed(m)
    /\ members' = [members EXCEPT ![m].status = "ACTIVE"]
    /\ Enter(i, m)

\* accept_bound, for the identity whose phone or address the invitation names.
AcceptBound(i) ==
    /\ Pending(i) /\ invitations[i].live /\ invitations[i].to # NoUser
    /\ InviterStillMay(i)
    /\ invitations[i].toTeam => team = "ACTIVE"
    /\ \/ /\ \A m \in Members : members[m].user # invitations[i].to
          /\ CreateMemberFromInvitation(i)
          /\ invitations' = Accepted(i, Len(members) + 1)
       \/ \E m \in Members :
          /\ members[m].user = invitations[i].to
          /\ \/ RejoinMemberFromInvitation(i, m)
             \/ Active(m) /\ UNCHANGED <<members, roles, placed>>
          /\ invitations' = Accepted(i, m)
    /\ UNCHANGED <<organization, settings, custom, team, begun, context>>

-----------------------------------------------------------------------------

Command(r) ==
    \/ Refuse(r)
    \/ \E limit \in Limits, invites \in BOOLEAN : UpdateSettings(r, limit, invites)
    \/ CreateMember(r)
    \/ \E m \in Members :
        \/ \E status \in DOMAIN NextOf : Transition(r, m, status)
        \/ \E role \in Given : AssignRole(r, m, role) \/ RemoveRole(r, m, role)
        \/ AddToTeam(r, m) \/ EndMembership(r, m)
    \/ \E codes \in CustomCodes : CreateCustomRole(r, codes)
    \/ \E status \in {"ACTIVE", "DISABLED", "DELETED"} : TeamTransition(r, status)
    \/ \E u \in User \union {NoUser}, channel \in Channels, role \in Given,
          toTeam \in BOOLEAN : CreateInvitation(r, u, channel, role, toTeam)
    \/ \E i \in DOMAIN invitations :
        \/ RevokeInvitation(r, i)
        \/ \E m \in Members : AcceptInvitation(r, i, m)

Next ==
    \/ \E u \in User : Provision(u)
    \/ \E r \in Requests : Command(r) \/ \E m \in Members : Begin(r, m)
    \/ \E status \in DOMAIN NextStatus : SetStatus(status)
    \/ \E m \in Members, u \in User : Link(m, u)
    \/ \E i \in DOMAIN invitations : TimePasses(i) \/ ExpireInvitation(i) \/ AcceptBound(i)

Spec == Init /\ [][Next]_vars

-----------------------------------------------------------------------------
(* Properties.                                                             *)

TypeOK ==
    /\ organization \in DOMAIN NextStatus
    /\ settings.limit \in Limits \union {Unlimited} /\ settings.invites \in BOOLEAN
    /\ members \in Seq([user : User \union {NoUser}, status : DOMAIN NextOf])
    /\ roles \subseteq Members \X Roles
    /\ custom \subseteq Permissions
    /\ team \in {"ACTIVE", "DISABLED", "DELETED"}
    /\ placed \subseteq Members
    /\ invitations \in Seq([to : User \union {NoUser}, channel : Channels, role : Roles,
                            toTeam : BOOLEAN, by : Nat,
                            status : {"PENDING", "ACCEPTED", "REVOKED", "EXPIRED"},
                            live : BOOLEAN, member : Nat])
    /\ \A i \in DOMAIN invitations : invitations[i].by \in Members
    /\ begun \in Nat
    /\ context \in [Requests -> {NoRequest} \union [member : Nat, permissions : SUBSET Permissions]]
    /\ \A r \in Requests : context[r] # NoRequest => context[r].member \in Members

\* README.md:121: "the last active owner cannot be removed, suspended or lose ownership".
\* Whatever owners do to each other at once, and however they leave and come back by
\* invitation, an organization has an active owner.
ActiveOwner == organization # "none" => \E m \in Members : Owns(m) /\ Active(m)

\* Who has left or was removed is in no team (services.py:237-242), also when he comes
\* back and leaves again, or is placed while he leaves.
DepartedUnplaced == \A m \in placed : ~Departed(m)

\* Only a rejoin takes the organization above max_members (services.py:146-161,
\* membership.py:77-93), whatever is created, accepted or set at the same time.
OnlyRejoinsExceed ==
    [][/\ organization # "none"
       /\ Headcount' > Headcount
       /\ \A m \in Members : Departed(m) => Departed(m)'
       => Headcount' <= settings.limit]_vars

\* An invitation that is addressed to somebody gives him nothing that its inviter could not
\* give at that moment: one who was demoted, suspended or has left since leaves no such
\* invitation behind that still works (onboarding.py:90-101).  Of an invitation that is
\* addressed to nobody the code asks who accepts it, not who made it.
InvitationsLapse ==
    [][\A i \in DOMAIN invitations :
         (Pending(i) /\ invitations'[i].status = "ACCEPTED" /\ invitations[i].to # NoUser) =>
            /\ Active(invitations[i].by)
            /\ Codes(invitations[i].role) \subseteq Effective(invitations[i].by)]_vars

=============================================================================
