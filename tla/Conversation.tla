---------------------------- MODULE Conversation ----------------------------
(***************************************************************************)
(* The groups of conversation-service: who is in them, with which role,    *)
(* and what becomes of them.  Every handler of app/api.py locks the row of *)
(* its conversation first, so the handlers of one group run one after the  *)
(* other and are one step each; creating a group and adding members read   *)
(* the members of the organization (or ask user-service) long before they  *)
(* commit, and are two.  The consumer of app/events.py applies membership  *)
(* events of the organization, in whatever order they arrive, in           *)
(* transactions of its own.                                                *)
(*                                                                         *)
(* ConversationSettings keeps its defaults, as nothing writes it: only     *)
(* owners and admins add members.  Title, avatar and the list state of a   *)
(* member (update, state) are left out, refusals change nothing.           *)
(***************************************************************************)
EXTENDS Naturals, FiniteSets

CONSTANTS
    Workers,        \* concurrent API requests
    Groups,         \* ids new groups take
    Members,        \* members of the organization, or identities
    Scope,          \* of a group: "WORKSPACE" or "PERSONAL"
    MemberLimit,    \* default_group_member_limit
    MaxBatch,       \* max_length of member_ids in a request
    Statuses,       \* what membership events of the organization say
    NoRow,          \* a member has no row in conversation_members
    NoEvent,        \* no event of a group has been written
    NoWorker, Idle

Scopes == {"WORKSPACE", "PERSONAL"}
Roles == {"OWNER", "ADMIN", "MEMBER"}
Departures == {"LEFT", "REMOVED"}
MStatus == {"ACTIVE"} \union Departures
Row == [status : MStatus, role : Roles]
CStatus == {"none", "ACTIVE", "CLOSED", "DELETED"}
PStatus == {"none", "ACTIVE", "SUSPENDED"} \union Departures

ASSUME ConversationAssumption ==
    /\ IsFiniteSet(Members)
    /\ MemberLimit \in Nat
    /\ MaxBatch \in Nat
    /\ Statuses \subseteq PStatus \ {"none"}
    /\ Scope \in [Groups -> Scopes]
    /\ NoWorker \notin Workers
    /\ NoRow \notin Row

VARIABLES
    conv,           \* conversations.status, "none" while the id is not taken
    member,         \* conversation_members: the row of a member in a group
    projection,     \* member_projections.status, "none" where no row is
    lock,           \* the request that holds the row of a group over several steps
    tx,             \* the request of a worker that has read and not committed
    told            \* the last event of a group in the outbox

vars == <<conv, member, projection, lock, tx, told>>

Tx == [op : {"create"}, scope : Scopes, actor : Members, added : SUBSET Members]
      \union [op : {"add"}, group : Groups, added : SUBSET Members]

Active(g, m) == member[g][m] # NoRow /\ member[g][m].status = "ACTIVE"
HasRole(g, m, r) == Active(g, m) /\ member[g][m].role = r
Roster(g) == {m \in Members : Active(g, m)}

\* Authorization.manage and Authorization.owner.
Manages(g, m) == HasRole(g, m, "OWNER") \/ HasRole(g, m, "ADMIN")
Owns(g, m) == HasRole(g, m, "OWNER")

Init ==
    /\ conv = [g \in Groups |-> "none"]
    /\ member = [g \in Groups |-> [m \in Members |-> NoRow]]
    /\ projection = [m \in Members |-> "none"]
    /\ lock = [g \in Groups |-> NoWorker]
    /\ tx = [w \in Workers |-> Idle]
    /\ told = [g \in Groups |-> NoEvent]

\* Mutant: SELECT of the conversation without FOR UPDATE.
GetConversationUnlocked(g) == conv[g] # "none"

\* get_conversation: any status will do; the handler waits for the row.
GetConversation(g) ==
    /\ conv[g] # "none"
    /\ lock[g] = NoWorker

\* event(): the status and all members, read again after the change.
Tell(g) ==
    told' = [told EXCEPT ![g] = [status |-> conv'[g], members |-> member'[g]]]

-----------------------------------------------------------------------------
(* POST /groups and /personal/groups.                                      *)

\* A human member of the organization; a personal contact is one of user-service.
Eligible(scope, m) == scope = "WORKSPACE" => projection[m] = "ACTIVE"

BeginGroup(w, scope, a, T) ==
    /\ tx[w] = Idle
    /\ \E g \in Groups : conv[g] = "none" /\ Scope[g] = scope
    /\ T # {} /\ Cardinality(T) <= MaxBatch
    /\ Cardinality(T \union {a}) <= MemberLimit
    /\ \A m \in T \union {a} : Eligible(scope, m)
    /\ tx' = [tx EXCEPT ![w] =
                [op |-> "create", scope |-> scope, actor |-> a, added |-> T \ {a}]]
    /\ UNCHANGED <<conv, member, projection, lock, told>>

\* The actor, who may be among the members of the request, owns the group.
CommitGroup(w, g) ==
    /\ tx[w] # Idle
    /\ tx[w].op = "create"
    /\ conv[g] = "none" /\ Scope[g] = tx[w].scope
    /\ conv' = [conv EXCEPT ![g] = "ACTIVE"]
    /\ member' = [member EXCEPT ![g] = [m \in Members |->
                    IF m = tx[w].actor THEN [status |-> "ACTIVE", role |-> "OWNER"]
                    ELSE IF m \in tx[w].added THEN [status |-> "ACTIVE", role |-> "MEMBER"]
                    ELSE NoRow]]
    /\ tx' = [tx EXCEPT ![w] = Idle]
    /\ Tell(g)
    /\ UNCHANGED <<projection, lock>>

-----------------------------------------------------------------------------
(* POST /{cid}/members.                                                    *)

\* Who is added: member ids of a workspace group leave out those who are in it, the
\* contact ids of a personal group are compared with identities and leave out none.
Added(g, T) == IF Scope[g] = "WORKSPACE" THEN T \ Roster(g) ELSE T

WithinLimit(g, T) == Cardinality(Roster(g)) + Cardinality(Added(g, T)) <= MemberLimit

BeginAdd(w, g, a, T) ==
    /\ tx[w] = Idle
    /\ GetConversation(g)
    /\ Manages(g, a)
    /\ a \notin T /\ Cardinality(T) <= MaxBatch
    /\ Added(g, T) # {}
    /\ WithinLimit(g, T)
    /\ \A m \in Added(g, T) : Eligible(Scope[g], m)
    /\ lock' = [lock EXCEPT ![g] = w]
    /\ tx' = [tx EXCEPT ![w] = [op |-> "add", group |-> g, added |-> Added(g, T)]]
    /\ UNCHANGED <<conv, member, projection, told>>

\* A row is new or is taken up again, as MEMBER either way.
CommitAdd(w, g) ==
    /\ tx[w] # Idle
    /\ tx[w].op = "add"
    /\ tx[w].group = g
    /\ member' = [member EXCEPT ![g] = [m \in Members |->
                    IF m \in tx[w].added
                    THEN [status |-> "ACTIVE", role |-> "MEMBER"] ELSE member[g][m]]]
    /\ lock' = [lock EXCEPT ![g] = NoWorker]
    /\ tx' = [tx EXCEPT ![w] = Idle]
    /\ UNCHANGED <<conv, projection>>
    /\ Tell(g)

\* user-service does not answer, a deadlock with the consumer, a crash.
Abort(w) ==
    /\ tx[w] # Idle
    /\ lock' = [g \in Groups |-> IF lock[g] = w THEN NoWorker ELSE lock[g]]
    /\ tx' = [tx EXCEPT ![w] = Idle]
    /\ UNCHANGED <<conv, member, projection, told>>

-----------------------------------------------------------------------------
(* Handlers of one step: a, active in the group, acts on t.                *)

SetMember(g, m, s, r) ==
    member' = [member EXCEPT ![g][m] = [status |-> s, role |-> r]]

\* Mutant: without the check that the target is not the owner.
RemoveAnyone(g, a, t) ==
    /\ GetConversation(g)
    /\ Manages(g, a)
    /\ Active(g, t)
    /\ ~(HasRole(g, a, "ADMIN") /\ HasRole(g, t, "ADMIN"))
    /\ SetMember(g, t, "REMOVED", member[g][t].role)
    /\ UNCHANGED <<conv, projection, lock, tx>>
    /\ Tell(g)

\* Mutant: admins may remove admins.
RemovePeers(g, a, t) ==
    /\ GetConversation(g)
    /\ Manages(g, a)
    /\ Active(g, t) /\ ~HasRole(g, t, "OWNER")
    /\ SetMember(g, t, "REMOVED", member[g][t].role)
    /\ UNCHANGED <<conv, projection, lock, tx>>
    /\ Tell(g)

\* DELETE /{cid}/members/{mid}.
Remove(g, a, t) ==
    /\ GetConversation(g)
    /\ Manages(g, a)
    /\ Active(g, t) /\ ~HasRole(g, t, "OWNER")
    /\ ~(HasRole(g, a, "ADMIN") /\ HasRole(g, t, "ADMIN"))
    /\ SetMember(g, t, "REMOVED", member[g][t].role)
    /\ UNCHANGED <<conv, projection, lock, tx>>
    /\ Tell(g)

\* POST /{cid}/leave.
Leave(g, a) ==
    /\ GetConversation(g)
    /\ Active(g, a) /\ ~HasRole(g, a, "OWNER")
    /\ SetMember(g, a, "LEFT", member[g][a].role)
    /\ UNCHANGED <<conv, projection, lock, tx>>
    /\ Tell(g)

\* POST /{cid}/members/{mid}/promote and /demote.
ChangeRole(g, a, t, r) ==
    /\ GetConversation(g)
    /\ Owns(g, a)
    /\ Active(g, t) /\ ~HasRole(g, t, "OWNER")
    /\ SetMember(g, t, "ACTIVE", r)
    /\ UNCHANGED <<conv, projection, lock, tx>>
    /\ Tell(g)

Promote(g, a, t) == ChangeRole(g, a, t, "ADMIN")
Demote(g, a, t) == ChangeRole(g, a, t, "MEMBER")

\* Mutant: no event.
TransferSilently(g, a, t) ==
    /\ GetConversation(g)
    /\ Owns(g, a)
    /\ Active(g, t)
    /\ member' = [member EXCEPT ![g][a].role = "ADMIN", ![g][t].role = "OWNER"]
    /\ UNCHANGED <<conv, projection, lock, tx, told>>

\* Mutant: the old owner does not step down.
TransferShared(g, a, t) ==
    /\ GetConversation(g)
    /\ Owns(g, a)
    /\ Active(g, t)
    /\ member' = [member EXCEPT ![g][t].role = "OWNER"]
    /\ UNCHANGED <<conv, projection, lock, tx>>
    /\ Tell(g)

\* POST /{cid}/transfer-ownership: the old owner steps down first, so that a transfer
\* to oneself changes nothing.
Transfer(g, a, t) ==
    /\ GetConversation(g)
    /\ Owns(g, a)
    /\ Active(g, t)
    /\ member' = [member EXCEPT ![g][a].role = "ADMIN", ![g][t].role = "OWNER"]
    /\ UNCHANGED <<conv, projection, lock, tx>>
    /\ Tell(g)

\* POST /{cid}/close, of a deleted group too.
Close(g, a) ==
    /\ GetConversation(g)
    /\ Manages(g, a)
    /\ conv[g] # "CLOSED"
    /\ conv' = [conv EXCEPT ![g] = "CLOSED"]
    /\ UNCHANGED <<member, projection, lock, tx>>
    /\ Tell(g)

\* POST /{cid}/delete.
Delete(g, a) ==
    /\ GetConversation(g)
    /\ Owns(g, a)
    /\ conv[g] # "DELETED"
    /\ conv' = [conv EXCEPT ![g] = "DELETED"]
    /\ UNCHANGED <<member, projection, lock, tx>>
    /\ Tell(g)

-----------------------------------------------------------------------------
(* The consumer of organization.events: member.*.v2 of member m, whose     *)
(* status is s.  A departure ends its memberships of all workspace groups. *)

\* revoke_org_conversations: the rows it finds ACTIVE, locked with their groups.
Revoked(m) == {g \in Groups : Scope[g] = "WORKSPACE" /\ Active(g, m)}

ConsumeMember(m, s) ==
    LET ended == IF s \in Departures THEN Revoked(m) ELSE {}
    IN  /\ \A g \in ended : lock[g] = NoWorker
        /\ projection' = [projection EXCEPT ![m] = s]
        /\ member' = [g \in Groups |->
                        IF g \in ended THEN [member[g] EXCEPT ![m].status = s] ELSE member[g]]
        /\ told' = [g \in Groups |->
                        IF g \in ended
                        THEN [status |-> conv[g], members |-> member'[g]] ELSE told[g]]
        /\ UNCHANGED <<conv, lock, tx>>

-----------------------------------------------------------------------------

Create(w) ==
    \/ \E scope \in Scopes, a \in Members, T \in SUBSET Members : BeginGroup(w, scope, a, T)
    \/ \E g \in Groups : CommitGroup(w, g)

Add(w) ==
    \E g \in Groups :
        \/ \E a \in Members, T \in SUBSET Members : BeginAdd(w, g, a, T)
        \/ CommitAdd(w, g)

Manage(g, a) ==
    \/ \E t \in Members : Remove(g, a, t) \/ Promote(g, a, t) \/ Demote(g, a, t)
                          \/ Transfer(g, a, t)
    \/ Leave(g, a)
    \/ Close(g, a)
    \/ Delete(g, a)

Next ==
    \/ \E w \in Workers : Create(w) \/ Add(w) \/ Abort(w)
    \/ \E g \in Groups, a \in Members : Manage(g, a)
    \/ \E m \in Members, s \in Statuses : ConsumeMember(m, s)

Spec == Init /\ [][Next]_vars

-----------------------------------------------------------------------------
(* Properties.                                                             *)

TypeOK ==
    /\ conv \in [Groups -> CStatus]
    /\ member \in [Groups -> [Members -> Row \union {NoRow}]]
    /\ projection \in [Members -> PStatus]
    /\ lock \in [Groups -> Workers \union {NoWorker}]
    /\ tx \in [Workers -> Tx \union {Idle}]
    /\ told \in [Groups -> [status : CStatus, members : [Members -> Row \union {NoRow}]]
                           \union {NoEvent}]

\* A group never has two owners, active or departed: no transfer, departure, return or
\* race of adds gives somebody a second claim.
OneOwner ==
    \A g \in Groups, m, n \in Members :
        /\ member[g][m] # NoRow /\ member[g][m].role = "OWNER"
        /\ member[g][n] # NoRow /\ member[g][n].role = "OWNER"
        => m = n

\* A group never has more active members than the limit, although concurrent adds
\* count before they insert.
GroupWithinLimit ==
    \A g \in Groups : Cardinality(Roster(g)) <= MemberLimit

\* The last event of a group carries its status and members as they are in the
\* tables: who follows the events in order misses no change.
EventsTellRoster ==
    \A g \in Groups :
        IF conv[g] = "none" THEN told[g] = NoEvent
        ELSE told[g] = [status |-> conv[g], members |-> member[g]]

OwnerSteps(scope) ==
    \A g \in Groups, m \in Members :
        Scope[g] = scope /\ Owns(g, m) /\ ~Owns(g, m)' =>
            \/ \E n \in Members : n # m /\ Owns(g, n)'
            \/ scope = "WORKSPACE" /\ projection'[m] \in Departures

\* The owner of a workspace group stays its owner until somebody else is, or until
\* the organization loses him.
OwnerKept == [][OwnerSteps("WORKSPACE")]_vars

\* An admin of a workspace group is removed or set back by colleagues only while an
\* owner is there to do it; in a group that lost its owner admins are safe from each
\* other.
AdminsAnswerToOwner ==
    [][\A g \in Groups, m \in Members :
         Scope[g] = "WORKSPACE" /\ HasRole(g, m, "ADMIN") /\ ~HasRole(g, m, "ADMIN")' =>
            \/ Owns(g, m)'
            \/ member'[g][m].status = "LEFT"
            \/ projection'[m] \in Departures
            \/ \E n \in Members : Owns(g, n)]_vars

=============================================================================
