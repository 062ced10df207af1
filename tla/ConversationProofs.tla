------------------------- MODULE ConversationProofs -------------------------
(***************************************************************************)
(* Proofs about Conversation, for any number of requests, groups and       *)
(* members, any limit and any membership events in any order.              *)
(***************************************************************************)
EXTENDS Conversation, FiniteSetTheorems, TLAPS

-----------------------------------------------------------------------------
(* The inductive invariant.                                                *)

\* What a request that has read and not committed knows: the members of its new group
\* fit the limit, and a group it adds to is locked, so that the count it made and who
\* it left out are still right.
CreateInv(w) ==
    tx[w].op = "create" =>
        Cardinality(tx[w].added \union {tx[w].actor}) <= MemberLimit

AddInv(w) ==
    tx[w].op = "add" =>
        LET g == tx[w].group
        IN  /\ lock[g] = w
            /\ conv[g] # "none"
            /\ Cardinality(Roster(g)) + Cardinality(tx[w].added) <= MemberLimit
            /\ Scope[g] = "WORKSPACE" => tx[w].added \intersect Roster(g) = {}

TxInv == \A w \in Workers : tx[w] # Idle => CreateInv(w) /\ AddInv(w)

\* A group that does not exist has no members.
NoneInv == \A g \in Groups, m \in Members : conv[g] = "none" => member[g][m] = NoRow

IInv == TypeOK /\ TxInv /\ NoneInv /\ OneOwner /\ GroupWithinLimit /\ EventsTellRoster

-----------------------------------------------------------------------------
(* Sets of members.                                                        *)

\* Sets of members are finite and have a size.
LEMMA MembersFinite ==
    ASSUME NEW S \in SUBSET Members
    PROVE  IsFiniteSet(S) /\ Cardinality(S) \in Nat
BY FS_Subset, FS_CardinalityType, ConversationAssumption

\* A part of a set is no larger.
LEMMA Smaller ==
    ASSUME NEW S \in SUBSET Members, NEW T \in SUBSET S
    PROVE  Cardinality(T) <= Cardinality(S)
BY FS_Subset, MembersFinite

\* Two sets together are no larger than their sizes added.
LEMMA UnionBound ==
    ASSUME NEW S \in SUBSET Members, NEW T \in SUBSET Members
    PROVE  Cardinality(S \union T) <= Cardinality(S) + Cardinality(T)
<1>1. /\ Cardinality(S \union T)
            = Cardinality(S) + Cardinality(T) - Cardinality(S \intersect T)
      /\ Cardinality(S) \in Nat /\ Cardinality(T) \in Nat
      /\ Cardinality(S \intersect T) \in Nat
  BY MembersFinite, FS_Union
<1> QED
  BY <1>1

\* The members of a group are members of the organization.
LEMMA RosterMembers == \A g : Roster(g) \in SUBSET Members
BY DEF Roster

\* A request stands where it stood when the group it adds to, if it adds to one, is
\* still locked by it and has the same members.
LEMMA TxKept ==
    ASSUME TypeOK, TxInv, NEW v \in Workers, tx'[v] = tx[v], tx'[v] # Idle,
           \A h \in Groups : lock[h] = v /\ conv[h] # "none" =>
                /\ lock'[h] = v
                /\ conv'[h] # "none"
                /\ Roster(h)' = Roster(h)
    PROVE  CreateInv(v)' /\ AddInv(v)'
<1>1. CreateInv(v)'
  BY DEF TxInv, CreateInv
<1>2. ASSUME tx[v].op = "add" PROVE tx[v].group \in Groups
  BY <1>2 DEF TypeOK, Tx
<1>3. AddInv(v)'
  BY <1>2 DEF TxInv, AddInv
<1> QED
  BY <1>1, <1>3

-----------------------------------------------------------------------------
(* Handlers of one step, and the others, by what they share.               *)

\* What a handler of one step on g does: the group is there and stays, its event is
\* written, no other group is touched and nobody joins.
OneStep(g) ==
    /\ lock[g] = NoWorker
    /\ conv[g] # "none"
    /\ conv' \in [Groups -> CStatus]
    /\ member' \in [Groups -> [Members -> Row \union {NoRow}]]
    /\ conv'[g] # "none"
    /\ told' = [told EXCEPT ![g] = [status |-> conv'[g], members |-> member'[g]]]
    /\ \A h \in Groups : h # g => conv'[h] = conv[h] /\ member'[h] = member[h]
    /\ \A m \in Members : Active(g, m)' => Active(g, m)
    /\ \A m, n \in Members :
          /\ member'[g][m] # NoRow /\ member'[g][m].role = "OWNER"
          /\ member'[g][n] # NoRow /\ member'[g][n].role = "OWNER"
          => m = n
    /\ UNCHANGED <<projection, lock, tx>>

\* Every operation on the members of a group is such a handler.
LEMMA ManageOneStep ==
    ASSUME TypeOK, OneOwner, NEW g \in Groups, NEW a \in Members, Manage(g, a)
    PROVE  OneStep(g)
<1> USE ConversationAssumption
<1>1. ASSUME NEW t \in Members, Remove(g, a, t) PROVE OneStep(g)
  BY <1>1 DEF Remove, GetConversation, SetMember, Tell, OneStep, TypeOK, OneOwner,
       Active, HasRole, Row, MStatus, Departures
<1>2. ASSUME NEW t \in Members, NEW r \in {"ADMIN", "MEMBER"}, ChangeRole(g, a, t, r)
      PROVE  OneStep(g)
  BY <1>2 DEF ChangeRole, GetConversation, SetMember, Tell, OneStep, TypeOK, OneOwner,
       Active, HasRole, Row, MStatus, Roles
<1>3. ASSUME NEW t \in Members, Transfer(g, a, t) PROVE OneStep(g)
  BY <1>3 DEF Transfer, GetConversation, Owns, Tell, OneStep, TypeOK, OneOwner,
       Active, HasRole, Row, MStatus, Roles
<1>4. CASE Leave(g, a)
  BY <1>4 DEF Leave, GetConversation, SetMember, Tell, OneStep, TypeOK, OneOwner,
       Active, HasRole, Row, MStatus, Departures
<1>5. CASE Close(g, a)
  BY <1>5 DEF Close, GetConversation, Tell, OneStep, TypeOK, OneOwner, Active, CStatus
<1>6. CASE Delete(g, a)
  BY <1>6 DEF Delete, GetConversation, Tell, OneStep, TypeOK, OneOwner, Active, CStatus
<1> QED
  BY <1>1, <1>2, <1>3, <1>4, <1>5, <1>6 DEF Manage, Promote, Demote

\* Such a step keeps the invariant.
LEMMA OneStepIInv ==
    ASSUME IInv, NEW g \in Groups, OneStep(g)
    PROVE  IInv'
<1> USE ConversationAssumption DEF IInv, OneStep
<1>1. TypeOK'
  BY DEF TypeOK
<1>2. \A h \in Groups : /\ Roster(h)' \in SUBSET Roster(h)
                        /\ h # g => Roster(h)' = Roster(h)
  BY DEF Roster, Active
<1>3. TxInv'
  <2> SUFFICES ASSUME NEW w \in Workers, tx[w] # Idle
               PROVE  CreateInv(w)' /\ AddInv(w)'
    BY DEF TxInv
  <2> QED
    BY <1>2, TxKept
<1>4. NoneInv'
  BY DEF NoneInv
<1>5. OneOwner'
  BY DEF OneOwner
<1>6. GroupWithinLimit'
  <2> SUFFICES ASSUME NEW h \in Groups PROVE Cardinality(Roster(h)') <= MemberLimit
    BY DEF GroupWithinLimit
  <2>1. Cardinality(Roster(h)') <= Cardinality(Roster(h))
    BY <1>2, RosterMembers, Smaller
  <2>2. Cardinality(Roster(h)) \in Nat /\ Cardinality(Roster(h)') \in Nat
    BY <1>2, RosterMembers, MembersFinite
  <2> QED
    BY <2>1, <2>2 DEF GroupWithinLimit
<1>7. EventsTellRoster'
  BY DEF EventsTellRoster, TypeOK
<1> QED
  BY <1>1, <1>3, <1>4, <1>5, <1>6, <1>7

-----------------------------------------------------------------------------
(* Steps of requests that take several.                                    *)

\* A request for a group has counted its members.
LEMMA BeginGroupIInv ==
    ASSUME IInv, NEW w \in Workers, NEW scope \in Scopes, NEW a \in Members,
           NEW T \in SUBSET Members, BeginGroup(w, scope, a, T)
    PROVE  IInv'
<1> USE ConversationAssumption DEF IInv, BeginGroup
<1>1. TypeOK'
  BY DEF TypeOK, Tx
<1>2. TxInv'
  <2> SUFFICES ASSUME NEW v \in Workers, tx'[v] # Idle
               PROVE  CreateInv(v)' /\ AddInv(v)'
    BY DEF TxInv
  <2>1. CASE v = w
    <3>1. tx'[v] = [op |-> "create", scope |-> scope, actor |-> a, added |-> T \ {a}]
      BY <2>1 DEF TypeOK
    <3>2. (T \ {a}) \union {a} = T \union {a}
      OBVIOUS
    <3>3. CreateInv(v)'
      BY <3>1, <3>2 DEF CreateInv
    <3>4. AddInv(v)'
      BY <3>1 DEF AddInv
    <3> QED
      BY <3>3, <3>4
  <2>2. CASE v # w
    <3>1. tx'[v] = tx[v]
      BY <2>2 DEF TypeOK
    <3> QED
      BY <3>1, TxKept DEF Roster, Active
  <2> QED
    BY <2>1, <2>2
<1>3. (NoneInv /\ OneOwner /\ GroupWithinLimit /\ EventsTellRoster)'
  BY DEF NoneInv, OneOwner, GroupWithinLimit, EventsTellRoster, Roster, Active
<1> QED
  BY <1>1, <1>2, <1>3

\* The new group has one owner and the members that were counted; no request adds to a
\* group that did not exist.
LEMMA CommitGroupIInv ==
    ASSUME IInv, NEW w \in Workers, NEW g \in Groups, CommitGroup(w, g)
    PROVE  IInv'
<1> USE ConversationAssumption DEF IInv, CommitGroup, Tell
<1>0. /\ tx[w].actor \in Members
      /\ tx[w].added \in SUBSET Members
      /\ Cardinality(tx[w].added \union {tx[w].actor}) <= MemberLimit
  BY DEF TypeOK, Tx, TxInv, CreateInv
<1>a. /\ conv'[g] = "ACTIVE"
      /\ member'[g] = [m \in Members |->
                    IF m = tx[w].actor THEN [status |-> "ACTIVE", role |-> "OWNER"]
                    ELSE IF m \in tx[w].added THEN [status |-> "ACTIVE", role |-> "MEMBER"]
                    ELSE NoRow]
      /\ told'[g] = [status |-> conv'[g], members |-> member'[g]]
  BY DEF TypeOK
<1>b. \A h \in Groups : h # g =>
          conv'[h] = conv[h] /\ member'[h] = member[h] /\ told'[h] = told[h]
  BY DEF TypeOK
<1>c. \A h \in Groups : h # g => Roster(h)' = Roster(h)
  BY <1>b DEF Roster, Active
<1>1. TypeOK'
  <2>1. member'[g] \in [Members -> Row \union {NoRow}]
    BY <1>a DEF Row, MStatus, Roles
  <2> QED
    BY <2>1, <1>a DEF TypeOK, CStatus
<1>2. TxInv'
  <2> SUFFICES ASSUME NEW v \in Workers, tx'[v] # Idle
               PROVE  CreateInv(v)' /\ AddInv(v)'
    BY DEF TxInv
  <2>1. tx'[v] = tx[v]
    BY DEF TypeOK
  <2> QED
    BY <2>1, <1>b, <1>c, TxKept
<1>3. NoneInv'
  BY <1>a, <1>b DEF NoneInv
<1>4. OneOwner'
  <2>1. \A m \in Members : member'[g][m] # NoRow /\ member'[g][m].role = "OWNER"
                           => m = tx[w].actor
    BY <1>a
  <2> QED
    BY <2>1, <1>b DEF OneOwner
<1>5. GroupWithinLimit'
  <2>1. \A m \in Members : Active(g, m)' <=> m \in tx[w].added \union {tx[w].actor}
    <3>1. [status |-> "ACTIVE", role |-> "OWNER"] \in Row
      BY DEF Row, MStatus, Roles
    <3>2. [status |-> "ACTIVE", role |-> "MEMBER"] \in Row
      BY DEF Row, MStatus, Roles
    <3> QED
      BY <3>1, <3>2, <1>0, <1>a DEF Active
  <2>2. Roster(g)' = tx[w].added \union {tx[w].actor}
    BY <2>1, <1>0 DEF Roster
  <2> QED
    BY <2>2, <1>0, <1>c DEF GroupWithinLimit
<1>6. EventsTellRoster'
  BY <1>a, <1>b DEF EventsTellRoster
<1> QED
  BY <1>1, <1>2, <1>3, <1>4, <1>5, <1>6

\* A request that adds has locked the group and counted its members.
LEMMA BeginAddIInv ==
    ASSUME IInv, NEW w \in Workers, NEW g \in Groups, NEW a \in Members,
           NEW T \in SUBSET Members, BeginAdd(w, g, a, T)
    PROVE  IInv'
<1> USE ConversationAssumption DEF IInv, BeginAdd
<1>0. Added(g, T) \in SUBSET Members
  BY DEF Added
<1>1. TypeOK'
  BY <1>0 DEF TypeOK, Tx
<1>2. TxInv'
  <2> SUFFICES ASSUME NEW v \in Workers, tx'[v] # Idle
               PROVE  CreateInv(v)' /\ AddInv(v)'
    BY DEF TxInv
  <2>r. \A h : Roster(h)' = Roster(h)
    BY DEF Roster, Active
  <2>1. CASE v = w
    <3>1. tx'[v] = [op |-> "add", group |-> g, added |-> Added(g, T)] /\ lock'[g] = v
      BY <2>1 DEF TypeOK
    <3>2. CreateInv(v)'
      BY <3>1 DEF CreateInv
    <3>3. Scope[g] = "WORKSPACE" => Added(g, T) \intersect Roster(g) = {}
      BY DEF Added
    <3>4. AddInv(v)'
      BY <3>1, <3>3, <2>r DEF AddInv, WithinLimit, GetConversation
    <3> QED
      BY <3>2, <3>4
  <2>2. CASE v # w
    <3>1. tx'[v] = tx[v]
      BY <2>2 DEF TypeOK
    <3>2. \A h \in Groups : lock[h] = v => lock'[h] = v
      BY DEF TypeOK, GetConversation
    <3> QED
      BY <3>1, <3>2, <2>r, TxKept
  <2> QED
    BY <2>1, <2>2
<1>3. (NoneInv /\ OneOwner /\ GroupWithinLimit /\ EventsTellRoster)'
  BY DEF NoneInv, OneOwner, GroupWithinLimit, EventsTellRoster, Roster, Active
<1> QED
  BY <1>1, <1>2, <1>3

\* Those who are added come in below the owner, and the group was locked since they
\* were counted.
LEMMA CommitAddIInv ==
    ASSUME IInv, NEW w \in Workers, NEW g \in Groups, CommitAdd(w, g)
    PROVE  IInv'
<1> USE ConversationAssumption DEF IInv, CommitAdd, Tell
<1>0. /\ tx[w].added \in SUBSET Members
      /\ lock[g] = w
      /\ conv[g] # "none"
      /\ Cardinality(Roster(g)) + Cardinality(tx[w].added) <= MemberLimit
  BY DEF TypeOK, Tx, TxInv, AddInv
<1>a. /\ conv' = conv
      /\ member'[g] = [m \in Members |->
                    IF m \in tx[w].added
                    THEN [status |-> "ACTIVE", role |-> "MEMBER"] ELSE member[g][m]]
      /\ told'[g] = [status |-> conv[g], members |-> member'[g]]
  BY DEF TypeOK
<1>b. \A h \in Groups : h # g =>
          member'[h] = member[h] /\ told'[h] = told[h] /\ lock'[h] = lock[h]
  BY DEF TypeOK
<1>c. \A h \in Groups : h # g => Roster(h)' = Roster(h)
  BY <1>b DEF Roster, Active
<1>d. [status |-> "ACTIVE", role |-> "MEMBER"] \in Row
  BY DEF Row, MStatus, Roles
<1>1. TypeOK'
  <2>1. member'[g] \in [Members -> Row \union {NoRow}]
    BY <1>a, <1>d DEF TypeOK
  <2> QED
    BY <2>1, <1>a DEF TypeOK
<1>2. TxInv'
  <2> SUFFICES ASSUME NEW v \in Workers, tx'[v] # Idle
               PROVE  CreateInv(v)' /\ AddInv(v)'
    BY DEF TxInv
  <2>1. tx'[v] = tx[v] /\ v # w
    BY DEF TypeOK
  <2> QED
    BY <2>1, <1>0, <1>a, <1>b, <1>c, TxKept
<1>3. NoneInv'
  BY <1>0, <1>a, <1>b DEF NoneInv
<1>4. OneOwner'
  <2>1. \A m \in Members : member'[g][m] # NoRow /\ member'[g][m].role = "OWNER"
                           => member'[g][m] = member[g][m]
    BY <1>a
  <2> QED
    BY <2>1, <1>b DEF OneOwner
<1>5. GroupWithinLimit'
  <2>1. \A m \in Members : Active(g, m)' <=> m \in Roster(g) \union tx[w].added
    BY <1>0, <1>a, <1>d DEF Active, Roster
  <2>2. Roster(g)' = Roster(g) \union tx[w].added
    BY <2>1, <1>0 DEF Roster
  <2>3. Cardinality(Roster(g) \union tx[w].added)
            <= Cardinality(Roster(g)) + Cardinality(tx[w].added)
    BY <1>0, RosterMembers, UnionBound
  <2>4. /\ Cardinality(Roster(g)) \in Nat /\ Cardinality(tx[w].added) \in Nat
        /\ Cardinality(Roster(g) \union tx[w].added) \in Nat
    BY <1>0, RosterMembers, MembersFinite
  <2>5. Cardinality(Roster(g) \union tx[w].added) <= MemberLimit
    BY <2>3, <2>4, <1>0
  <2> QED
    BY <2>2, <2>5, <1>c DEF GroupWithinLimit
<1>6. EventsTellRoster'
  BY <1>0, <1>a, <1>b DEF EventsTellRoster
<1> QED
  BY <1>1, <1>2, <1>3, <1>4, <1>5, <1>6

\* A request that gives up lets go of its own group only.
LEMMA AbortIInv ==
    ASSUME IInv, NEW w \in Workers, Abort(w)
    PROVE  IInv'
<1> USE ConversationAssumption DEF IInv, Abort
<1>1. TypeOK'
  BY DEF TypeOK
<1>2. TxInv'
  <2> SUFFICES ASSUME NEW v \in Workers, tx'[v] # Idle
               PROVE  CreateInv(v)' /\ AddInv(v)'
    BY DEF TxInv
  <2>1. tx'[v] = tx[v] /\ v # w
    BY DEF TypeOK
  <2>2. \A h \in Groups : lock[h] = v => lock'[h] = v
    BY <2>1 DEF TypeOK
  <2>3. \A h : Roster(h)' = Roster(h)
    BY DEF Roster, Active
  <2> QED
    BY <2>1, <2>2, <2>3, TxKept
<1>3. (NoneInv /\ OneOwner /\ GroupWithinLimit /\ EventsTellRoster)'
  BY DEF NoneInv, OneOwner, GroupWithinLimit, EventsTellRoster, Roster, Active
<1> QED
  BY <1>1, <1>2, <1>3

-----------------------------------------------------------------------------
(* The consumer.                                                           *)

\* What a membership event of m does to a group: nothing, or the membership of m ends.
EndedOrKept(g, m, s) ==
    \/ /\ member'[g] = member[g]
       /\ told'[g] = told[g]
    \/ /\ s \in Departures
       /\ Scope[g] = "WORKSPACE"
       /\ lock[g] = NoWorker
       /\ Active(g, m)
       /\ member'[g] = [member[g] EXCEPT ![m] = [status |-> s, role |-> member[g][m].role]]
       /\ told'[g] = [status |-> conv[g], members |-> member'[g]]

\* The consumer does just that.
LEMMA ConsumeRows ==
    ASSUME TypeOK, NEW m \in Members, NEW s \in Statuses, ConsumeMember(m, s),
           NEW g \in Groups
    PROVE  EndedOrKept(g, m, s)
<1>1. CASE s \in Departures /\ g \in Revoked(m)
  <2>1. /\ lock[g] = NoWorker /\ Scope[g] = "WORKSPACE" /\ Active(g, m)
        /\ member'[g] = [member[g] EXCEPT ![m].status = s]
        /\ told'[g] = [status |-> conv[g], members |-> member'[g]]
    BY <1>1 DEF ConsumeMember, Revoked
  <2>2. member[g] \in [Members -> Row \union {NoRow}] /\ member[g][m] \in Row
    BY <2>1 DEF TypeOK, Active
  <2>3. [member[g][m] EXCEPT !.status = s] = [status |-> s, role |-> member[g][m].role]
    BY <2>2 DEF Row
  <2>4. member'[g] = [member[g] EXCEPT ![m] = [status |-> s, role |-> member[g][m].role]]
    BY <2>1, <2>3
  <2> QED
    BY <1>1, <2>1, <2>4 DEF EndedOrKept
<1>2. CASE ~(s \in Departures /\ g \in Revoked(m))
  BY <1>2 DEF ConsumeMember, EndedOrKept
<1> QED
  BY <1>1, <1>2

\* Either way the rows of the group are rows, and none is new or has another role.
LEMMA EndedRows ==
    ASSUME TypeOK, NEW m \in Members, NEW s, NEW g \in Groups, EndedOrKept(g, m, s)
    PROVE  /\ member'[g] \in [Members -> Row \union {NoRow}]
           /\ told'[g] \in [status : CStatus, members : [Members -> Row \union {NoRow}]]
                           \union {NoEvent}
           /\ \A n \in Members :
                 \/ member'[g][n] = member[g][n]
                 \/ /\ lock[g] = NoWorker
                    /\ s \in Departures
                    /\ Active(g, n)
                    /\ member'[g][n] = [status |-> s, role |-> member[g][n].role]
<1>1. /\ member[g] \in [Members -> Row \union {NoRow}]
      /\ conv[g] \in CStatus
      /\ told[g] \in [status : CStatus, members : [Members -> Row \union {NoRow}]]
                     \union {NoEvent}
  BY DEF TypeOK
<1>2. CASE member'[g] = member[g] /\ told'[g] = told[g]
  BY <1>1, <1>2
<1>3. ASSUME s \in Departures, lock[g] = NoWorker, Active(g, m),
             member'[g] = [member[g] EXCEPT ![m] = [status |-> s, role |-> member[g][m].role]],
             told'[g] = [status |-> conv[g], members |-> member'[g]]
      PROVE  /\ member'[g] \in [Members -> Row \union {NoRow}]
             /\ told'[g] \in [status : CStatus, members : [Members -> Row \union {NoRow}]]
             /\ \A n \in Members :
                   \/ member'[g][n] = member[g][n]
                   \/ /\ Active(g, n)
                      /\ member'[g][n] = [status |-> s, role |-> member[g][n].role]
  <2>1. [status |-> s, role |-> member[g][m].role] \in Row
    BY <1>1, <1>3 DEF Active, Row, MStatus
  <2>2. member'[g] \in [Members -> Row \union {NoRow}]
    BY <2>1, <1>1, <1>3
  <2>3. \A n \in Members : n # m => member'[g][n] = member[g][n]
    BY <1>1, <1>3
  <2>4. member'[g][m] = [status |-> s, role |-> member[g][m].role]
    BY <1>1, <1>3
  <2> QED
    BY <2>2, <2>3, <2>4, <1>1, <1>3
<1> QED
  BY <1>2, <1>3 DEF EndedOrKept

\* A departure closes rows of groups that nobody is adding to, and tells of each.
LEMMA ConsumeIInv ==
    ASSUME IInv, NEW m \in Members, NEW s \in Statuses, ConsumeMember(m, s)
    PROVE  IInv'
<1> USE ConversationAssumption DEF IInv
<1>0. UNCHANGED <<conv, lock, tx>>
  BY DEF ConsumeMember
<1>r. \A g \in Groups : EndedOrKept(g, m, s)
  BY ConsumeRows
<1>e. \A g \in Groups :
          /\ member'[g] \in [Members -> Row \union {NoRow}]
          /\ told'[g] \in [status : CStatus, members : [Members -> Row \union {NoRow}]]
                          \union {NoEvent}
          /\ \A n \in Members :
                \/ member'[g][n] = member[g][n]
                \/ /\ lock[g] = NoWorker
                   /\ s \in Departures
                   /\ Active(g, n)
                   /\ member'[g][n] = [status |-> s, role |-> member[g][n].role]
  BY <1>r, EndedRows
<1>1. TypeOK'
  <2>1. member' \in [Groups -> [Members -> Row \union {NoRow}]]
    BY <1>e DEF ConsumeMember
  <2>2. told' \in [Groups -> [status : CStatus, members : [Members -> Row \union {NoRow}]]
                             \union {NoEvent}]
    BY <1>e DEF ConsumeMember
  <2>3. projection' \in [Members -> PStatus]
    BY DEF ConsumeMember, TypeOK
  <2> QED
    BY <1>0, <2>1, <2>2, <2>3 DEF TypeOK
<1>f. ASSUME NEW g \in Groups, NEW n \in Members
      PROVE  \/ member'[g][n] = member[g][n]
             \/ /\ member[g][n] # NoRow
                /\ member'[g][n].role = member[g][n].role
  <2>1. CASE member'[g][n] = [status |-> s, role |-> member[g][n].role] /\ Active(g, n)
    BY <2>1 DEF Active
  <2> QED
    BY <2>1, <1>e
<1>b. \A g \in Groups : /\ Roster(g)' \in SUBSET Roster(g)
                        /\ lock[g] # NoWorker => Roster(g)' = Roster(g)
  <2>1. \A g \in Groups, n \in Members :
            /\ Active(g, n)' => Active(g, n)
            /\ lock[g] # NoWorker => (Active(g, n)' <=> Active(g, n))
    BY <1>e DEF Active
  <2> QED
    BY <2>1 DEF Roster
<1>2. TxInv'
  <2> SUFFICES ASSUME NEW v \in Workers, tx'[v] # Idle
               PROVE  CreateInv(v)' /\ AddInv(v)'
    BY DEF TxInv
  <2> QED
    BY <1>0, <1>b, TxKept
<1>3. NoneInv'
  BY <1>0, <1>f DEF NoneInv
<1>4. OneOwner'
  <2>1. \A g \in Groups, n \in Members :
            member'[g][n] # NoRow /\ member'[g][n].role = "OWNER" =>
                member[g][n] # NoRow /\ member[g][n].role = "OWNER"
    BY <1>f
  <2> QED
    BY <2>1 DEF OneOwner
<1>5. GroupWithinLimit'
  <2> SUFFICES ASSUME NEW g \in Groups PROVE Cardinality(Roster(g)') <= MemberLimit
    BY DEF GroupWithinLimit
  <2>1. Cardinality(Roster(g)') <= Cardinality(Roster(g))
    BY <1>b, RosterMembers, Smaller
  <2>2. Cardinality(Roster(g)) \in Nat /\ Cardinality(Roster(g)') \in Nat
    BY <1>b, RosterMembers, MembersFinite
  <2> QED
    BY <2>1, <2>2 DEF GroupWithinLimit
<1>6. EventsTellRoster'
  BY <1>0, <1>r DEF EndedOrKept, EventsTellRoster, NoneInv, Active
<1> QED
  BY <1>1, <1>2, <1>3, <1>4, <1>5, <1>6

-----------------------------------------------------------------------------
(* Theorems.                                                               *)

\* Before any request there are no groups and no rows.
LEMMA InitIInv == Init => IInv
<1> SUFFICES ASSUME Init PROVE IInv
  OBVIOUS
<1> USE ConversationAssumption DEF Init
<1>1. TypeOK
  BY DEF TypeOK, CStatus, PStatus
<1>2. GroupWithinLimit
  <2> SUFFICES ASSUME NEW g \in Groups PROVE Cardinality(Roster(g)) <= MemberLimit
    BY DEF GroupWithinLimit
  <2>1. Roster(g) = {}
    BY DEF Roster, Active
  <2> QED
    BY <2>1, FS_EmptySet
<1>3. TxInv /\ NoneInv /\ OneOwner /\ EventsTellRoster
  BY DEF TxInv, NoneInv, OneOwner, EventsTellRoster
<1> QED
  BY <1>1, <1>2, <1>3 DEF IInv

\* Every step keeps the invariant.
LEMMA StepIInv == IInv /\ [Next]_vars => IInv'
<1> SUFFICES ASSUME IInv, [Next]_vars PROVE IInv'
  OBVIOUS
<1>1. ASSUME NEW w \in Workers, Create(w) PROVE IInv'
  BY <1>1, BeginGroupIInv, CommitGroupIInv DEF Create
<1>2. ASSUME NEW w \in Workers, Add(w) PROVE IInv'
  BY <1>2, BeginAddIInv, CommitAddIInv DEF Add
<1>3. ASSUME NEW w \in Workers, Abort(w) PROVE IInv'
  BY <1>3, AbortIInv
<1>4. ASSUME NEW g \in Groups, NEW a \in Members, Manage(g, a) PROVE IInv'
  <2>1. OneStep(g)
    BY <1>4, ManageOneStep DEF IInv
  <2> QED
    BY <2>1, OneStepIInv
<1>5. ASSUME NEW m \in Members, NEW s \in Statuses, ConsumeMember(m, s) PROVE IInv'
  BY <1>5, ConsumeIInv
<1>6. CASE UNCHANGED vars
  <2> USE <1>6 DEF vars, IInv
  <2>1. TxInv'
    <3> SUFFICES ASSUME NEW v \in Workers, tx'[v] # Idle
                 PROVE  CreateInv(v)' /\ AddInv(v)'
      BY DEF TxInv
    <3> QED
      BY TxKept DEF Roster, Active
  <2>2. TypeOK'
    BY DEF TypeOK
  <2>3. (NoneInv /\ OneOwner /\ GroupWithinLimit /\ EventsTellRoster)'
    BY DEF NoneInv, OneOwner, GroupWithinLimit, EventsTellRoster, Roster, Active
  <2> QED
    BY <2>1, <2>2, <2>3
<1> QED
  BY <1>1, <1>2, <1>3, <1>4, <1>5, <1>6 DEF Next

\* What requests in flight know of a group, and with it all invariants of Conversation,
\* hold in every reachable state.
THEOREM Inductive == Spec => []IInv
<1> QED
  BY InitIInv, StepIInv, PTL DEF Spec

\* The tables and requests stay well-typed.
THEOREM TypeCorrect == Spec => []TypeOK
<1>1. IInv => TypeOK
  BY DEF IInv
<1> QED
  BY <1>1, Inductive, PTL

\* No two members have the role OWNER in one group.
THEOREM SingleOwner == Spec => []OneOwner
<1>1. IInv => OneOwner
  BY DEF IInv
<1> QED
  BY <1>1, Inductive, PTL

\* No number of concurrent requests takes a group past the limit.
THEOREM LimitKept == Spec => []GroupWithinLimit
<1>1. IInv => GroupWithinLimit
  BY DEF IInv
<1> QED
  BY <1>1, Inductive, PTL

\* The last event of a group is the state of its tables.
THEOREM EventsCurrent == Spec => []EventsTellRoster
<1>1. IInv => EventsTellRoster
  BY DEF IInv
<1> QED
  BY <1>1, Inductive, PTL

\* Only these steps change the row of an active member of a workspace group: the
\* handlers on it, and a departure.
LEMMA RowSteps ==
    ASSUME IInv, [Next]_vars, NEW g \in Groups, NEW m \in Members,
           Scope[g] = "WORKSPACE", Active(g, m), member'[g][m] # member[g][m]
    PROVE  \/ \E a \in Members : Manage(g, a)
           \/ \E s \in Departures : ConsumeMember(m, s)
<1>1. ASSUME NEW w \in Workers, Create(w) PROVE FALSE
  <2>1. ASSUME NEW h \in Groups, CommitGroup(w, h) PROVE FALSE
    BY <2>1 DEF CommitGroup, IInv, NoneInv, TypeOK, Active
  <2> QED
    BY <1>1, <2>1 DEF Create, BeginGroup
<1>2. ASSUME NEW w \in Workers, Add(w) PROVE FALSE
  <2>1. ASSUME NEW h \in Groups, CommitAdd(w, h) PROVE FALSE
    <3>1. h = g /\ m \in tx[w].added
      BY <2>1 DEF CommitAdd, IInv, TypeOK
    <3>2. m \in Roster(g)
      BY DEF Roster
    <3>3. tx[w].added \intersect Roster(g) = {}
      BY <2>1, <3>1 DEF CommitAdd, IInv, TxInv, AddInv
    <3> QED
      BY <3>1, <3>2, <3>3
  <2> QED
    BY <1>2, <2>1 DEF Add, BeginAdd
<1>3. ASSUME NEW w \in Workers, Abort(w) PROVE FALSE
  BY <1>3 DEF Abort
<1>4. ASSUME NEW h \in Groups, NEW a \in Members, Manage(h, a) PROVE h = g
  BY <1>4, ManageOneStep DEF IInv, OneStep
<1>5. ASSUME NEW n \in Members, NEW s \in Statuses, ConsumeMember(n, s)
      PROVE  n = m /\ s \in Departures
  <2>1. EndedOrKept(g, n, s)
    BY <1>5, ConsumeRows DEF IInv
  <2> QED
    BY <2>1 DEF EndedOrKept, IInv, TypeOK
<1>6. ~UNCHANGED vars
  BY DEF vars
<1> QED
  BY <1>1, <1>2, <1>3, <1>4, <1>5, <1>6 DEF Next

\* A departure reaches the projection with the rows it ends.
LEMMA DepartureProjected ==
    ASSUME TypeOK, NEW m \in Members, NEW s \in Departures, ConsumeMember(m, s)
    PROVE  projection'[m] \in Departures
BY DEF ConsumeMember, TypeOK

\* A workspace group loses its owner to a transfer or to his departure only.
THEOREM OwnerStays == Spec => OwnerKept
<1>1. ASSUME IInv, [Next]_vars PROVE OwnerSteps("WORKSPACE")
  <2> SUFFICES ASSUME NEW g \in Groups, NEW m \in Members, Scope[g] = "WORKSPACE",
                      Owns(g, m), ~Owns(g, m)'
               PROVE  \/ \E n \in Members : n # m /\ Owns(g, n)'
                      \/ projection'[m] \in Departures
    BY DEF OwnerSteps
  <2>1. Active(g, m) /\ member[g][m].role = "OWNER" /\ member'[g][m] # member[g][m]
    BY DEF Owns, HasRole, Active
  <2>2. ASSUME NEW a \in Members, Manage(g, a) PROVE \E n \in Members : n # m /\ Owns(g, n)'
    <3>1. ASSUME NEW t \in Members, Transfer(g, a, t)
          PROVE  \E n \in Members : n # m /\ Owns(g, n)'
      <4>1. Owns(g, a) /\ Active(g, t)
        BY <3>1 DEF Transfer
      <4>2. a = m
        BY <1>1, <2>1, <4>1 DEF Owns, HasRole, Active, IInv, OneOwner
      <4>3. /\ member[g][m] \in Row /\ member[g][t] \in Row
            /\ member[g] \in [Members -> Row \union {NoRow}]
            /\ g \in DOMAIN member
        BY <1>1, <2>1, <4>1 DEF Active, IInv, TypeOK
      <4>4. t # m
        <5>1. ASSUME t = m PROVE member'[g][m] = member[g][m]
          <6>1. member'[g][m] = [member[g][m] EXCEPT !.role = "OWNER"]
            BY <3>1, <4>2, <4>3, <5>1 DEF Transfer, Row
          <6> QED
            BY <6>1, <2>1, <4>3 DEF Row
        <5> QED
          BY <5>1, <2>1
      <4>5. member'[g][t] = [member[g][t] EXCEPT !.role = "OWNER"]
        BY <3>1, <4>2, <4>3, <4>4 DEF Transfer
      <4>6. member'[g][t] \in Row /\ member'[g][t].role = "OWNER"
            /\ member'[g][t].status = "ACTIVE"
        BY <4>1, <4>3, <4>5 DEF Active, Row, Roles
      <4>7. Owns(g, t)'
        BY <4>6, ConversationAssumption DEF Owns, HasRole, Active
      <4> QED
        BY <4>4, <4>7
    <3>2. ASSUME NEW t \in Members, Remove(g, a, t) PROVE FALSE
      BY <1>1, <2>1, <3>2 DEF Remove, SetMember, HasRole, Active, IInv, TypeOK
    <3>3. ASSUME NEW t \in Members, NEW r, ChangeRole(g, a, t, r) PROVE FALSE
      BY <1>1, <2>1, <3>3 DEF ChangeRole, SetMember, HasRole, Active, IInv, TypeOK
    <3>4. ASSUME Leave(g, a) PROVE FALSE
      <4>1. a = m
        BY <1>1, <2>1, <3>4 DEF Leave, SetMember, IInv, TypeOK
      <4> QED
        BY <2>1, <3>4, <4>1 DEF Leave, HasRole
    <3>5. ~Close(g, a) /\ ~Delete(g, a)
      BY <2>1 DEF Close, Delete
    <3> QED
      BY <2>2, <3>1, <3>2, <3>3, <3>4, <3>5 DEF Manage, Promote, Demote
  <2> QED
    BY <1>1, <2>1, <2>2, RowSteps, DepartureProjected DEF IInv
<1> QED
  BY <1>1, Inductive, PTL DEF Spec, OwnerKept

\* Colleagues take the role of an admin of a workspace group only under an owner.
THEOREM AdminsSafe == Spec => AdminsAnswerToOwner
<1> DEFINE Safe ==
      \A g \in Groups, m \in Members :
         Scope[g] = "WORKSPACE" /\ HasRole(g, m, "ADMIN") /\ ~HasRole(g, m, "ADMIN")' =>
            \/ Owns(g, m)'
            \/ member'[g][m].status = "LEFT"
            \/ projection'[m] \in Departures
            \/ \E n \in Members : Owns(g, n)
<1>1. ASSUME IInv, [Next]_vars PROVE Safe
  <2> SUFFICES ASSUME NEW g \in Groups, NEW m \in Members, Scope[g] = "WORKSPACE",
                      HasRole(g, m, "ADMIN"), ~HasRole(g, m, "ADMIN")',
                      \A n \in Members : ~Owns(g, n)
               PROVE  \/ member'[g][m].status = "LEFT"
                      \/ projection'[m] \in Departures
    OBVIOUS
  <2>1. Active(g, m) /\ member'[g][m] # member[g][m]
    BY DEF HasRole, Active
  <2>2. ASSUME NEW a \in Members, Manage(g, a) PROVE member'[g][m].status = "LEFT"
    <3>1. ASSUME NEW t \in Members, Remove(g, a, t) PROVE FALSE
      <4>1. HasRole(g, a, "ADMIN")
        BY <3>1 DEF Remove, Manages, Owns
      <4>2. t = m
        BY <1>1, <2>1, <3>1 DEF Remove, SetMember, IInv, TypeOK
      <4> QED
        BY <3>1, <4>1, <4>2 DEF Remove
    <3>2. ~\E t \in Members : Promote(g, a, t) \/ Demote(g, a, t) \/ Transfer(g, a, t)
      BY DEF Promote, Demote, ChangeRole, Transfer
    <3>3. ~Close(g, a) /\ ~Delete(g, a)
      BY <2>1 DEF Close, Delete
    <3>4. Leave(g, a)
      BY <2>2, <3>1, <3>2, <3>3 DEF Manage
    <3> QED
      BY <1>1, <2>1, <3>4 DEF Leave, SetMember, IInv, TypeOK
  <2> QED
    BY <1>1, <2>1, <2>2, RowSteps, DepartureProjected DEF IInv
<1> QED
  BY <1>1, Inductive, PTL DEF Spec, AdminsAnswerToOwner
=============================================================================
