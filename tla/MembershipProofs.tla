-------------------------- MODULE MembershipProofs --------------------------
(***************************************************************************)
(* Removals and role changes keep an owner, for any accounts and roles.    *)
(***************************************************************************)
EXTENDS Membership, FiniteSetTheorems, TLAPS

\* Every step of membership administration and of an erasure is well typed.
LEMMA MemberStep == MemberTypeOK /\ [MemberNext]_memberVars => MemberTypeOK'
<1> SUFFICES ASSUME MemberTypeOK, [MemberNext]_memberVars PROVE MemberTypeOK'
    OBVIOUS
<1>1. CASE \E actor \in Administrators, u \in User : RemoveMember(actor, u)
    BY <1>1 DEF MemberTypeOK, RemoveMember
<1>2. CASE \E actor \in Administrators, u \in User, new \in Role :
               ChangeMemberRole(actor, u, new)
    BY <1>2 DEF MemberTypeOK, ChangeMemberRole
<1>3. ASSUME NEW u \in User, NEW new \in Role, Invite(u, new)
      PROVE  MemberTypeOK'
    BY <1>3 DEF MemberTypeOK, Invite
<1>4. ASSUME NEW u \in User, NEW new \in Role, AcceptInvitation(u, new)
      PROVE  MemberTypeOK'
    <2>1. PICK more \in SUBSET {new} : invite' = [invite EXCEPT ![u] = (@ \ {new}) \cup more]
        BY <1>4 DEF AcceptInvitation
    <2>2. new # "OWNER"
        BY <1>4 DEF MemberTypeOK, AcceptInvitation
    <2>3. invite' \in [User -> SUBSET (Role \ {"OWNER"})]
        BY <2>1, <2>2 DEF MemberTypeOK
    <2> QED BY <1>4, <2>3 DEF MemberTypeOK, AcceptInvitation
<1>5. CASE \E u \in User : EraseCheck(u)
    BY <1>5 DEF MemberTypeOK, EraseCheck
<1>6. ASSUME NEW u \in User, EraseMember(u)
      PROVE  MemberTypeOK'
    <2>1. invite' \in [User -> SUBSET (Role \ {"OWNER"})]
        BY <1>6 DEF MemberTypeOK, EraseMember, WithdrawInvitations
    <2> QED BY <1>6, <2>1 DEF MemberTypeOK, EraseMember
<1>7. CASE ClaimMember
    <2>1. invite' \in [User -> SUBSET (Role \ {"OWNER"})]
        BY <1>7 DEF MemberTypeOK, ClaimMember, WithdrawInvitations
    <2> QED BY <1>7, <2>1 DEF MemberTypeOK, ClaimMember
<1>8. CASE UNCHANGED memberVars
    BY <1>8 DEF MemberTypeOK, memberVars
<1> QED
    BY <1>1, <1>2, <1>3, <1>4, <1>5, <1>6, <1>7, <1>8 DEF MemberNext

\* Roles, invitations and erasures are well typed, and an erased account
\* has no role left, whatever administrators do at the same time.
THEOREM MemberTypeCorrect == MemberSpec => []MemberTypeOK
<1>1. MemberInit => MemberTypeOK
    BY DEF MemberInit, MemberTypeOK
<1> QED BY <1>1, MemberStep, PTL DEF MemberSpec

\* The one owner of an organization is its last owner.
LEMMA SoleOwnerIsLast ==
    ASSUME NEW u, Owners = {u} PROVE IsLastOwner(u)
<1>1. role[u] = "OWNER"
    BY DEF Owners
<1>2. Cardinality(Owners) = 1
    BY FS_Singleton
<1> QED BY <1>1, <1>2 DEF IsLastOwner

\* removeMember and changeMemberRole never take the last owner away; only
\* the erasure transaction of gdpr.ts, which does not repeat its check, can.
THEOREM OwnerLoss == MemberSpec => OwnerLostOnlyByErasure
<1>1. MemberTypeOK /\ [MemberNext]_memberVars =>
         (Owners # {} /\ Owners' = {} => \E u \in erasing \cap Owners : gone' = gone \cup {u})
    <2> SUFFICES ASSUME MemberTypeOK, [MemberNext]_memberVars, Owners # {}, Owners' = {}
                 PROVE  \E u \in erasing \cap Owners : gone' = gone \cup {u}
        OBVIOUS
    <2>1. role' # role
        BY DEF Owners
    <2>2. ASSUME NEW u \in User, \A v \in User : v # u => role'[v] = role[v]
          PROVE  Owners = {u}
        BY <2>2 DEF Owners
    <2>3. CASE \E actor \in Administrators, u \in User : RemoveMember(actor, u)
        <3> PICK actor \in Administrators, u \in User : RemoveMember(actor, u)
            BY <2>3
        <3>1. Owners = {u}
            BY <2>2 DEF RemoveMember, MemberTypeOK
        <3> QED BY <3>1, SoleOwnerIsLast DEF RemoveMember
    <2>4. CASE \E actor \in Administrators, u \in User, new \in Role :
                   ChangeMemberRole(actor, u, new)
        <3> PICK actor \in Administrators, u \in User, new \in Role :
                   ChangeMemberRole(actor, u, new)
            BY <2>4
        <3>1. Owners = {u}
            BY <2>2 DEF ChangeMemberRole, MemberTypeOK
        <3>2. new = "OWNER"
            BY <3>1, SoleOwnerIsLast DEF ChangeMemberRole
        <3>3. role'[u] = "OWNER"
            BY <3>2 DEF ChangeMemberRole, MemberTypeOK
        <3> QED BY <3>3 DEF Owners
    <2>5. CASE \E u \in User, new \in Role : AcceptInvitation(u, new)
        <3> PICK u \in User, new \in Role : AcceptInvitation(u, new)
            BY <2>5
        <3>1. Owners = {u} /\ role[u] = None
            BY <2>2 DEF AcceptInvitation, MemberTypeOK
        <3> QED BY <3>1, MembershipAssumption DEF Owners
    <2>6. CASE \E u \in User : EraseMember(u)
        <3> PICK u \in User : EraseMember(u)
            BY <2>6
        <3>1. Owners = {u}
            BY <2>2 DEF EraseMember, MemberTypeOK
        <3> QED BY <3>1 DEF EraseMember
    <2> QED
        BY <2>1, <2>3, <2>4, <2>5, <2>6 DEF MemberNext, Invite, EraseCheck, ClaimMember, memberVars
<1> QED BY MemberTypeCorrect, <1>1, PTL DEF MemberSpec, OwnerLostOnlyByErasure

=============================================================================
