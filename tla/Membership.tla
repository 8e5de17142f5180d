----------------------------- MODULE Membership -----------------------------
(***************************************************************************)
(* The members of one organization: invitations, role changes and removals *)
(* (services/membership-admin.ts, services/invitations.ts and the routes   *)
(* of routes/organizations.ts) and the erasure of a member's account       *)
(* (routes/gdpr.ts), whose sole-owner check runs before its transaction.   *)
(*                                                                         *)
(* The actor of an administrative request is the role in the bearer token, *)
(* which need not be the caller's current one: any administrator role may  *)
(* act.  Any number of invitations of one user may be open; who sent which *)
(* is not kept, so where a sender's invitations are deleted any may go.    *)
(***************************************************************************)
EXTENDS Naturals, FiniteSets

CONSTANTS
    User,  \* accounts
    Role,  \* the membership roles in use
    None   \* an absent value

\* ROLE_HIERARCHY, lowest first.
Rank == [VIEWER |-> 1, MEMBER |-> 2, MANAGER |-> 3, ADMIN |-> 4, OWNER |-> 5]
Administrators == {"OWNER", "ADMIN"} \cap Role

ASSUME MembershipAssumption ==
    /\ "OWNER" \in Role
    /\ Role \subseteq DOMAIN Rank
    /\ None \notin Role

VARIABLES
    role,     \* a user's role in the organization, or None
    invite,   \* the roles a user has open invitations for
    erasing,  \* users whose erasure has passed the sole-owner check
    gone      \* users whose account has been erased

memberVars == <<role, invite, erasing, gone>>

MemberTypeOK ==
    /\ role \in [User -> Role \cup {None}]
    /\ invite \in [User -> SUBSET (Role \ {"OWNER"})]
    /\ erasing \in SUBSET User
    /\ gone \in SUBSET User
    /\ \A u \in gone : role[u] = None /\ u \notin erasing

MemberInit ==
    /\ role \in [User -> Role \cup {None}]
    /\ \E u \in User : role[u] = "OWNER"
    /\ invite = [u \in User |-> {}]
    /\ erasing = {}
    /\ gone = {}

-----------------------------------------------------------------------------

Owners == {u \in User : role[u] = "OWNER"}

CanManageMember(actor, target) == actor = "OWNER" \/ Rank[actor] > Rank[target]
CanGrantRole(actor, new) == actor = "OWNER" \/ Rank[actor] >= Rank[new]

LastOwnerNever(u) == role[u] = "OWNER" /\ Owners = {}  \* mutant
IsLastOwner(u) == role[u] = "OWNER" /\ Cardinality(Owners) <= 1

\* removeMember: checks and removal in one serializable transaction.
RemoveMember(actor, u) ==
    /\ role[u] # None
    /\ CanManageMember(actor, role[u])
    /\ ~IsLastOwner(u)
    /\ role' = [role EXCEPT ![u] = None]
    /\ UNCHANGED <<invite, erasing, gone>>

\* changeMemberRole, likewise.
ChangeMemberRole(actor, u, new) ==
    /\ role[u] \notin {None, new}
    /\ CanManageMember(actor, role[u])
    /\ CanGrantRole(actor, new)
    /\ ~(IsLastOwner(u) /\ new # "OWNER")
    /\ role' = [role EXCEPT ![u] = new]
    /\ UNCHANGED <<invite, erasing, gone>>

\* POST /:id/invitations: nobody is invited as an OWNER.
Invite(u, new) ==
    /\ role[u] = None
    /\ u \notin gone
    /\ new # "OWNER"
    /\ invite' = [invite EXCEPT ![u] = @ \cup {new}]
    /\ UNCHANGED <<role, erasing, gone>>

\* acceptInvitation: the membership and the used invitation commit together;
\* more invitations with that role may be open.
AcceptInvitation(u, new) ==
    /\ role[u] = None
    /\ u \notin gone
    /\ new \in invite[u]
    /\ role' = [role EXCEPT ![u] = new]
    /\ \E more \in SUBSET {new} : invite' = [invite EXCEPT ![u] = (@ \ {new}) \cup more]
    /\ UNCHANGED <<erasing, gone>>

\* The open invitations an account sent are deleted when it is erased or
\* claimed.
WithdrawInvitations ==
    /\ invite' \in [User -> SUBSET Role]
    /\ \A v \in User : invite'[v] \subseteq invite[v]

\* claimUnverifiedAccount, of any account.
ClaimMember == WithdrawInvitations /\ UNCHANGED <<role, erasing, gone>>

\* DELETE /delete-account, the sole-owner check.
EraseCheck(u) ==
    /\ u \notin gone \cup erasing
    /\ ~IsLastOwner(u)
    /\ erasing' = erasing \cup {u}
    /\ UNCHANGED <<role, invite, gone>>

\* DELETE /delete-account, the transaction: the check is not repeated.
EraseMember(u) ==
    /\ u \in erasing
    /\ role' = [role EXCEPT ![u] = None]
    /\ WithdrawInvitations
    /\ erasing' = erasing \ {u}
    /\ gone' = gone \cup {u}

MemberNext ==
    \/ \E actor \in Administrators, u \in User : RemoveMember(actor, u)
    \/ \E actor \in Administrators, u \in User, new \in Role : ChangeMemberRole(actor, u, new)
    \/ \E u \in User, new \in Role : Invite(u, new) \/ AcceptInvitation(u, new)
    \/ \E u \in User : EraseCheck(u) \/ EraseMember(u)
    \/ ClaimMember

MemberSpec == MemberInit /\ [][MemberNext]_memberVars

-----------------------------------------------------------------------------
(* Properties *)

\* Removals and role changes, in whatever order administrators make them,
\* never take the last owner away: the step after which the organization has
\* no owner is the erasure of an owner whose check had passed earlier.
OwnerLostOnlyByErasure ==
    [][Owners # {} /\ Owners' = {} =>
          \E u \in erasing \cap Owners : gone' = gone \cup {u}]_memberVars

=============================================================================
