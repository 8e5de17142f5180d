---------------------------- MODULE CliExchange ----------------------------
(***************************************************************************)
(* The CLI sign-in: an APPROVED session of the qrauth-cli app is exchanged *)
(* for one API key (AuthSessionService.exchangeForApiKey), while members   *)
(* are removed or change role and accounts are claimed or erased.  The     *)
(* module composes AuthSession and Membership, whose steps interleave with *)
(* the exchange at every await, and adds the CLI keys of api_keys.         *)
(*                                                                         *)
(* One organization is modelled: a CLI approval needs the approver's sole  *)
(* membership, so targetOrganizationId is that organization.  A key is     *)
(* named by the session it was minted from.                                *)
(***************************************************************************)
EXTENDS AuthSession

CONSTANTS
    Role,  \* the membership roles in use
    Xreq   \* concurrently running exchange requests

ASSUME CliAssumption ==
    None \notin Role \cup [user : User, role : Role, live : BOOLEAN]

VARIABLES
    role, invite, erasing,  \* Membership
    key,    \* the CLI key minted from a session, or None
    xreq,   \* what each exchange request does next and remembers
    mints,  \* history: keys minted per session
    voided, \* history: sessions whose approver claimed the account afterwards
    raced   \* history: sessions whose approver's membership changed between
            \* the exchange's membership read and its transaction

keyVars == <<key, xreq, mints, voided, raced>>
allVars == <<vars, role, invite, erasing, keyVars>>

M == INSTANCE Membership

Key  == [user : User, role : Role, live : BOOLEAN]
Exchange == [pc : {"idle", "member_read", "mint"}, s : Session \cup {None},
             user : User \cup {None}, role : Role \cup {None}]

IdleX == [pc |-> "idle", s |-> None, user |-> None, role |-> None]

CliTypeOK ==
    /\ TypeOK
    /\ M!MemberTypeOK
    /\ key \in [Session -> Key \cup {None}]
    /\ xreq \in [Xreq -> Exchange]
    /\ \A x \in Xreq : xreq[x].pc # "idle" => xreq[x].s \in CliSession /\ xreq[x].user \in User
    /\ \A x \in Xreq : xreq[x].pc = "mint" => xreq[x].role \in Role
    /\ mints \in [Session -> 0..MaxCount]
    /\ voided \in SUBSET Session
    /\ raced \in SUBSET Session

CliInit ==
    /\ Init
    /\ M!MemberInit
    /\ key = [s \in Session |-> None]
    /\ xreq = [x \in Xreq |-> IdleX]
    /\ mints = [s \in Session |-> 0]
    /\ voided = {}
    /\ raced = {}

-----------------------------------------------------------------------------
(* POST /auth-sessions/:id/exchange *)

\* The session is read once; an answer other than an approved, resolved and
\* unexchanged CLI session ends the request.
ExchangeRead(x, s) ==
    /\ xreq[x].pc = "idle"
    /\ s \in CliSession
    /\ row[s].status = "APPROVED"
    /\ ~row[s].exchanged
    /\ row[s].user # None
    /\ xreq' = [xreq EXCEPT ![x] = [IdleX EXCEPT !.pc = "member_read", !.s = s,
                                                !.user = row[s].user]]
    /\ UNCHANGED <<vars, role, invite, erasing, key, mints, voided, raced>>

\* The approver's current membership, read outside the transaction.
ExchangeMember(x) ==
    LET m == role[xreq[x].user] IN
    /\ xreq[x].pc = "member_read"
    /\ xreq' = [xreq EXCEPT ![x] = IF m = None THEN IdleX
                                   ELSE [@ EXCEPT !.pc = "mint", !.role = m]]
    /\ UNCHANGED <<vars, role, invite, erasing, key, mints, voided, raced>>

\* The WHERE clause of the single-use claim.
ClaimableApproved(s) == row[s].status = "APPROVED"  \* mutant
ClaimableUnused(s) == Exists(s) /\ ~row[s].exchanged  \* mutant
Claimable(s) == row[s].status = "APPROVED" /\ ~row[s].exchanged

\* The key is minted for the approver and with the role read before.
MintedForAnyone(x) ==  \* mutant
    [user |-> CHOOSE u \in User : u # xreq[x].user, role |-> xreq[x].role, live |-> TRUE]
Minted(x) == [user |-> xreq[x].user, role |-> xreq[x].role, live |-> TRUE]

\* The transaction: claim the session, mint the key.
ExchangeMint(x) ==
    LET s == xreq[x].s IN
    /\ xreq[x].pc = "mint"
    /\ IF Claimable(s)
       THEN /\ row' = [row EXCEPT ![s].exchanged = TRUE]
            /\ key' = [key EXCEPT ![s] = Minted(x)]
            /\ mints' = [mints EXCEPT ![s] = Count(@)]
       ELSE UNCHANGED <<row, key, mints>>
    /\ xreq' = [xreq EXCEPT ![x] = IdleX]
    /\ UNCHANGED <<past, claimed, gone, req, approvals, reopened, role, invite, erasing,
                   voided, raced>>

-----------------------------------------------------------------------------
(* Membership administration and account lifecycle *)

\* revokeCliKeysForMember
NothingRevoked(u) == key  \* mutant
Revoked(u) ==
    [s \in Session |-> IF key[s] # None /\ key[s].user = u
                       THEN [key[s] EXCEPT !.live = FALSE] ELSE key[s]]

\* The sessions whose exchange has read u's membership and not yet minted.
Minting(u) == {s \in Session : \E x \in Xreq : xreq[x].pc = "mint" /\ xreq[x].s = s
                                                                   /\ xreq[x].user = u}

\* removeMember and changeMemberRole revoke the member's CLI keys in the
\* same transaction.
CliMemberChange(u) ==
    /\ \E actor \in M!Administrators :
          \/ M!RemoveMember(actor, u)
          \/ \E new \in Role : M!ChangeMemberRole(actor, u, new)
    /\ key' = Revoked(u)
    /\ raced' = raced \cup Minting(u)
    /\ UNCHANGED <<row, past, claimed, req, approvals, reopened, xreq, mints, voided>>

CliMemberJoin(u) ==
    /\ \E new \in Role : M!Invite(u, new) \/ M!AcceptInvitation(u, new)
    /\ UNCHANGED <<row, past, claimed, req, approvals, reopened, keyVars>>

\* claimUnverifiedAccount also revokes the keys the account created and
\* withdraws the invitations it sent.
CliClaimAccount(u) ==
    /\ ClaimAccount(u)
    /\ M!ClaimMember
    /\ key' = Revoked(u)
    /\ voided' = voided \cup {s \in Session : row[s].user = u}
    /\ UNCHANGED <<xreq, mints, raced>>

\* Erasure removes the memberships; the key rows stay.
CliErase(u) ==
    \/ /\ M!EraseCheck(u)
       /\ UNCHANGED <<row, past, claimed, req, approvals, reopened, keyVars>>
    \/ /\ M!EraseMember(u)
       /\ EraseUser(u)
       /\ UNCHANGED keyVars

\* A CLI approval needs the approver's membership (resolveSoleCliMembership).
CliApproveOpen(r, s, u) ==
    /\ s \in CliSession => role[u] # None
    /\ ApproveOpen(r, s, u)
    /\ UNCHANGED <<role, invite, erasing, keyVars>>

SessionNext ==
    /\ \/ \E s \in Session : Create(s) \/ Elapse(s) \/ Cleanup(s)
       \/ \E r \in Req, s \in Session : Poll(r, s) \/ ScanOpen(r, s) \/ DenyOpen(r, s)
       \/ \E r \in Req : RequestStep(r) \/ RequestFails(r)
    /\ UNCHANGED <<role, invite, erasing, keyVars>>

CliNext ==
    \/ SessionNext
    \/ \E r \in Req, s \in Session, u \in User : CliApproveOpen(r, s, u)
    \/ \E u \in User : \/ CliMemberChange(u) \/ CliMemberJoin(u)
                       \/ CliClaimAccount(u) \/ CliErase(u)
    \/ \E x \in Xreq, s \in Session : ExchangeRead(x, s)
    \/ \E x \in Xreq : ExchangeMember(x) \/ ExchangeMint(x)

CliSpec == CliInit /\ [][CliNext]_allVars

-----------------------------------------------------------------------------
(* Properties *)

\* A session yields at most one API key, however exchanges race and even if
\* a late scan write reopens it and it is approved again: exchangedAt is
\* never cleared.
OneKeyPerSession ==
    \A s \in Session : mints[s] <= 1

\* The key belongs to the approver on the row.  A late scan write breaks the
\* link between the two, so a session that was reopened is excluded.
KeyMatchesApprover ==
    \A s \in Session :
        key[s] # None /\ row[s].user # None /\ reopened[s] = 0 => key[s].user = row[s].user

\* Claiming an account ends what its previous holder approved: an exchange
\* already under way cannot turn that approval into a live key.
ClaimedApprovalYieldsNoKey ==
    \A s \in voided : key[s] # None /\ reopened[s] = 0 => ~key[s].live

\* A live key carries its owner's current role in the organization, unless
\* the membership changed inside the exchange's read-to-commit window or the
\* account was erased (both are then refused by the API key middleware).
LiveKeyMirrorsMembership ==
    \A s \in Session \ raced :
        key[s] # None /\ key[s].live /\ key[s].user \notin gone =>
            role[key[s].user] = key[s].role

\* The exchange is a user of the sessions and of the memberships, and each
\* of them goes through it as it would alone: its one write of a session row
\* is the claim of an approved CLI session, and revoking keys in the
\* transactions of a removal, a role change or an account claim adds nothing
\* to what those do to the members.
KeepsSessions == Spec
KeepsMembers  == M!MemberSpec
KeepsParts    == KeepsSessions /\ KeepsMembers

-----------------------------------------------------------------------------
(* The inductive invariant behind the safety properties *)

\* The exchanges under way for s.
Exchanging(s) == {x \in Xreq : xreq[x].pc # "idle" /\ xreq[x].s = s}

\* No request can approve or deny s as its row stands.
Settled(s) == row[s].status \in Resolved \cup {"DELETED"}

\* A key and its exchangedAt are written together and once; a row deleted
\* since never comes back.
KeyIsClaim ==
    \A s \in Session :
        /\ mints[s] = IF key[s] = None THEN 0 ELSE 1
        /\ key[s] # None => row[s].exchanged \/ row[s].status = "DELETED"
        /\ row[s].exchanged => key[s] # None

\* A session that an account answered, or that is or was exchanged, stays
\* settled until a late scan write reopens it.
AnsweredIsSettled ==
    \A s \in Session :
        /\ reopened[s] = 0
        /\ \/ row[s].user # None \/ key[s] # None
           \/ s \in voided \/ Exchanging(s) # {}
        => Settled(s)

\* Until then its exchanges remember the approver on the row, and so does
\* its key.
ExchangeForApprover ==
    \A s \in Session :
        reopened[s] = 0 /\ row[s].user # None =>
            \A x \in Exchanging(s) : xreq[x].user = row[s].user

\* What a claimed account approved cannot be exchanged any more.
VoidedIsDead ==
    \A s \in voided : reopened[s] = 0 /\ key[s] = None => row[s].status # "APPROVED"

\* An exchange about to commit holds the approver's current role, with the
\* exceptions of LiveKeyMirrorsMembership.
ExchangeMirrorsMembership ==
    \A x \in Xreq :
        xreq[x].pc = "mint" /\ xreq[x].s \notin raced /\ xreq[x].user \notin gone =>
            role[xreq[x].user] = xreq[x].role

CliInv ==
    /\ CliTypeOK
    /\ IInv
    /\ KeyIsClaim
    /\ AnsweredIsSettled
    /\ ExchangeForApprover
    /\ KeyMatchesApprover
    /\ VoidedIsDead
    /\ ClaimedApprovalYieldsNoKey
    /\ ExchangeMirrorsMembership
    /\ LiveKeyMirrorsMembership

=============================================================================
