--------------------------- MODULE ExchangeProofs ---------------------------
(***************************************************************************)
(* The two consumers of an approved session: the CLI exchange and the      *)
(* status stream. Each argument rests on the invariant of AuthSession,     *)
(* which every step of the composition keeps, and on what one step of the  *)
(* session service may do to a row.                                        *)
(***************************************************************************)
EXTENDS CliExchange, AuthStream, AuthSessionProofs

-----------------------------------------------------------------------------
(***************************************************************************)
(* The CLI exchange, for any sessions, users, roles, requests and          *)
(* exchanges.                                                              *)
(***************************************************************************)

\* What a step of the session service may do to the row of s.
RowKept(s) ==
    /\ reopened'[s] = 0 => reopened[s] = 0
    /\ \/ row'[s].exchanged = row[s].exchanged
       \/ row'[s].status = "DELETED" /\ row'[s].exchanged = FALSE
    /\ row[s].status = "DELETED" => row'[s].status = "DELETED"
    /\ reopened'[s] = 0 /\ Settled(s) =>
          /\ Settled(s)'
          /\ row'[s].user \in {row[s].user, None}
          /\ row'[s].status = "APPROVED" => row[s].status = "APPROVED"
    /\ row'[s].user \notin {None, row[s].user} => row'[s].status = "APPROVED"

\* A step that leaves a row alone keeps it.
LEMMA SameRowKept ==
  ASSUME NEW s \in Session, row'[s] = row[s], reopened'[s] = reopened[s]
  PROVE  RowKept(s)
BY DEF RowKept, Settled

\* Whatever the session service does, a resolved row is opened again only by
\* a scan write that the counter reopened records, exchangedAt is cleared by
\* nothing but the deletion of the row, and a new approver comes with an
\* approval.
LEMMA SessionRowKept ==
  ASSUME IInv, [ServiceNext]_vars, NEW s \in Session
  PROVE  RowKept(s)
<1>0. /\ row \in [Session -> Row]
      /\ reopened \in [Session -> 0..MaxCount]
      /\ \A r \in Req : req[r].pc # "idle" => req[r].s \in Session /\ Exists(req[r].s)
      /\ MaxCount \in Nat \ {0}
  BY AuthSessionAssumption DEF IInv, TypeOK, RowsExist
<1>a. row[s] \in Row
  BY <1>0
<1>1. ASSUME NEW t \in Session, Create(t) PROVE RowKept(s)
  <2>1. CASE t = s
    <3>1. row'[s] = [row[s] EXCEPT !.status = "PENDING"]
      BY <1>0, <1>1, <2>1 DEF Create
    <3>2. /\ row'[s].status = "PENDING" /\ row'[s].user = row[s].user
          /\ row'[s].exchanged = row[s].exchanged
      BY <3>1, <1>a DEF Row
    <3> QED
      BY <1>1, <2>1, <3>2 DEF Create, RowKept, Settled, Resolved
  <2>2. CASE t # s
    BY <1>0, <1>1, <2>2, SameRowKept DEF Create
  <2> QED
    BY <2>1, <2>2
<1>2. ASSUME NEW t \in Session, Cleanup(t) PROVE RowKept(s)
  <2>1. CASE t = s
    <3>1. row'[s] = [NoRow EXCEPT !.status = "DELETED"]
      BY <1>0, <1>2, <2>1 DEF Cleanup
    <3>2. row'[s].status = "DELETED" /\ row'[s].user = None /\ row'[s].exchanged = FALSE
      BY <3>1 DEF NoRow
    <3> QED
      BY <1>2, <2>1, <3>2 DEF Cleanup, RowKept, Settled, Resolved
  <2>2. CASE t # s
    BY <1>0, <1>2, <2>2, SameRowKept DEF Cleanup
  <2> QED
    BY <2>1, <2>2
<1>3. ASSUME NEW u \in User, ClaimAccount(u) PROVE RowKept(s)
  <2>1. CASE row'[s] = row[s]
    BY <1>3, <2>1, SameRowKept DEF ClaimAccount
  <2>2. CASE row[s].status = "APPROVED" /\ row'[s] = [row[s] EXCEPT !.status = "EXPIRED"]
    <3>1. /\ row'[s].status = "EXPIRED" /\ row'[s].user = row[s].user
          /\ row'[s].exchanged = row[s].exchanged
      BY <2>2, <1>a DEF Row
    <3> QED
      BY <1>3, <2>2, <3>1 DEF ClaimAccount, RowKept, Settled, Resolved
  <2> QED
    BY <1>3, <2>1, <2>2 DEF ClaimAccount
<1>4. ASSUME NEW u \in User, EraseUser(u) PROVE RowKept(s)
  <2>1. CASE row'[s] = row[s]
    BY <1>4, <2>1, SameRowKept DEF EraseUser
  <2>2. CASE row'[s] = [row[s] EXCEPT !.user = None]
    <3>1. /\ row'[s].status = row[s].status /\ row'[s].user = None
          /\ row'[s].exchanged = row[s].exchanged
      BY <2>2, <1>a DEF Row
    <3> QED
      BY <1>4, <2>2, <3>1 DEF EraseUser, RowKept, Settled
  <2> QED
    BY <1>4, <2>1, <2>2 DEF EraseUser
<1>5. ASSUME NEW r \in Req, ScanWrite(r) PROVE RowKept(s)
  <2>0. req[r].s \in Session /\ Exists(req[r].s)
    BY <1>0, <1>5 DEF ScanWrite
  <2>1. CASE req[r].s = s
    <3>1. row'[s] = [row[s] EXCEPT !.status = "SCANNED"]
      BY <1>0, <1>5, <2>1 DEF ScanWrite
    <3>2. /\ row'[s].status = "SCANNED" /\ row'[s].user = row[s].user
          /\ row'[s].exchanged = row[s].exchanged
      BY <3>1, <1>a DEF Row
    <3>3. reopened'[s] = IF row[s].status \in Open THEN reopened[s] ELSE Count(reopened[s])
      BY <1>0, <1>5, <2>1 DEF ScanWrite
    <3>4. Count(reopened[s]) # 0 /\ (reopened'[s] = 0 => reopened[s] = 0)
      BY <1>0, <3>3 DEF Count
    <3> QED
      BY <2>0, <2>1, <3>2, <3>3, <3>4 DEF RowKept, Settled, Resolved, Open, Exists
  <2>2. CASE req[r].s # s
    BY <1>0, <1>5, <2>0, <2>2, SameRowKept DEF ScanWrite
  <2> QED
    BY <2>1, <2>2
<1>6. ASSUME NEW r \in Req, Expire(r) PROVE RowKept(s)
  <2>0. req[r].s \in Session /\ Exists(req[r].s)
    BY <1>0, <1>6 DEF Expire
  <2>1. CASE req[r].s = s
    <3>1. row'[s] = [row[s] EXCEPT !.status = "EXPIRED", !.at = Sys]
      BY <1>0, <1>6, <2>1 DEF Expire
    <3>2. /\ row'[s].status = "EXPIRED" /\ row'[s].user = row[s].user
          /\ row'[s].exchanged = row[s].exchanged
      BY <3>1, <1>a DEF Row
    <3> QED
      BY <1>6, <2>0, <2>1, <3>2 DEF Expire, RowKept, Settled, Resolved, Exists
  <2>2. CASE req[r].s # s
    BY <1>0, <1>6, <2>0, <2>2, SameRowKept DEF Expire
  <2> QED
    BY <2>1, <2>2
<1>7. ASSUME NEW r \in Req, ApproveWrite(r) PROVE RowKept(s)
  <2>0. req[r].s \in Session
    BY <1>0, <1>7 DEF ApproveWrite
  <2>1. CASE req[r].s = s /\ StillOpen(s) /\ row' # row
    <3>1. row'[s] = Approval(r, s, req[r].u)
      BY <1>0, <1>7, <2>1 DEF ApproveWrite
    <3>2. row'[s].status = "APPROVED" /\ row'[s].exchanged = row[s].exchanged
      BY <3>1 DEF Approval
    <3> QED
      BY <1>7, <2>1, <3>2 DEF ApproveWrite, RowKept, Settled, Resolved, StillOpen, Open
  <2>2. CASE req[r].s # s \/ row' = row
    BY <1>0, <1>7, <2>0, <2>2, SameRowKept DEF ApproveWrite
  <2> QED
    BY <1>7, <2>1, <2>2 DEF ApproveWrite
<1>8. ASSUME NEW r \in Req, DenyWrite(r) PROVE RowKept(s)
  <2>0. req[r].s \in Session
    BY <1>0, <1>8 DEF DenyWrite
  <2>1. CASE req[r].s = s /\ StillOpen(s)
    <3>1. row'[s] = [row[s] EXCEPT !.status = "DENIED", !.at = Sys]
      BY <1>0, <1>8, <2>1 DEF DenyWrite
    <3>2. /\ row'[s].status = "DENIED" /\ row'[s].user = row[s].user
          /\ row'[s].exchanged = row[s].exchanged
      BY <3>1, <1>a DEF Row
    <3> QED
      BY <1>8, <2>1, <3>2 DEF DenyWrite, RowKept, Settled, Resolved, StillOpen, Open
  <2>2. CASE req[r].s # s \/ row' = row
    BY <1>0, <1>8, <2>0, <2>2, SameRowKept DEF DenyWrite
  <2> QED
    BY <1>8, <2>1, <2>2 DEF DenyWrite
<1>9. CASE UNCHANGED <<row, reopened>>
  BY <1>9, SameRowKept
<1> QED
  BY <1>1, <1>2, <1>3, <1>4, <1>5, <1>6, <1>7, <1>8, <1>9
     DEF ServiceNext, RequestStep, vars, Elapse, Poll, ScanOpen, DenyOpen, ApproveOpen,
         OpenByToken, ScanRead, ApproveRead, DenyRead, Notify, RequestFails

-----------------------------------------------------------------------------

\* What the invariants of CliInv say of one session.
AtSession(s) ==
    /\ mints[s] = IF key[s] = None THEN 0 ELSE 1
    /\ key[s] # None => row[s].exchanged \/ row[s].status = "DELETED"
    /\ row[s].exchanged => key[s] # None
    /\ reopened[s] = 0 =>
          /\ (row[s].user # None \/ key[s] # None \/ s \in voided) => Settled(s)
          /\ \A x \in Xreq : xreq[x].pc # "idle" /\ xreq[x].s = s =>
                /\ Settled(s)
                /\ row[s].user \in {xreq[x].user, None}
          /\ key[s] # None => row[s].user \in {key[s].user, None}
          /\ s \in voided /\ key[s] = None => row[s].status # "APPROVED"
          /\ s \in voided /\ key[s] # None => ~key[s].live

\* They say it of every session.
LEMMA SessionIs ==
  ASSUME CliInv, NEW s \in Session
  PROVE  AtSession(s)
BY DEF AtSession, CliInv, KeyIsClaim, AnsweredIsSettled, ExchangeForApprover, Exchanging,
       KeyMatchesApprover, VoidedIsDead, ClaimedApprovalYieldsNoKey

\* The parts of the inductive invariant, put together after a step.
LEMMA CliHolds ==
  ASSUME CliTypeOK', IInv', \A s \in Session : AtSession(s)',
         ExchangeMirrorsMembership', LiveKeyMirrorsMembership'
  PROVE  CliInv'
<1>1. KeyIsClaim'
  BY DEF AtSession, KeyIsClaim
<1>2. AnsweredIsSettled' /\ ExchangeForApprover'
  BY DEF AtSession, AnsweredIsSettled, ExchangeForApprover, Exchanging
<1>3. voided' \subseteq Session
  BY DEF CliTypeOK
<1>4. KeyMatchesApprover' /\ VoidedIsDead' /\ ClaimedApprovalYieldsNoKey'
  BY <1>3 DEF AtSession, KeyMatchesApprover, VoidedIsDead, ClaimedApprovalYieldsNoKey
<1> QED
  BY <1>1, <1>2, <1>4 DEF CliInv

\* A step that mints no key for s keeps the invariants of s: its row is kept,
\* its key at most revoked, a new exchange of it starts from the approver of
\* an approved row, and a claim that voids it leaves it neither a live key
\* nor an approval to exchange.
LEMMA SessionFollows ==
  ASSUME NEW s \in Session, AtSession(s), RowKept(s),
         mints'[s] = mints[s],
         key'[s] = None <=> key[s] = None,
         key[s] # None => key'[s].user = key[s].user /\ (key'[s].live => key[s].live),
         \A x \in Xreq : xreq'[x].pc # "idle" /\ xreq'[x].s = s =>
            \/ xreq[x].pc # "idle" /\ xreq[x].s = s /\ xreq'[x].user = xreq[x].user
            \/ row'[s] = row[s] /\ row[s].status = "APPROVED" /\ xreq'[x].user = row[s].user,
         s \in voided' => \/ s \in voided
                          \/ /\ row[s].user # None
                             /\ key[s] # None => ~key'[s].live
                             /\ key[s] = None => row'[s].status # "APPROVED",
         s \in voided => s \in voided'
  PROVE  AtSession(s)'
<1>1. /\ mints'[s] = IF key'[s] = None THEN 0 ELSE 1
      /\ key'[s] # None => row'[s].exchanged \/ row'[s].status = "DELETED"
      /\ row'[s].exchanged => key'[s] # None
  BY DEF AtSession, RowKept
<1> SUFFICES ASSUME reopened'[s] = 0
             PROVE  /\ (row'[s].user # None \/ key'[s] # None \/ s \in voided') => Settled(s)'
                    /\ \A x \in Xreq : xreq'[x].pc # "idle" /\ xreq'[x].s = s =>
                          /\ Settled(s)'
                          /\ row'[s].user \in {xreq'[x].user, None}
                    /\ key'[s] # None => row'[s].user \in {key'[s].user, None}
                    /\ s \in voided' /\ key'[s] = None => row'[s].status # "APPROVED"
                    /\ s \in voided' /\ key'[s] # None => ~key'[s].live
  BY <1>1 DEF AtSession
<1>2. reopened[s] = 0
  BY DEF RowKept
<1>3. row'[s].user # None => Settled(s)'
  BY <1>2 DEF RowKept, AtSession, Settled, Resolved
<1>4. key[s] # None \/ s \in voided => Settled(s) /\ Settled(s)'
  BY <1>2 DEF RowKept, AtSession
<1>5. (row'[s].user # None \/ key'[s] # None \/ s \in voided') => Settled(s)'
  BY <1>2, <1>3, <1>4 DEF RowKept, AtSession
<1>6. ASSUME NEW x \in Xreq, xreq'[x].pc # "idle", xreq'[x].s = s
      PROVE  Settled(s)' /\ row'[s].user \in {xreq'[x].user, None}
  <2>1. CASE xreq[x].pc # "idle" /\ xreq[x].s = s /\ xreq'[x].user = xreq[x].user
    BY <1>2, <2>1 DEF RowKept, AtSession
  <2>2. CASE row'[s] = row[s] /\ row[s].status = "APPROVED" /\ xreq'[x].user = row[s].user
    BY <2>2 DEF Settled, Resolved
  <2> QED
    BY <1>6, <2>1, <2>2
<1>7. key'[s] # None => row'[s].user \in {key'[s].user, None}
  BY <1>2, <1>4 DEF RowKept, AtSession
<1>8. s \in voided' /\ key'[s] = None => row'[s].status # "APPROVED"
  BY <1>2, <1>4 DEF RowKept, AtSession
<1>9. s \in voided' /\ key'[s] # None => ~key'[s].live
  BY <1>2 DEF AtSession
<1> QED
  BY <1>5, <1>6, <1>7, <1>8, <1>9

\* What the type invariant says, part by part.
LEMMA CliTypes ==
  ASSUME CliTypeOK
  PROVE  /\ row \in [Session -> Row] /\ gone \in SUBSET User
         /\ role \in [User -> Role \cup {None}]
         /\ key \in [Session -> Key \cup {None}]
         /\ xreq \in [Xreq -> Exchange]
         /\ \A x \in Xreq : xreq[x].pc # "idle" => xreq[x].s \in Session /\ xreq[x].user \in User
         /\ \A x \in Xreq : xreq[x].pc = "mint" => xreq[x].role \in Role
         /\ mints \in [Session -> 0..MaxCount]
         /\ voided \subseteq Session
BY AuthSessionAssumption DEF CliTypeOK, TypeOK, M!MemberTypeOK

\* revokeCliKeysForMember ends the keys of u and changes nothing else.
LEMMA RevokedIs ==
  ASSUME key \in [Session -> Key \cup {None}], NEW u \in User
  PROVE  /\ Revoked(u) \in [Session -> Key \cup {None}]
         /\ \A s \in Session :
               /\ Revoked(u)[s] = None <=> key[s] = None
               /\ key[s] # None =>
                     /\ Revoked(u)[s].user = key[s].user
                     /\ Revoked(u)[s].role = key[s].role
                     /\ Revoked(u)[s].live => key[s].live
                     /\ key[s].user = u => ~Revoked(u)[s].live
<1> SUFFICES ASSUME NEW s \in Session
             PROVE  /\ Revoked(u)[s] \in Key \cup {None}
                    /\ Revoked(u)[s] = None <=> key[s] = None
                    /\ key[s] # None =>
                          /\ Revoked(u)[s].user = key[s].user
                          /\ Revoked(u)[s].role = key[s].role
                          /\ Revoked(u)[s].live => key[s].live
                          /\ key[s].user = u => ~Revoked(u)[s].live
  BY DEF Revoked
<1>1. CASE key[s] # None /\ key[s].user = u
  <2>1. Revoked(u)[s] = [key[s] EXCEPT !.live = FALSE] /\ key[s] \in Key
    BY <1>1 DEF Revoked
  <2>2. /\ Revoked(u)[s] \in Key
        /\ Revoked(u)[s].user = key[s].user /\ Revoked(u)[s].role = key[s].role
        /\ Revoked(u)[s].live = FALSE
    BY <2>1 DEF Key
  <2>3. None \notin Key
    BY CliAssumption DEF Key
  <2> QED
    BY <1>1, <2>2, <2>3
<1>2. CASE ~(key[s] # None /\ key[s].user = u)
  <2>1. Revoked(u)[s] = key[s]
    BY <1>2 DEF Revoked
  <2> QED
    BY <1>2, <2>1
<1> QED
  BY <1>1, <1>2

\* The steps of the session service, with no exchange and no membership
\* change, keep the invariant.
LEMMA CliSessionStep ==
  ASSUME CliInv, [ServiceNext]_vars, UNCHANGED <<role, invite, erasing, keyVars, gone>>
  PROVE  CliInv'
<1>1. IInv'
  BY InvStep DEF CliInv, Next
<1>2. CliTypeOK'
  BY <1>1 DEF CliInv, CliTypeOK, IInv, M!MemberTypeOK, keyVars
<1>3. ASSUME NEW s \in Session PROVE AtSession(s)'
  <2>1. AtSession(s) /\ RowKept(s)
    BY SessionIs, SessionRowKept DEF CliInv
  <2> QED
    BY <2>1, SessionFollows DEF keyVars
<1>4. ExchangeMirrorsMembership' /\ LiveKeyMirrorsMembership'
  BY DEF CliInv, ExchangeMirrorsMembership, LiveKeyMirrorsMembership, keyVars
<1> QED
  BY <1>1, <1>2, <1>3, <1>4, CliHolds

\* A member removed or given another role loses the CLI keys, and an exchange
\* about to commit with the old role is one of those raced names.
LEMMA CliMemberStep ==
  ASSUME CliInv, NEW u \in User, CliMemberChange(u)
  PROVE  CliInv'
<1>0. /\ row \in [Session -> Row] /\ gone \in SUBSET User
      /\ role \in [User -> Role \cup {None}]
      /\ key \in [Session -> Key \cup {None}]
      /\ xreq \in [Xreq -> Exchange]
      /\ \A x \in Xreq : xreq[x].pc # "idle" => xreq[x].s \in Session /\ xreq[x].user \in User
  BY CliTypes DEF CliInv
<1>1. /\ UNCHANGED vars
      /\ UNCHANGED <<row, reopened, gone, invite, erasing, xreq, mints, voided>>
      /\ key' = Revoked(u)
      /\ raced' = raced \cup Minting(u)
      /\ \E new \in Role \cup {None} : role' = [role EXCEPT ![u] = new]
      /\ role[u] # None
  BY DEF CliMemberChange, M!RemoveMember, M!ChangeMemberRole, vars
<1>2. IInv'
  BY <1>1, InvStep DEF CliInv
<1>3. CliTypeOK'
  <2>1. TypeOK'
    BY <1>2 DEF IInv
  <2>2. u \notin gone
    BY <1>1 DEF CliInv, CliTypeOK, M!MemberTypeOK
  <2>3. M!MemberTypeOK'
    BY <1>0, <1>1, <2>2 DEF CliInv, CliTypeOK, M!MemberTypeOK
  <2>4. key' \in [Session -> Key \cup {None}] /\ raced' \in SUBSET Session
    BY <1>0, <1>1, RevokedIs DEF CliInv, CliTypeOK, Minting
  <2> QED
    BY <1>1, <2>1, <2>3, <2>4 DEF CliInv, CliTypeOK
<1>4. ASSUME NEW s \in Session PROVE AtSession(s)'
  <2>1. AtSession(s) /\ RowKept(s)
    BY <1>1, SessionIs, SameRowKept
  <2> QED
    BY <1>0, <1>1, <2>1, RevokedIs, SessionFollows
<1>5. ExchangeMirrorsMembership'
  <2> SUFFICES ASSUME NEW x \in Xreq, xreq[x].pc = "mint", xreq[x].s \notin raced',
                      xreq[x].user \notin gone
               PROVE  role'[xreq[x].user] = xreq[x].role
    BY <1>1 DEF ExchangeMirrorsMembership
  <2>1. xreq[x].user # u
    BY <1>0, <1>1 DEF Minting
  <2> QED
    BY <1>0, <1>1, <2>1 DEF CliInv, ExchangeMirrorsMembership
<1>6. LiveKeyMirrorsMembership'
  <2> SUFFICES ASSUME NEW s \in Session, s \notin raced', key'[s] # None, key'[s].live,
                      key'[s].user \notin gone
               PROVE  role'[key'[s].user] = key'[s].role
    BY <1>1 DEF LiveKeyMirrorsMembership
  <2>1. /\ key[s] # None /\ key'[s].user = key[s].user /\ key'[s].role = key[s].role
        /\ key[s].live /\ key[s].user # u
    BY <1>0, <1>1, RevokedIs
  <2>2. role[key[s].user] = key[s].role
    BY <1>1, <2>1 DEF CliInv, LiveKeyMirrorsMembership
  <2>3. key[s].user \in User
    BY <1>0, <2>1 DEF Key
  <2> QED
    BY <1>0, <1>1, <2>1, <2>2, <2>3
<1> QED
  BY <1>2, <1>3, <1>4, <1>5, <1>6, CliHolds

\* Whoever accepts an invitation was no member, so neither a live key nor an
\* exchange about to commit carries a role of theirs.
LEMMA CliJoinStep ==
  ASSUME CliInv, NEW u \in User, CliMemberJoin(u)
  PROVE  CliInv'
<1>0. /\ row \in [Session -> Row] /\ gone \in SUBSET User
      /\ role \in [User -> Role \cup {None}]
      /\ key \in [Session -> Key \cup {None}]
      /\ xreq \in [Xreq -> Exchange]
      /\ \A x \in Xreq : xreq[x].pc # "idle" => xreq[x].s \in Session /\ xreq[x].user \in User
      /\ \A x \in Xreq : xreq[x].pc = "mint" => xreq[x].role \in Role
      /\ None \notin Role
  BY CliTypes, CliAssumption DEF CliInv
<1>1. /\ UNCHANGED vars
      /\ UNCHANGED <<row, reopened, gone, key, raced, xreq, mints, voided, erasing>>
      /\ role[u] = None
      /\ u \notin gone
      /\ role' = role \/ \E new \in Role : role' = [role EXCEPT ![u] = new]
  BY DEF CliMemberJoin, M!Invite, M!AcceptInvitation, vars, keyVars
<1>2. IInv'
  BY <1>1, InvStep DEF CliInv
<1>3. CliTypeOK'
  <2>1. invite' \in [User -> SUBSET (Role \ {"OWNER"})]
    <3>0. invite \in [User -> SUBSET (Role \ {"OWNER"})]
      BY DEF CliInv, CliTypeOK, M!MemberTypeOK
    <3>1. ASSUME NEW new \in Role, M!Invite(u, new) PROVE <2>1
      BY <3>0, <3>1 DEF M!Invite
    <3>2. ASSUME NEW new \in Role, M!AcceptInvitation(u, new) PROVE <2>1
      <4>1. PICK more \in SUBSET {new} : invite' = [invite EXCEPT ![u] = (@ \ {new}) \cup more]
        BY <3>2 DEF M!AcceptInvitation
      <4>2. new # "OWNER"
        BY <3>0, <3>2 DEF M!AcceptInvitation
      <4> QED
        BY <3>0, <4>1, <4>2
    <3> QED
      BY <3>1, <3>2 DEF CliMemberJoin
  <2>2. M!MemberTypeOK'
    BY <1>0, <1>1, <2>1 DEF CliInv, CliTypeOK, M!MemberTypeOK
  <2> QED
    BY <1>1, <1>2, <2>2 DEF CliInv, CliTypeOK, IInv
<1>4. ASSUME NEW s \in Session PROVE AtSession(s)'
  <2>1. AtSession(s) /\ RowKept(s)
    BY <1>1, SessionIs, SameRowKept
  <2> QED
    BY <1>1, <2>1, SessionFollows
<1>5. ExchangeMirrorsMembership'
  <2> SUFFICES ASSUME NEW x \in Xreq, xreq[x].pc = "mint", xreq[x].s \notin raced,
                      xreq[x].user \notin gone
               PROVE  role'[xreq[x].user] = xreq[x].role
    BY <1>1 DEF ExchangeMirrorsMembership
  <2>1. role[xreq[x].user] = xreq[x].role
    BY DEF CliInv, ExchangeMirrorsMembership
  <2>2. xreq[x].user # u
    BY <1>0, <1>1, <2>1
  <2> QED
    BY <1>0, <1>1, <2>1, <2>2
<1>6. LiveKeyMirrorsMembership'
  <2> SUFFICES ASSUME NEW s \in Session, s \notin raced, key[s] # None, key[s].live,
                      key[s].user \notin gone
               PROVE  role'[key[s].user] = key[s].role
    BY <1>1 DEF LiveKeyMirrorsMembership
  <2>1. role[key[s].user] = key[s].role
    BY DEF CliInv, LiveKeyMirrorsMembership
  <2>2. key[s].user \in User /\ key[s].role \in Role
    BY <1>0 DEF Key
  <2>3. key[s].user # u
    BY <1>0, <1>1, <2>1, <2>2
  <2> QED
    BY <1>0, <1>1, <2>1, <2>2, <2>3
<1> QED
  BY <1>2, <1>3, <1>4, <1>5, <1>6, CliHolds

\* Claiming an account revokes its keys and expires the approvals it gave
\* that no exchange has claimed yet.
LEMMA CliClaimStep ==
  ASSUME CliInv, NEW u \in User, CliClaimAccount(u)
  PROVE  CliInv'
<1>0. /\ row \in [Session -> Row] /\ gone \in SUBSET User
      /\ key \in [Session -> Key \cup {None}]
      /\ xreq \in [Xreq -> Exchange]
      /\ None \notin User
  BY CliTypes, AuthSessionAssumption DEF CliInv
<1>1. /\ [ServiceNext]_vars
      /\ UNCHANGED <<gone, reopened, role, erasing, xreq, mints, raced>>
      /\ key' = Revoked(u)
      /\ voided' = voided \cup {s \in Session : row[s].user = u}
  BY DEF CliClaimAccount, ClaimAccount, M!ClaimMember, ServiceNext
<1>2. IInv'
  BY <1>1, InvStep DEF CliInv, Next
<1>3. CliTypeOK'
  <2>1. invite' \in [User -> SUBSET (Role \ {"OWNER"})]
    BY DEF CliInv, CliTypeOK, M!MemberTypeOK, CliClaimAccount, M!ClaimMember,
           M!WithdrawInvitations
  <2>2. M!MemberTypeOK'
    BY <1>1, <2>1 DEF CliInv, CliTypeOK, M!MemberTypeOK
  <2>3. key' \in [Session -> Key \cup {None}] /\ voided' \in SUBSET Session
    BY <1>0, <1>1, RevokedIs DEF CliInv, CliTypeOK
  <2> QED
    BY <1>1, <1>2, <2>2, <2>3 DEF CliInv, CliTypeOK, IInv
<1>4. ASSUME NEW s \in Session PROVE AtSession(s)'
  <2>1. AtSession(s) /\ RowKept(s)
    BY <1>1, SessionIs, SessionRowKept DEF CliInv
  <2>2. /\ key'[s] = None <=> key[s] = None
        /\ key[s] # None => /\ key'[s].user = key[s].user
                            /\ key'[s].live => key[s].live
                            /\ key[s].user = u => ~key'[s].live
    BY <1>0, <1>1, RevokedIs
  <2>3. CASE row[s].user # u \/ reopened[s] # 0
    <3>1. CASE row[s].user # u
      BY <1>1, <2>1, <2>2, <3>1, SessionFollows
    <3>2. CASE reopened[s] # 0
      BY <1>1, <2>1, <2>2, <3>2 DEF AtSession, RowKept
    <3> QED
      BY <2>3, <3>1, <3>2
  <2>4. CASE row[s].user = u /\ reopened[s] = 0
    <3>1. row[s].user # None
      BY <1>0, <2>4
    <3>2. key[s] # None => ~key'[s].live
      BY <2>1, <2>2, <2>4, <3>1 DEF AtSession
    <3>3. key[s] = None => row'[s].status # "APPROVED"
      <4> SUFFICES ASSUME key[s] = None PROVE row'[s].status # "APPROVED"
        OBVIOUS
      <4>1. CASE row[s].status = "APPROVED"
        <5>1. ~row[s].exchanged
          BY <2>1 DEF AtSession
        <5>2. row'[s] = [row[s] EXCEPT !.status = "EXPIRED"]
          BY <2>4, <4>1, <5>1 DEF CliClaimAccount, ClaimAccount
        <5> QED
          BY <1>0, <5>2 DEF Row
      <4>2. CASE row[s].status # "APPROVED"
        BY <4>2 DEF CliClaimAccount, ClaimAccount
      <4> QED
        BY <4>1, <4>2
    <3> QED
      BY <1>1, <2>1, <2>2, <3>1, <3>2, <3>3, SessionFollows
  <2> QED
    BY <2>3, <2>4
<1>5. ExchangeMirrorsMembership'
  BY <1>1 DEF CliInv, ExchangeMirrorsMembership
<1>6. LiveKeyMirrorsMembership'
  <2> SUFFICES ASSUME NEW s \in Session, s \notin raced, key'[s] # None, key'[s].live,
                      key'[s].user \notin gone
               PROVE  role[key'[s].user] = key'[s].role
    BY <1>1 DEF LiveKeyMirrorsMembership
  <2>1. /\ key[s] # None /\ key'[s].user = key[s].user /\ key'[s].role = key[s].role
        /\ key[s].live
    BY <1>0, <1>1, RevokedIs
  <2> QED
    BY <2>1 DEF CliInv, LiveKeyMirrorsMembership
<1> QED
  BY <1>2, <1>3, <1>4, <1>5, <1>6, CliHolds

\* Erasing an account unlinks its sessions and takes it out of what the live
\* keys and the exchanges are held to.
LEMMA CliEraseStep ==
  ASSUME CliInv, NEW u \in User, CliErase(u)
  PROVE  CliInv'
<1>0. /\ gone \in SUBSET User
      /\ role \in [User -> Role \cup {None}]
      /\ key \in [Session -> Key \cup {None}]
      /\ \A x \in Xreq : xreq[x].pc # "idle" => xreq[x].s \in Session /\ xreq[x].user \in User
  BY CliTypes DEF CliInv
<1>1. CASE M!EraseCheck(u) /\ UNCHANGED <<row, past, claimed, req, approvals, reopened, keyVars>>
  <2>1. UNCHANGED vars /\ UNCHANGED <<role, invite, gone, keyVars>>
    BY <1>1 DEF M!EraseCheck, vars
  <2>2. IInv'
    BY <2>1, InvStep DEF CliInv
  <2>3. CliTypeOK'
    <3>1. M!MemberTypeOK'
      BY <1>1 DEF CliInv, CliTypeOK, M!MemberTypeOK, M!EraseCheck
    <3> QED
      BY <2>1, <2>2, <3>1 DEF CliInv, CliTypeOK, IInv, keyVars
  <2>4. ASSUME NEW s \in Session PROVE AtSession(s)'
    <3>1. AtSession(s) /\ RowKept(s)
      BY <2>1, SessionIs, SameRowKept DEF vars
    <3> QED
      BY <2>1, <3>1, SessionFollows DEF keyVars
  <2>5. ExchangeMirrorsMembership' /\ LiveKeyMirrorsMembership'
    BY <2>1 DEF CliInv, ExchangeMirrorsMembership, LiveKeyMirrorsMembership, keyVars
  <2> QED
    BY <2>2, <2>3, <2>4, <2>5, CliHolds
<1>2. CASE M!EraseMember(u) /\ EraseUser(u) /\ UNCHANGED keyVars
  <2>1. /\ [ServiceNext]_vars /\ UNCHANGED <<key, xreq, mints, voided, raced>>
        /\ role' = [role EXCEPT ![u] = None]
        /\ gone' = gone \cup {u}
    BY <1>2 DEF M!EraseMember, ServiceNext, keyVars
  <2>2. IInv'
    BY <2>1, InvStep DEF CliInv, Next
  <2>3. CliTypeOK'
    <3>1. invite' \in [User -> SUBSET (Role \ {"OWNER"})]
      BY <1>2 DEF CliInv, CliTypeOK, M!MemberTypeOK, M!EraseMember, M!WithdrawInvitations
    <3>2. M!MemberTypeOK'
      BY <1>2, <2>1, <3>1 DEF CliInv, CliTypeOK, M!MemberTypeOK, M!EraseMember
    <3> QED
      BY <2>1, <2>2, <3>2 DEF CliInv, CliTypeOK, IInv
  <2>4. ASSUME NEW s \in Session PROVE AtSession(s)'
    <3>1. AtSession(s) /\ RowKept(s)
      BY <2>1, SessionIs, SessionRowKept DEF CliInv
    <3> QED
      BY <2>1, <3>1, SessionFollows
  <2>5. \A v \in User : v \notin gone' => v \notin gone /\ role'[v] = role[v]
    BY <1>0, <2>1
  <2>6. ExchangeMirrorsMembership'
    BY <1>0, <2>1, <2>5 DEF CliInv, ExchangeMirrorsMembership
  <2>7. LiveKeyMirrorsMembership'
    <3>1. \A s \in Session : key[s] # None => key[s].user \in User
      BY <1>0 DEF Key
    <3> QED
      BY <2>1, <2>5, <3>1 DEF CliInv, LiveKeyMirrorsMembership
  <2> QED
    BY <2>2, <2>3, <2>4, <2>6, <2>7, CliHolds
<1> QED
  BY <1>1, <1>2 DEF CliErase

\* An exchange starts from the approver on an approved row, and holds the
\* role it has just read.
LEMMA CliExchangeStep ==
  ASSUME CliInv, NEW x \in Xreq, ExchangeMember(x) \/ \E s \in Session : ExchangeRead(x, s)
  PROVE  CliInv'
<1>0. /\ row \in [Session -> Row] /\ gone \in SUBSET User
      /\ role \in [User -> Role \cup {None}]
      /\ xreq \in [Xreq -> Exchange]
      /\ \A y \in Xreq : xreq[y].pc # "idle" => xreq[y].s \in Session /\ xreq[y].user \in User
      /\ \A y \in Xreq : xreq[y].pc = "mint" => xreq[y].role \in Role
  BY CliTypes DEF CliInv
<1>1. /\ UNCHANGED vars
      /\ UNCHANGED <<row, reopened, gone, role, invite, erasing, key, mints, voided, raced>>
      /\ \A y \in Xreq : y # x => xreq'[y] = xreq[y]
  BY <1>0 DEF ExchangeMember, ExchangeRead, vars
<1>2. /\ xreq' = [xreq EXCEPT ![x] = xreq'[x]]
      /\ xreq'[x] \in Exchange
      /\ xreq'[x].pc # "idle" => xreq'[x].s \in CliSession /\ xreq'[x].user \in User
      /\ xreq'[x].pc = "mint" => /\ xreq'[x].role \in Role
                                 /\ xreq'[x].role = role[xreq'[x].user]
      /\ xreq'[x].pc # "idle" =>
            \/ /\ xreq[x].pc # "idle" /\ xreq'[x].s = xreq[x].s
               /\ xreq'[x].user = xreq[x].user
            \/ /\ row[xreq'[x].s].status = "APPROVED"
               /\ xreq'[x].user = row[xreq'[x].s].user
  <2>1. ASSUME ExchangeMember(x) PROVE <1>2
    <3>1. CASE role[xreq[x].user] = None
      <4>1. xreq' = [xreq EXCEPT ![x] = IdleX]
        BY <2>1, <3>1 DEF ExchangeMember
      <4>2. IdleX \in Exchange /\ IdleX.pc = "idle"
        BY DEF IdleX, Exchange
      <4> QED
        BY <1>0, <4>1, <4>2
    <3>2. CASE role[xreq[x].user] # None
      <4>1. PICK r : r = [xreq[x] EXCEPT !.pc = "mint", !.role = role[xreq[x].user]]
        OBVIOUS
      <4>2. xreq[x] \in Exchange /\ xreq[x].s \in CliSession /\ xreq[x].user \in User
            /\ xreq[x].pc # "idle"
        BY <1>0, <2>1 DEF CliInv, CliTypeOK, ExchangeMember
      <4>3. role[xreq[x].user] \in Role
        BY <1>0, <3>2, <4>2
      <4>4. r \in Exchange /\ r.pc = "mint" /\ r.s = xreq[x].s /\ r.user = xreq[x].user
            /\ r.role = role[xreq[x].user]
        BY <4>1, <4>2, <4>3 DEF Exchange
      <4>5. xreq' = [xreq EXCEPT ![x] = r]
        BY <1>0, <2>1, <3>2, <4>1 DEF ExchangeMember
      <4> QED
        BY <1>0, <4>2, <4>3, <4>4, <4>5
    <3> QED
      BY <3>1, <3>2
  <2>2. ASSUME NEW s \in Session, ExchangeRead(x, s) PROVE <1>2
    <3>1. PICK r : r = [IdleX EXCEPT !.pc = "member_read", !.s = s, !.user = row[s].user]
      OBVIOUS
    <3>2. row[s].user \in User
      BY <1>0, <2>2 DEF ExchangeRead, Row
    <3>3. r \in Exchange /\ r.pc = "member_read" /\ r.s = s /\ r.user = row[s].user
      BY <3>1, <3>2 DEF Exchange, IdleX
    <3>4. /\ xreq' = [xreq EXCEPT ![x] = r]
          /\ row[s].status = "APPROVED" /\ s \in CliSession
      BY <2>2, <3>1 DEF ExchangeRead
    <3> QED
      BY <1>0, <3>2, <3>3, <3>4
  <2> QED
    BY <2>1, <2>2
<1>3. IInv'
  BY <1>1, InvStep DEF CliInv
<1>4. CliTypeOK'
  <2>1. M!MemberTypeOK'
    BY <1>1 DEF CliInv, CliTypeOK, M!MemberTypeOK
  <2>2. xreq' \in [Xreq -> Exchange]
    BY <1>0, <1>2
  <2> QED
    BY <1>1, <1>2, <1>3, <2>1, <2>2 DEF CliInv, CliTypeOK, IInv
<1>5. ASSUME NEW s \in Session PROVE AtSession(s)'
  <2>1. AtSession(s) /\ RowKept(s)
    BY <1>1, SessionIs, SameRowKept
  <2> QED
    BY <1>1, <1>2, <2>1, SessionFollows
<1>6. ExchangeMirrorsMembership' /\ LiveKeyMirrorsMembership'
  BY <1>1, <1>2 DEF CliInv, ExchangeMirrorsMembership, LiveKeyMirrorsMembership
<1> QED
  BY <1>3, <1>4, <1>5, <1>6, CliHolds

\* The claim of the session and the key it yields.
LEMMA CliMintStep ==
  ASSUME CliInv, NEW x \in Xreq, ExchangeMint(x)
  PROVE  CliInv'
<1>0. /\ row \in [Session -> Row] /\ gone \in SUBSET User
      /\ key \in [Session -> Key \cup {None}]
      /\ xreq \in [Xreq -> Exchange]
      /\ \A y \in Xreq : xreq[y].pc # "idle" => xreq[y].s \in Session /\ xreq[y].user \in User
      /\ \A y \in Xreq : xreq[y].pc = "mint" => xreq[y].role \in Role
      /\ mints \in [Session -> 0..MaxCount]
      /\ MaxCount \in Nat \ {0}
      /\ None \notin Key
  BY CliTypes, CliAssumption, AuthSessionAssumption DEF CliInv, Key
<1>a. PICK s \in Session : s = xreq[x].s
  BY <1>0 DEF ExchangeMint
<1>1. /\ xreq' = [xreq EXCEPT ![x] = IdleX]
      /\ xreq[x].pc = "mint"
      /\ s = xreq[x].s /\ xreq[x].user \in User /\ xreq[x].role \in Role
      /\ UNCHANGED <<past, claimed, gone, req, approvals, reopened, role, invite, erasing,
                     voided, raced>>
  BY <1>0, <1>a DEF ExchangeMint
<1>2. /\ IdleX \in Exchange /\ IdleX.pc = "idle"
      /\ \A y \in Xreq : y # x => xreq'[y] = xreq[y]
      /\ xreq'[x].pc = "idle"
      /\ xreq' \in [Xreq -> Exchange]
  <2>1. IdleX \in Exchange /\ IdleX.pc = "idle"
    BY DEF IdleX, Exchange
  <2> QED
    BY <1>0, <1>1, <2>1
<1>3. M!MemberTypeOK'
  BY <1>1 DEF CliInv, CliTypeOK, M!MemberTypeOK
<1>4. CASE ~Claimable(s)
  <2>1. UNCHANGED vars /\ UNCHANGED <<row, reopened, key, mints>>
    BY <1>a, <1>1, <1>4 DEF ExchangeMint, vars
  <2>2. IInv'
    BY <2>1, InvStep DEF CliInv
  <2>3. CliTypeOK'
    BY <1>1, <1>2, <1>3, <2>1, <2>2 DEF CliInv, CliTypeOK, IInv
  <2>4. ASSUME NEW t \in Session PROVE AtSession(t)'
    <3>1. AtSession(t) /\ RowKept(t)
      BY <2>1, SessionIs, SameRowKept
    <3> QED
      BY <1>1, <1>2, <2>1, <3>1, SessionFollows
  <2>5. ExchangeMirrorsMembership' /\ LiveKeyMirrorsMembership'
    BY <1>1, <1>2, <2>1 DEF CliInv, ExchangeMirrorsMembership, LiveKeyMirrorsMembership
  <2> QED
    BY <2>2, <2>3, <2>4, <2>5, CliHolds
<1>5. CASE Claimable(s)
  <2>1. /\ row' = [row EXCEPT ![s].exchanged = TRUE]
        /\ key' = [key EXCEPT ![s] = Minted(x)]
        /\ mints' = [mints EXCEPT ![s] = Count(@)]
        /\ row[s].status = "APPROVED" /\ ~row[s].exchanged
    BY <1>a, <1>5 DEF ExchangeMint, Claimable
  <2>2. PICK w : w = [row[s] EXCEPT !.exchanged = TRUE]
    OBVIOUS
  <2>3. /\ w \in Row /\ w.exchanged = TRUE
        /\ w.status = row[s].status /\ w.user = row[s].user
        /\ w.sig = row[s].sig /\ w.at = row[s].at
    BY <1>0, <1>1, <2>2 DEF Row
  <2>4. row' = [row EXCEPT ![s] = w]
    BY <2>1, <2>2
  <2>5. \A t \in Session : /\ t # s => row'[t] = row[t]
                           /\ row'[t].status = row[t].status /\ row'[t].user = row[t].user
                           /\ row'[t].sig = row[t].sig /\ row'[t].at = row[t].at
    BY <1>0, <1>1, <2>3, <2>4
  <2>6. row' \in [Session -> Row] /\ row'[s] = w
    BY <1>0, <1>1, <2>3, <2>4
  <2>7. IInv'
    <3>1. TypeOK'
      BY <1>1, <2>6 DEF CliInv, IInv, TypeOK
    <3>2. RowsExist'
      BY <1>1, <2>5 DEF CliInv, IInv, TypeOK, RowsExist, Exists
    <3>3. OpenBudget' /\ OneApprovalPerOpening'
      BY <1>1, <2>5 DEF CliInv, IInv, OpenBudget, OneApprovalPerOpening
    <3>4. ApprovedVerifies'
      BY <2>5 DEF CliInv, IInv, ApprovedVerifies, VerifyResult
    <3>5. ErasedStaysUnlinked'
      BY <1>1, <2>5 DEF CliInv, IInv, ErasedStaysUnlinked
    <3> QED
      BY <3>1, <3>2, <3>3, <3>4, <3>5 DEF IInv
  <2>8. PICK k : k = Minted(x)
    OBVIOUS
  <2>9. k \in Key /\ k.user = xreq[x].user /\ k.role = xreq[x].role /\ k # None
    <3>1. k \in Key /\ k.user = xreq[x].user /\ k.role = xreq[x].role
      BY <1>1, <2>8 DEF Minted, Key
    <3> QED
      BY <1>0, <3>1
  <2>10. /\ key' \in [Session -> Key \cup {None}] /\ key'[s] = k
         /\ \A t \in Session : t # s => key'[t] = key[t]
    BY <1>0, <1>1, <2>1, <2>8, <2>9
  <2>11. AtSession(s)
    BY <1>1, SessionIs
  <2>12. key[s] = None /\ mints[s] = 0
    BY <2>1, <2>11 DEF AtSession
  <2>13. /\ mints' \in [Session -> 0..MaxCount] /\ mints'[s] = 1
         /\ \A t \in Session : t # s => mints'[t] = mints[t]
    BY <1>0, <1>1, <2>1, <2>12 DEF Count
  <2>14. CliTypeOK'
    <3>1. TypeOK'
      BY <2>7 DEF IInv
    <3>2. \A y \in Xreq : /\ xreq'[y].pc # "idle" => xreq'[y].s \in CliSession /\ xreq'[y].user \in User
                          /\ xreq'[y].pc = "mint" => xreq'[y].role \in Role
      BY <1>2 DEF CliInv, CliTypeOK
    <3> QED
      BY <1>1, <1>2, <1>3, <2>10, <2>13, <3>1, <3>2 DEF CliInv, CliTypeOK
  <2>15. ASSUME NEW t \in Session PROVE AtSession(t)'
    <3>1. CASE t # s
      <4>1. AtSession(t) /\ RowKept(t)
        BY <1>1, <2>5, <3>1, SessionIs, SameRowKept
      <4> QED
        BY <1>1, <1>2, <2>10, <2>13, <3>1, <4>1, SessionFollows
    <3>2. CASE t = s
      <4>1. /\ row'[s].exchanged /\ row'[s].status = "APPROVED" /\ row'[s].user = row[s].user
            /\ Settled(s)'
        BY <2>1, <2>3, <2>6 DEF Settled, Resolved
      <4>2. reopened[s] = 0 => /\ s \notin voided
                               /\ row[s].user \in {xreq[x].user, None}
        BY <1>1, <2>1, <2>11, <2>12 DEF AtSession
      <4>3. reopened[s] = 0 => \A y \in Xreq : xreq'[y].pc # "idle" /\ xreq'[y].s = s =>
                                  row'[s].user \in {xreq'[y].user, None}
        BY <1>1, <1>2, <2>11, <4>1 DEF AtSession
      <4> QED
        BY <1>1, <2>9, <2>10, <2>13, <3>2, <4>1, <4>2, <4>3 DEF AtSession
    <3> QED
      BY <3>1, <3>2
  <2>16. ExchangeMirrorsMembership'
    BY <1>1, <1>2 DEF CliInv, ExchangeMirrorsMembership
  <2>17. LiveKeyMirrorsMembership'
    BY <1>1, <2>9, <2>10
       DEF CliInv, ExchangeMirrorsMembership, LiveKeyMirrorsMembership
  <2> QED
    BY <2>7, <2>14, <2>15, <2>16, <2>17, CliHolds
<1> QED
  BY <1>4, <1>5

\* The invariant holds initially and every step keeps it.
LEMMA CliStart == CliInit => CliInv
<1> SUFFICES ASSUME CliInit PROVE CliInv
  OBVIOUS
<1> USE AuthSessionAssumption
<1>1. IInv
  BY InvStart DEF CliInit
<1>2. /\ \A s \in Session : /\ row[s].status = "NONE" /\ row[s].user = None
                            /\ row[s].exchanged = FALSE
      /\ \A x \in Xreq : xreq[x].pc = "idle"
      /\ xreq \in [Xreq -> Exchange]
  BY DEF CliInit, Init, NoRow, IdleX, Exchange
<1>3. CliTypeOK
  BY <1>1, <1>2 DEF CliInit, CliTypeOK, IInv, M!MemberTypeOK, M!MemberInit
<1>4. KeyIsClaim /\ AnsweredIsSettled /\ ExchangeForApprover /\ VoidedIsDead
  BY <1>2 DEF CliInit, KeyIsClaim, AnsweredIsSettled, ExchangeForApprover, VoidedIsDead,
              Exchanging
<1>5. /\ KeyMatchesApprover /\ ClaimedApprovalYieldsNoKey
      /\ ExchangeMirrorsMembership /\ LiveKeyMirrorsMembership
  BY <1>2 DEF CliInit, KeyMatchesApprover, ClaimedApprovalYieldsNoKey,
              ExchangeMirrorsMembership, LiveKeyMirrorsMembership
<1> QED
  BY <1>1, <1>3, <1>4, <1>5 DEF CliInv

\* No step of a session, a membership or an exchange breaks the invariant.
LEMMA CliStep == CliInv /\ [CliNext]_allVars => CliInv'
<1> SUFFICES ASSUME CliInv, [CliNext]_allVars PROVE CliInv'
  OBVIOUS
<1>1. CASE SessionNext
  <2>1. ServiceNext /\ UNCHANGED <<role, invite, erasing, keyVars>>
    BY <1>1 DEF SessionNext, ServiceNext
  <2>2. UNCHANGED gone
    BY <1>1 DEF SessionNext, Create, Elapse, Cleanup, Poll, ScanOpen, DenyOpen, OpenByToken,
                RequestStep, ScanRead, ScanWrite, Expire, ApproveRead, ApproveWrite,
                DenyRead, DenyWrite, Notify, RequestFails
  <2> QED
    BY <2>1, <2>2, CliSessionStep
<1>2. CASE \E r \in Req, s \in Session, u \in User : CliApproveOpen(r, s, u)
  <2>1. ServiceNext /\ UNCHANGED <<role, invite, erasing, keyVars>>
    BY <1>2 DEF CliApproveOpen, ServiceNext
  <2>2. UNCHANGED gone
    BY <1>2 DEF CliApproveOpen, ApproveOpen, OpenByToken
  <2> QED
    BY <2>1, <2>2, CliSessionStep
<1>3. CASE UNCHANGED allVars
  BY <1>3, CliSessionStep DEF allVars, vars
<1> QED
  BY <1>1, <1>2, <1>3, CliMemberStep, CliJoinStep, CliClaimStep, CliEraseStep,
     CliExchangeStep, CliMintStep DEF CliNext

\* The invariant holds throughout.
LEMMA CliAlways == CliSpec => []CliInv
BY CliStart, CliStep, PTL DEF CliSpec

\* The rows of sessions, members and keys and the running requests keep their
\* types, for any number of them.
THEOREM CliTypeCorrect == CliSpec => []CliTypeOK
<1>1. CliInv => CliTypeOK
  BY DEF CliInv
<1> QED
  BY <1>1, CliAlways, PTL

\* However exchanges of one session race, and however often a late scan write
\* reopens it, exchangeForApiKey mints at most one key from it.
THEOREM OneKey == CliSpec => []OneKeyPerSession
<1>1. CliInv => OneKeyPerSession
  BY DEF CliInv, KeyIsClaim, OneKeyPerSession
<1> QED
  BY <1>1, CliAlways, PTL

\* The key of a session that was not reopened belongs to the approver on its
\* row.
THEOREM KeyToApprover == CliSpec => []KeyMatchesApprover
<1>1. CliInv => KeyMatchesApprover
  BY DEF CliInv
<1> QED
  BY <1>1, CliAlways, PTL

\* Claiming an unverified account leaves none of the approvals given before
\* it with a live key, whatever exchange was under way.
THEOREM ClaimEndsKeys == CliSpec => []ClaimedApprovalYieldsNoKey
<1>1. CliInv => ClaimedApprovalYieldsNoKey
  BY DEF CliInv
<1> QED
  BY <1>1, CliAlways, PTL

\* A live key carries its owner's current role, but for a membership change
\* inside the exchange's read-to-commit window and for erased accounts.
THEOREM KeyMirrorsRole == CliSpec => []LiveKeyMirrorsMembership
<1>1. CliInv => LiveKeyMirrorsMembership
  BY DEF CliInv
<1> QED
  BY <1>1, CliAlways, PTL

\* To the sessions, the only step of their own an exchange takes is the claim.
LEMMA SessionSees ==
  ASSUME CliInv, [CliNext]_allVars
  PROVE  [Next]_vars
<1>1. CASE SessionNext
  BY <1>1 DEF SessionNext, Next, ServiceNext
<1>2. CASE \E r \in Req, s \in Session, u \in User : CliApproveOpen(r, s, u)
  BY <1>2 DEF CliApproveOpen, Next, ServiceNext
<1>3. ASSUME NEW u \in User, CliMemberChange(u) PROVE UNCHANGED vars
  BY <1>3 DEF CliMemberChange, M!RemoveMember, M!ChangeMemberRole, vars
<1>4. ASSUME NEW u \in User, CliMemberJoin(u) PROVE UNCHANGED vars
  BY <1>4 DEF CliMemberJoin, M!Invite, M!AcceptInvitation, vars
<1>5. ASSUME NEW u \in User, CliClaimAccount(u) PROVE Next
  BY <1>5 DEF CliClaimAccount, Next, ServiceNext
<1>6. ASSUME NEW u \in User, CliErase(u) PROVE Next \/ UNCHANGED vars
  BY <1>6 DEF CliErase, M!EraseCheck, Next, ServiceNext, vars
<1>7. ASSUME NEW x \in Xreq, ExchangeMember(x) \/ \E s \in Session : ExchangeRead(x, s)
      PROVE  UNCHANGED vars
  BY <1>7 DEF ExchangeMember, ExchangeRead
<1>8. ASSUME NEW x \in Xreq, ExchangeMint(x) PROVE Next \/ UNCHANGED vars
  <2>1. xreq[x].s \in CliSession /\ CliSession \subseteq Session
    BY <1>8, AuthSessionAssumption DEF ExchangeMint, CliInv, CliTypeOK
  <2>2. CASE Claimable(xreq[x].s)
    <3>1. ExchangeClaim(xreq[x].s)
      BY <1>8, <2>1, <2>2 DEF ExchangeMint, Claimable, ExchangeClaim
    <3> QED
      BY <2>1, <3>1 DEF Next
  <2>3. CASE ~Claimable(xreq[x].s)
    BY <1>8, <2>3 DEF ExchangeMint, vars
  <2> QED
    BY <2>2, <2>3
<1>9. CASE UNCHANGED allVars
  BY <1>9 DEF allVars
<1> QED
  BY <1>1, <1>2, <1>3, <1>4, <1>5, <1>6, <1>7, <1>8, <1>9 DEF CliNext

\* To the members, an exchange is nothing at all.
LEMMA MembersSee ==
  ASSUME [CliNext]_allVars
  PROVE  [M!MemberNext]_(M!memberVars)
<1> SUFFICES M!MemberNext \/ UNCHANGED M!memberVars
  OBVIOUS
<1>1. CASE SessionNext
  BY <1>1 DEF SessionNext, Create, Elapse, Cleanup, Poll, ScanOpen, DenyOpen, OpenByToken,
              RequestStep, ScanRead, ScanWrite, Expire, ApproveRead, ApproveWrite,
              DenyRead, DenyWrite, Notify, RequestFails, M!memberVars
<1>2. CASE \E r \in Req, s \in Session, u \in User : CliApproveOpen(r, s, u)
  BY <1>2 DEF CliApproveOpen, ApproveOpen, OpenByToken, M!memberVars
<1>3. ASSUME NEW u \in User, CliMemberChange(u) PROVE M!MemberNext
  BY <1>3 DEF CliMemberChange, M!MemberNext
<1>4. ASSUME NEW u \in User, CliMemberJoin(u) PROVE M!MemberNext
  BY <1>4 DEF CliMemberJoin, M!MemberNext
<1>5. ASSUME NEW u \in User, CliClaimAccount(u) PROVE M!MemberNext
  BY <1>5 DEF CliClaimAccount, M!MemberNext
<1>6. ASSUME NEW u \in User, CliErase(u) PROVE M!MemberNext
  BY <1>6 DEF CliErase, M!MemberNext
<1>7. ASSUME NEW x \in Xreq, \/ ExchangeMember(x) \/ ExchangeMint(x)
                            \/ \E s \in Session : ExchangeRead(x, s)
      PROVE  UNCHANGED M!memberVars
  BY <1>7 DEF ExchangeMember, ExchangeMint, ExchangeRead, vars, M!memberVars
<1>8. CASE UNCHANGED allVars
  BY <1>8 DEF allVars, vars, M!memberVars
<1> QED
  BY <1>1, <1>2, <1>3, <1>4, <1>5, <1>6, <1>7, <1>8 DEF CliNext

\* Sessions behave under racing exchanges, membership changes and account
\* claims as AuthSession alone allows; its theorems hold of the composition.
LEMMA ExchangeKeepsSessions == CliSpec => KeepsSessions
<1>1. CliInit => Init
  BY DEF CliInit
<1>2. CliInv /\ [CliNext]_allVars => [Next]_vars
  BY SessionSees
<1> QED
  BY <1>1, <1>2, CliAlways, PTL DEF CliSpec, Spec, KeepsSessions

\* The same for the members: what the exchange adds to a removal, a role
\* change, a claim or an erasure changes no membership.
LEMMA ExchangeKeepsMembers == CliSpec => KeepsMembers
<1>1. CliInit => M!MemberInit
  BY DEF CliInit
<1>2. [CliNext]_allVars => [M!MemberNext]_(M!memberVars)
  BY MembersSee
<1> QED
  BY <1>1, <1>2, PTL DEF CliSpec, M!MemberSpec, KeepsMembers

\* The exchange, with the transactions it hooks into (removals, role changes,
\* account claims, erasures), implements the session service and the
\* membership component, for any sessions, members and racing exchanges.
THEOREM ExchangeKeepsParts == CliSpec => KeepsParts
BY ExchangeKeepsSessions, ExchangeKeepsMembers, PTL DEF KeepsParts

\* So a resolution stays final while keys are exchanged for it.
THEOREM ExchangedResolutionFinal == CliSpec => ResolutionIsFinal
BY ExchangeKeepsSessions, ResolutionFinal, PTL DEF KeepsSessions

-----------------------------------------------------------------------------
(***************************************************************************)
(* The status stream, for any sessions, requests and streams.              *)
(***************************************************************************)

\* The requests of a session step go on, finish or start one at a time; who
\* is announcing keeps to it.
LEMMA AnnouncingStays ==
  ASSUME TypeOK, SessionStep, NEW s \in Session, Announcing(s)
  PROVE  Announcing(s)'
<1>0. req \in [Req -> Request]
  BY DEF TypeOK
<1>1. PICK r \in Req : req[r].pc = "notify" /\ req[r].s = s /\ req[r].ev \in Resolved
  BY DEF Announcing
<1>2. req'[r].pc = "notify"
  BY <1>1 DEF SessionStep
<1>3. ASSUME NEW q \in Req, Finish(q) \/ \E pc \in Pc : Goto(q, pc), req[q].pc # "notify"
      PROVE  req'[r] = req[r]
  BY <1>0, <1>1, <1>3 DEF Finish, Goto
<1>4. ASSUME NEW q \in Req, \E ev : Notifying(q, ev), req[q].pc # "notify"
      PROVE  req'[r] = req[r]
  BY <1>0, <1>1, <1>4 DEF Notifying
<1>5. ASSUME NEW q \in Req, NEW t, NEW u, NEW pc, Begin(q, pc, t, u), req[q].pc = "idle"
      PROVE  req'[r] = req[r]
  BY <1>0, <1>1, <1>5 DEF Begin
<1>6. ASSUME NEW q \in Req, Notify(q) \/ RequestFails(q) PROVE req'[r] = req[r]
  <2>1. q # r
    BY <1>0, <1>2, <1>6 DEF Notify, RequestFails, Finish, Idle
  <2> QED
    BY <1>0, <1>6, <2>1 DEF Notify, RequestFails, Finish
<1>7. ASSUME NEW q \in Req, RequestStep(q) PROVE req'[r] = req[r]
  <2>1. {"expire", "scan_write", "approve_write", "deny_write"} \subseteq Pc
    BY DEF Pc
  <2>2. CASE ScanRead(q)
    BY <1>3, <2>1, <2>2 DEF ScanRead
  <2>3. CASE ApproveRead(q)
    BY <1>3, <2>1, <2>3 DEF ApproveRead
  <2>4. CASE DenyRead(q)
    BY <1>3, <2>1, <2>4 DEF DenyRead
  <2>5. CASE ScanWrite(q) \/ Expire(q)
    BY <1>4, <2>5 DEF ScanWrite, Expire
  <2>6. CASE ApproveWrite(q)
    BY <1>3, <1>4, <2>6 DEF ApproveWrite
  <2>7. CASE DenyWrite(q)
    BY <1>3, <1>4, <2>7 DEF DenyWrite
  <2> QED
    BY <1>6, <1>7, <2>2, <2>3, <2>4, <2>5, <2>6, <2>7 DEF RequestStep
<1>8. ASSUME NEW q \in Req, NEW t \in Session,
             Poll(q, t) \/ ScanOpen(q, t) \/ DenyOpen(q, t) \/ \E u \in User : ApproveOpen(q, t, u)
      PROVE  req'[r] = req[r]
  BY <1>5, <1>8 DEF Poll, ScanOpen, DenyOpen, ApproveOpen, OpenByToken
<1>9. ASSUME UNCHANGED req PROVE req'[r] = req[r]
  BY <1>9
<1>10. req'[r] = req[r]
  BY <1>6, <1>7, <1>8, <1>9 DEF SessionStep, Next, ServiceNext, Create, Elapse, Cleanup, ClaimAccount,
                          EraseUser, ExchangeClaim
<1> QED
  BY <1>1, <1>10 DEF Announcing

\* Whoever resolves a session announces it next: no row becomes resolved
\* without an announcement on the way.
LEMMA ResolvedIsAnnounced ==
  ASSUME TypeOK, Next, NEW s \in Session, row'[s].status \in Resolved
  PROVE  row[s].status \in Resolved \/ Announcing(s)'
<1>0. row \in [Session -> Row] /\ req \in [Req -> Request]
      /\ \A r \in Req : req[r].pc # "idle" => req[r].s \in Session
  BY DEF TypeOK
<1>a. row[s] \in Row
  BY <1>0
<1>1. ASSUME NEW t \in Session, Create(t) PROVE row[s].status \in Resolved
  <2>1. row'[s] = row[s] \/ row'[s] = [row[s] EXCEPT !.status = "PENDING"]
    BY <1>0, <1>1 DEF Create
  <2>2. [row[s] EXCEPT !.status = "PENDING"].status = "PENDING"
    BY <1>a DEF Row
  <2> QED
    BY <2>1, <2>2 DEF Resolved
<1>2. ASSUME NEW t \in Session, Cleanup(t) PROVE row[s].status \in Resolved
  <2>1. row'[s] = row[s] \/ row'[s] = [NoRow EXCEPT !.status = "DELETED"]
    BY <1>0, <1>2 DEF Cleanup
  <2>2. [NoRow EXCEPT !.status = "DELETED"].status = "DELETED"
    BY DEF NoRow
  <2> QED
    BY <2>1, <2>2 DEF Resolved
<1>3. ASSUME NEW u \in User, ClaimAccount(u) PROVE row[s].status \in Resolved
  BY <1>3 DEF ClaimAccount, Resolved
<1>4. ASSUME NEW u \in User, EraseUser(u) PROVE row[s].status \in Resolved
  <2>1. row'[s] = row[s] \/ row'[s] = [row[s] EXCEPT !.user = None]
    BY <1>4 DEF EraseUser
  <2>2. [row[s] EXCEPT !.user = None].status = row[s].status
    BY <1>a DEF Row
  <2> QED
    BY <2>1, <2>2
<1>5. ASSUME NEW r \in Req, NEW ev \in Resolved, Notifying(r, ev), req[r].s = s
      PROVE  Announcing(s)'
  <2>1. req'[r] = [req[r] EXCEPT !.pc = "notify", !.ev = ev] /\ req[r] \in Request
    BY <1>0, <1>5 DEF Notifying
  <2>2. req'[r].pc = "notify" /\ req'[r].ev = ev /\ req'[r].s = s
    BY <1>5, <2>1 DEF Request
  <2> QED
    BY <1>5, <2>2 DEF Announcing
<1>6. ASSUME NEW r \in Req, ScanWrite(r) PROVE row[s].status \in Resolved
  <2>0. req[r].s \in Session
    BY <1>0, <1>6 DEF ScanWrite
  <2>1. row'[s] = row[s] \/ row'[s] = [row[s] EXCEPT !.status = "SCANNED"]
    BY <1>0, <1>6, <2>0 DEF ScanWrite
  <2>2. [row[s] EXCEPT !.status = "SCANNED"].status = "SCANNED"
    BY <1>a DEF Row
  <2> QED
    BY <2>1, <2>2 DEF Resolved
<1>7. ASSUME NEW r \in Req, Expire(r) PROVE row[s].status \in Resolved \/ Announcing(s)'
  <2>0. req[r].s \in Session
    BY <1>0, <1>7 DEF Expire
  <2>1. CASE req[r].s = s
    BY <1>5, <1>7, <2>1 DEF Expire, Resolved
  <2>2. CASE req[r].s # s
    BY <1>0, <1>7, <2>0, <2>2 DEF Expire
  <2> QED
    BY <2>1, <2>2
<1>8. ASSUME NEW r \in Req, ApproveWrite(r) PROVE row[s].status \in Resolved \/ Announcing(s)'
  <2>1. CASE row' = row
    BY <2>1
  <2>2. CASE row' # row
    <3>1. /\ row' = [row EXCEPT ![req[r].s] = Approval(r, req[r].s, req[r].u)]
          /\ Notifying(r, "APPROVED")
      BY <1>8, <2>2 DEF ApproveWrite
    <3> QED
      BY <1>0, <1>5, <3>1 DEF Resolved
  <2> QED
    BY <2>1, <2>2
<1>9. ASSUME NEW r \in Req, DenyWrite(r) PROVE row[s].status \in Resolved \/ Announcing(s)'
  <2>0. req[r].s \in Session
    BY <1>0, <1>9 DEF DenyWrite
  <2>1. CASE row' = row
    BY <2>1
  <2>2. CASE row' # row
    <3>1. /\ row' = [row EXCEPT ![req[r].s].status = "DENIED", ![req[r].s].at = Sys]
          /\ Notifying(r, "DENIED")
      BY <1>9, <2>2 DEF DenyWrite
    <3> QED
      BY <1>0, <1>5, <2>0, <3>1 DEF Resolved
  <2> QED
    BY <2>1, <2>2
<1>10. ASSUME NEW t \in Session, ExchangeClaim(t) PROVE row[s].status \in Resolved
  <2>1. row'[s] = row[s] \/ row'[s] = [row[s] EXCEPT !.exchanged = TRUE]
    BY <1>0, <1>10 DEF ExchangeClaim
  <2>2. [row[s] EXCEPT !.exchanged = TRUE].status = row[s].status
    BY <1>a DEF Row
  <2> QED
    BY <2>1, <2>2
<1>11. CASE UNCHANGED row
  BY <1>11
<1> QED
  BY <1>1, <1>2, <1>3, <1>4, <1>6, <1>7, <1>8, <1>9, <1>10, <1>11
     DEF Next, ServiceNext, RequestStep, Elapse, Poll, ScanOpen, DenyOpen, ApproveOpen,
         OpenByToken, ScanRead, ApproveRead, DenyRead, Notify, RequestFails

\* A step of the service that announces nothing keeps every stream informed.
LEMMA StreamSessionStep ==
  ASSUME StreamInv, SessionStep
  PROVE  StreamInv'
<1>1. IInv'
  BY InvStep DEF StreamInv, SessionStep
<1>2. StreamTypeOK' /\ OpenIsRegistered'
  BY DEF StreamInv, SessionStep, StreamTypeOK, OpenIsRegistered, streamVars
<1>3. SilenceExplained'
  <2> SUFFICES ASSUME NEW c \in Conn, stream[c].pc = "open",
                      row'[stream[c].s].status \in Resolved,
                      ~stream[c].late, ~stream[c].missed
               PROVE  Announcing(stream[c].s)'
    BY DEF SessionStep, streamVars, SilenceExplained, Announcing
  <2>1. PICK s \in Session : s = stream[c].s
    BY DEF StreamInv, OpenIsRegistered
  <2>2. TypeOK /\ Next
    BY DEF StreamInv, IInv, SessionStep
  <2>3. Announcing(s)'
    <3>1. CASE row[s].status \in Resolved
      <4>1. Announcing(s)
        BY <2>1, <3>1 DEF StreamInv, SilenceExplained
      <4> QED
        BY <2>2, <4>1, AnnouncingStays
    <3>2. CASE row[s].status \notin Resolved
      BY <2>1, <2>2, <3>2, ResolvedIsAnnounced
    <3> QED
      BY <3>1, <3>2
  <2> QED
    BY <2>1, <2>3 DEF SessionStep, streamVars, Announcing
<1> QED
  BY <1>1, <1>2, <1>3 DEF StreamInv

\* The end of a request that was to notify, told or not: a terminal event
\* ends the streams it reaches and the others of its session have missed it;
\* the streams of other sessions lose no announcement of theirs.
LEMMA StreamNotifyStep ==
  ASSUME StreamInv, NEW r \in Req,
         StreamNotifyLost(r) \/ \E p \in Proc : StreamNotify(r, p)
  PROVE  StreamInv'
<1>0. /\ stream \in [Conn -> Stream]
      /\ listening \in [Session -> SUBSET Conn]
      /\ req \in [Req -> Request]
      /\ req[r].s \in Session /\ req[r].pc = "notify"
      /\ req[r].ev \in Resolved \cup {"SCANNED", None}
  BY DEF StreamInv, StreamTypeOK, IInv, TypeOK, StreamNotify, StreamNotifyLost, Notify, Request
<1>a. PICK s \in Session, ev \in Resolved \cup {"SCANNED", None} : s = req[r].s /\ ev = req[r].ev
  BY <1>0
<1>1. IInv'
  <2>1. Next
    BY DEF StreamNotify, StreamNotifyLost, Next, ServiceNext, RequestStep
  <2> QED
    BY <2>1, InvStep DEF StreamInv
<1>2. /\ UNCHANGED row
      /\ \A q \in Req : q # r => req'[q] = req[q]
  BY <1>0, <1>a DEF StreamNotify, StreamNotifyLost, Notify, RequestFails, Finish
<1>b. PICK reached \in SUBSET listening[s] :
         /\ stream' = Delivered(s, ev, reached)
         /\ listening' = IF ev \in Resolved THEN [listening EXCEPT ![s] = @ \ reached] ELSE listening
  <2>1. CASE StreamNotifyLost(r)
    BY <1>a, <2>1 DEF StreamNotifyLost, Announce
  <2>2. ASSUME NEW p \in Proc, StreamNotify(r, p)
        PROVE  \E reached \in SUBSET listening[s] :
                  /\ stream' = Delivered(s, ev, reached)
                  /\ listening' = IF ev \in Resolved THEN [listening EXCEPT ![s] = @ \ reached]
                                  ELSE listening
    <3>1. PICK reached \in SUBSET listening[s] :
             reached = {c \in listening[s] : stream[c].home = p} /\ Announce(r, reached)
      BY <1>a, <2>2 DEF StreamNotify
    <3> QED
      BY <1>a, <3>1 DEF Announce
  <2> QED
    BY <2>1, <2>2
<1>3. \A c \in Conn : \/ stream'[c] = stream[c] /\ (ev \in Resolved => c \notin listening[s])
                      \/ stream'[c].pc = "ended" /\ stream'[c] \in Stream
                      \/ /\ stream'[c] \in Stream /\ stream'[c].missed
                         /\ stream'[c].pc = stream[c].pc /\ stream'[c].s = stream[c].s
                         /\ ev \in Resolved /\ c \notin reached
  <2> SUFFICES ASSUME NEW c \in Conn, ev \in Resolved
               PROVE  \/ stream'[c] = stream[c] /\ c \notin listening[s]
                      \/ stream'[c].pc = "ended" /\ stream'[c] \in Stream
                      \/ /\ stream'[c] \in Stream /\ stream'[c].missed /\ c \notin reached
                         /\ stream'[c].pc = stream[c].pc /\ stream'[c].s = stream[c].s
    BY <1>0, <1>b DEF Delivered
  <2>0. stream[c] \in Stream
    BY <1>0
  <2>1. CASE c \in reached
    <3>1. stream'[c] = [stream[c] EXCEPT !.pc = "ended", !.told = ev]
      BY <1>0, <1>b, <2>1 DEF Delivered, Called
    <3> QED
      BY <2>0, <3>1 DEF Stream
  <2>2. CASE c \notin reached /\ c \in listening[s]
    <3>1. stream'[c] = [stream[c] EXCEPT !.missed = TRUE]
      BY <1>0, <1>b, <2>0, <2>2 DEF Delivered, Stream
    <3> QED
      BY <2>0, <2>2, <3>1 DEF Stream
  <2>3. CASE c \notin listening[s]
    <3>1. stream'[c] = [stream[c] EXCEPT !.missed = stream[c].missed]
      BY <1>0, <1>b, <2>0, <2>3 DEF Delivered, Stream
    <3> QED
      BY <2>0, <2>3, <3>1 DEF Stream
  <2> QED
    BY <2>1, <2>2, <2>3
<1>4. stream' \in [Conn -> Stream]
  <2>1. DOMAIN stream' = Conn /\ stream' = [c \in Conn |-> stream'[c]]
    BY <1>0, <1>b DEF Delivered
  <2>2. \A c \in Conn : stream'[c] \in Stream
    BY <1>0, <1>3
  <2> QED
    BY <2>1, <2>2
<1>5. StreamTypeOK'
  BY <1>0, <1>b, <1>4 DEF StreamTypeOK
<1>6. ASSUME NEW c \in Conn, stream'[c].pc \in {"read", "open"}
      PROVE  /\ stream'[c].pc = stream[c].pc /\ stream'[c].s = stream[c].s
             /\ stream[c].s \in Session
             /\ stream[c].pc = "open" =>
                   /\ c \in listening'[stream[c].s]
                   /\ \/ stream'[c].missed
                      \/ stream'[c] = stream[c] /\ (ev \in Resolved => stream[c].s # s)
  <2>1. /\ stream'[c].pc = stream[c].pc /\ stream'[c].s = stream[c].s
        /\ \/ stream'[c] = stream[c] /\ (ev \in Resolved => c \notin listening[s])
           \/ stream'[c].missed /\ c \notin reached
    BY <1>3, <1>6
  <2>2. /\ stream[c].s \in Session
        /\ stream[c].pc = "open" => c \in listening[stream[c].s]
    BY <1>6, <2>1 DEF StreamInv, OpenIsRegistered
  <2> QED
    BY <1>0, <1>b, <2>1, <2>2
<1>7. OpenIsRegistered'
  BY <1>6 DEF OpenIsRegistered
<1>8. SilenceExplained'
  <2> SUFFICES ASSUME NEW c \in Conn, stream'[c].pc = "open",
                      row'[stream'[c].s].status \in Resolved,
                      ~stream'[c].late, ~stream'[c].missed
               PROVE  \E q \in Req : /\ req'[q].pc = "notify" /\ req'[q].s = stream'[c].s
                                     /\ req'[q].ev \in Resolved
    BY DEF SilenceExplained, Announcing
  <2>1. stream'[c] = stream[c] /\ (ev \in Resolved => stream[c].s # s)
    BY <1>6
  <2>2. Announcing(stream[c].s)
    BY <1>2, <2>1 DEF StreamInv, SilenceExplained
  <2>3. PICK q \in Req : req[q].pc = "notify" /\ req[q].s = stream[c].s /\ req[q].ev \in Resolved
    BY <2>2 DEF Announcing
  <2>4. q # r
    BY <1>a, <2>1, <2>3
  <2> QED
    BY <1>2, <2>1, <2>3, <2>4
<1> QED
  BY <1>1, <1>5, <1>7, <1>8 DEF StreamInv

\* A handler's own steps: it registers only in the continuation of its read,
\* and knows then whether it came too late.
LEMMA StreamHandlerStep ==
  ASSUME StreamInv, NEW c \in Conn,
         StreamSubscribe(c) \/ StreamClose(c) \/ \E s \in Session : StreamRead(c, s)
  PROVE  StreamInv'
<1>0. /\ stream \in [Conn -> Stream]
      /\ listening \in [Session -> SUBSET Conn]
      /\ row \in [Session -> Row]
  BY DEF StreamInv, StreamTypeOK, IInv, TypeOK
<1>1. UNCHANGED vars /\ UNCHANGED <<row, req>>
  BY DEF StreamSubscribe, StreamClose, StreamRead, vars
<1>2. IInv'
  BY <1>1, InvStep DEF StreamInv
<1>3. /\ stream' = [stream EXCEPT ![c] = stream'[c]]
      /\ stream'[c] \in Stream
      /\ stream'[c].pc \in {"read", "open"} => stream'[c].s \in Session
      /\ listening' \in [Session -> SUBSET Conn]
      /\ \A d \in Conn, t \in Session : d # c /\ d \in listening[t] => d \in listening'[t]
      /\ stream'[c].pc = "open" =>
            /\ c \in listening'[stream'[c].s]
            /\ row[stream'[c].s].status \in Resolved =>
                  Announcing(stream'[c].s) \/ stream'[c].late \/ stream'[c].missed
  <2>1. ASSUME StreamClose(c) PROVE <1>3
    <3>1. PICK w : w = [stream[c] EXCEPT !.pc = "ended"]
      OBVIOUS
    <3>2. w \in Stream /\ w.pc = "ended"
      BY <1>0, <3>1 DEF Stream
    <3>3. stream' = [stream EXCEPT ![c] = w]
      BY <2>1, <3>1 DEF StreamClose
    <3>4. PICK t \in Session : t = stream[c].s
      BY <2>1 DEF StreamInv, OpenIsRegistered, StreamClose
    <3>5. listening' = [listening EXCEPT ![t] = @ \ {c}]
      BY <2>1, <3>4 DEF StreamClose
    <3> QED
      BY <1>0, <3>2, <3>3, <3>5
  <2>2. ASSUME NEW s \in Session, StreamRead(c, s) PROVE <1>3
    <3>0. PICK p \in Proc, verifier \in BOOLEAN :
             stream' = IF MayStream(s, verifier)
                       THEN [stream EXCEPT ![c].pc = "read", ![c].s = s, ![c].home = p,
                                           ![c].saw = row[s].status]
                       ELSE [stream EXCEPT ![c].pc = "ended", ![c].s = s]
      BY <2>2 DEF StreamRead
    <3>1. PICK w1, w2 : /\ w1 = [stream[c] EXCEPT !.pc = "read", !.s = s, !.home = p,
                                                  !.saw = row[s].status]
                        /\ w2 = [stream[c] EXCEPT !.pc = "ended", !.s = s]
      OBVIOUS
    <3>2. row[s].status \in Status
      BY <1>0 DEF Row
    <3>3. w1 \in Stream /\ w1.pc = "read" /\ w1.s = s /\ w2 \in Stream /\ w2.pc = "ended"
      BY <1>0, <3>1, <3>2 DEF Stream
    <3>4. /\ stream' = [stream EXCEPT ![c] = w1] \/ stream' = [stream EXCEPT ![c] = w2]
          /\ UNCHANGED listening
      BY <2>2, <3>0, <3>1 DEF StreamRead
    <3> QED
      BY <1>0, <3>3, <3>4
  <2>3. ASSUME StreamSubscribe(c) PROVE <1>3
    <3>0. PICK s \in Session : s = stream[c].s
      BY <2>3 DEF StreamInv, OpenIsRegistered, StreamSubscribe
    <3>1. CASE stream[c].saw \in Resolved
      <4>1. PICK w : w = [stream[c] EXCEPT !.pc = "ended", !.told = stream[c].saw]
        OBVIOUS
      <4>2. w \in Stream /\ w.pc = "ended"
        BY <1>0, <3>1, <4>1 DEF Stream
      <4>3. stream' = [stream EXCEPT ![c] = w] /\ UNCHANGED listening
        BY <2>3, <3>1, <4>1 DEF StreamSubscribe
      <4> QED
        BY <1>0, <4>2, <4>3
    <3>2. CASE stream[c].saw \notin Resolved
      <4>0. PICK late \in BOOLEAN : late = (row[s].status \notin Open /\ ~Announcing(s))
        OBVIOUS
      <4>1. PICK w : w = [stream[c] EXCEPT !.pc = "open", !.late = late]
        OBVIOUS
      <4>2. w \in Stream /\ w.pc = "open" /\ w.s = s /\ w.late = late
        BY <1>0, <3>0, <4>1 DEF Stream
      <4>3. stream' = [stream EXCEPT ![c] = w] /\ listening' = [listening EXCEPT ![s] = @ \cup {c}]
        BY <2>3, <3>0, <3>2, <4>0, <4>1 DEF StreamSubscribe, Subscription
      <4>4. row[s].status \in Resolved => Announcing(s) \/ late
        BY <4>0 DEF Resolved, Open
      <4> QED
        BY <1>0, <4>2, <4>3, <4>4
    <3> QED
      BY <3>1, <3>2
  <2> QED
    BY <2>1, <2>2, <2>3
<1>4. /\ \A d \in Conn : d # c => stream'[d] = stream[d]
      /\ StreamTypeOK'
  BY <1>0, <1>3 DEF StreamTypeOK
<1>5. OpenIsRegistered'
  BY <1>3, <1>4 DEF StreamInv, OpenIsRegistered
<1>6. SilenceExplained'
  BY <1>1, <1>3, <1>4 DEF StreamInv, SilenceExplained, Announcing
<1> QED
  BY <1>2, <1>4, <1>5, <1>6 DEF StreamInv

\* An open stream of a resolved session has its event on the way, registered
\* after the notification, or was missed by it (the request failed after its
\* write, or ran in another process): for any number of streams, sessions,
\* requests and processes.
THEOREM StreamTold == StreamSpec => []SilenceExplained
<1>1. StreamInit => StreamInv
  <2> SUFFICES ASSUME StreamInit PROVE StreamInv
    OBVIOUS
  <2>1. IInv
    BY InvStart DEF StreamInit
  <2>2. StreamTypeOK /\ \A c \in Conn : stream[c].pc = "new"
    BY DEF StreamInit, StreamTypeOK, Stream
  <2> QED
    BY <2>1, <2>2 DEF StreamInv, OpenIsRegistered, SilenceExplained
<1>2. StreamInv /\ [StreamNext]_streamAll => StreamInv'
  <2> SUFFICES ASSUME StreamInv, [StreamNext]_streamAll PROVE StreamInv'
    OBVIOUS
  <2>1. CASE UNCHANGED streamAll
    <3>1. IInv'
      BY <2>1, InvStep DEF StreamInv, streamAll, vars
    <3> QED
      BY <2>1, <3>1 DEF StreamInv, streamAll, StreamTypeOK, OpenIsRegistered,
                        SilenceExplained, Announcing
  <2> QED
    BY <2>1, StreamSessionStep, StreamNotifyStep, StreamHandlerStep DEF StreamNext
<1>3. StreamInv => SilenceExplained
  BY DEF StreamInv
<1> QED
  BY <1>1, <1>2, <1>3, PTL DEF StreamSpec

=============================================================================
