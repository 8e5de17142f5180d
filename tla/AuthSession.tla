---------------------------- MODULE AuthSession ----------------------------
(***************************************************************************)
(* The QR sign-in session (packages/api/src/services/auth-session.ts and   *)
(* the routes that drive it).  A session is one database row; every HTTP   *)
(* request that touches it is a sequence of awaited statements, and two    *)
(* requests interleave between any two of them.  Each action below is one  *)
(* statement (a read with the decisions taken from it, or a write) of one  *)
(* request; what a request remembers across an await is in req.            *)
(*                                                                         *)
(* Data abstraction.  The clock is one flag per session (its expiresAt has *)
(* passed).  A resolvedAt timestamp is named by who stamped it: the        *)
(* approving request, or Sys for a denial or an expiry.  A signature is    *)
(* the pair it covers: the approver and the resolvedAt stamp.  The Redis   *)
(* entry of a session holds only its immutable id, so a lookup by token    *)
(* answers the same with or without it and it is not part of the state.    *)
(***************************************************************************)
EXTENDS Naturals, FiniteSets

CONSTANTS
    Session,     \* auth-session ids
    CliSession,  \* the sessions of the first-party qrauth-cli app (never signed)
    User,        \* authenticated approvers
    Req,         \* concurrently running HTTP requests
    None,        \* an absent value
    Sys,         \* a resolvedAt stamped by a denial or an expiry
    MaxCount     \* where the history counters of a session saturate

ASSUME AuthSessionAssumption ==
    /\ CliSession \subseteq Session
    /\ None \notin Session \cup User \cup Req \cup [user : User, at : Req]
    /\ Sys \notin Req \cup {None}
    /\ MaxCount \in Nat \ {0}

VARIABLES
    row,        \* the auth_sessions table
    past,       \* sessions whose expiresAt is behind the clock
    claimed,    \* users whose unverified account was claimed by its mailbox owner
    gone,       \* users whose account has been erased
    req,        \* what each running request does next and remembers
    approvals,  \* history: successful approvals per session
    reopened    \* history: scan writes that hit a row no longer PENDING

vars == <<row, past, claimed, gone, req, approvals, reopened>>

-----------------------------------------------------------------------------

Open     == {"PENDING", "SCANNED"}
Resolved == {"APPROVED", "DENIED", "EXPIRED"}
Status   == {"NONE", "DELETED"} \cup Open \cup Resolved
Stamp    == Req \cup {None, Sys}
Sig      == [user : User, at : Req]

Row == [status : Status, user : User \cup {None}, sig : Sig \cup {None},
        at : Stamp, exchanged : BOOLEAN]

NoRow == [status |-> "NONE", user |-> None, sig |-> None, at |-> None,
          exchanged |-> FALSE]

Pc == {"idle", "scan_read", "scan_write", "expire", "approve_read",
       "approve_write", "deny_read", "deny_write", "notify"}

Request == [pc : Pc, s : Session \cup {None}, u : User \cup {None},
            ev : Resolved \cup {"SCANNED", None}]

Idle == [pc |-> "idle", s |-> None, u |-> None, ev |-> None]

TypeOK ==
    /\ row \in [Session -> Row]
    /\ past \in SUBSET Session
    /\ claimed \in SUBSET User
    /\ gone \in SUBSET User
    /\ req \in [Req -> Request]
    /\ \A r \in Req : req[r].pc # "idle" => req[r].s \in Session
    /\ \A r \in Req : req[r].pc \in {"approve_read", "approve_write"} => req[r].u \in User
    /\ approvals \in [Session -> 0..MaxCount]
    /\ reopened \in [Session -> 0..MaxCount]

Init ==
    /\ row = [s \in Session |-> NoRow]
    /\ past = {}
    /\ claimed = {}
    /\ gone = {}
    /\ req = [r \in Req |-> Idle]
    /\ approvals = [s \in Session |-> 0]
    /\ reopened = [s \in Session |-> 0]

-----------------------------------------------------------------------------
(* Steps of a request *)

Exists(s)   == row[s].status \notin {"NONE", "DELETED"}
InFlight(s) == \E r \in Req : req[r].pc # "idle" /\ req[r].s = s

\* A PENDING row read after its expiresAt sends the reader to expireSession.
Lapsed(s) == row[s].status = "PENDING" /\ s \in past

\* The WHERE clause of the conditional writes of approve and deny.
ByIdOnly(s) == Exists(s)  \* mutant
StillOpen(s) == row[s].status \in Open

\* The user row a session may reference: the foreign key of userId.
UserExists(u) == u \notin gone

\* The history counters stop at MaxCount so that the state space is finite.
Count(n) == IF n < MaxCount THEN n + 1 ELSE n

Goto(r, pc)  == req' = [req EXCEPT ![r].pc = pc]
Finish(r)    == req' = [req EXCEPT ![r] = Idle]
Notifying(r, ev) == req' = [req EXCEPT ![r].pc = "notify", ![r].ev = ev]
Begin(r, pc, s, u) ==
    req' = [req EXCEPT ![r] = [pc |-> pc, s |-> s, u |-> u, ev |-> None]]

\* POST /auth-sessions: createSession.
Create(s) ==
    /\ row[s].status = "NONE"
    /\ row' = [row EXCEPT ![s].status = "PENDING"]
    /\ UNCHANGED <<past, claimed, gone, req, approvals, reopened>>

\* The wall clock passes expiresAt.
Elapse(s) ==
    /\ Exists(s)
    /\ s \notin past
    /\ past' = past \cup {s}
    /\ UNCHANGED <<row, claimed, gone, req, approvals, reopened>>

\* GET /auth-sessions/:id: getSession.  Only a lapsed row changes anything.
Poll(r, s) ==
    /\ req[r].pc = "idle"
    /\ Lapsed(s)
    /\ Begin(r, "expire", s, None)
    /\ UNCHANGED <<row, past, claimed, gone, approvals, reopened>>

\* getSessionByToken: the first statement of the scan page, of approve and
\* of deny.  A lapsed row is expired and the request ends there.
OpenByToken(r, s, u, next) ==
    /\ req[r].pc = "idle"
    /\ Exists(s)
    /\ Begin(r, IF Lapsed(s) THEN "expire" ELSE next, s, u)
    /\ UNCHANGED <<row, past, claimed, gone, approvals, reopened>>

\* GET /a/:token: the approval page marks a PENDING session as scanned.
ScanOpen(r, s) ==
    /\ row[s].status = "PENDING"
    /\ OpenByToken(r, s, None, "scan_read")

\* markScanned, the row it re-reads.
ScanRead(r) ==
    LET s == req[r].s IN
    /\ req[r].pc = "scan_read"
    /\ IF row[s].status # "PENDING" THEN Finish(r)
       ELSE Goto(r, IF s \in past THEN "expire" ELSE "scan_write")
    /\ UNCHANGED <<row, past, claimed, gone, approvals, reopened>>

\* markScanned, the write: update by id, whatever the status has become.
ScanWrite(r) ==
    LET s == req[r].s IN
    /\ req[r].pc = "scan_write"
    /\ row' = [row EXCEPT ![s].status = "SCANNED"]
    /\ reopened' = [reopened EXCEPT ![s] =
                        IF row[s].status \in Open THEN @ ELSE Count(@)]
    /\ Notifying(r, "SCANNED")
    /\ UNCHANGED <<past, claimed, gone, approvals>>

\* expireSession: update by id, whatever the status has become.
Expire(r) ==
    /\ req[r].pc = "expire"
    /\ row' = [row EXCEPT ![req[r].s].status = "EXPIRED", ![req[r].s].at = Sys]
    /\ Notifying(r, "EXPIRED")
    /\ UNCHANGED <<past, claimed, gone, approvals, reopened>>

\* POST /:token/approve by user u, whose bearer token outlives an erasure.
ApproveOpen(r, s, u) == OpenByToken(r, s, u, "approve_read")

\* approveSession up to the signature.  The request also ends here when the
\* user is not found (for a CLI session: has no sole membership), and, as a
\* 503, when a federation approval cannot be signed; the row is untouched.
ApproveRead(r) ==
    LET s == req[r].s IN
    /\ req[r].pc = "approve_read"
    /\ \/ ~StillOpen(s) /\ Finish(r)
       \/ StillOpen(s) /\ s \in past /\ Goto(r, "expire")
       \/ StillOpen(s) /\ s \notin past /\ UserExists(req[r].u) /\ Goto(r, "approve_write")
       \/ StillOpen(s) /\ s \notin past /\ Finish(r)
    /\ UNCHANGED <<row, past, claimed, gone, approvals, reopened>>

\* The columns an approval writes.  resolvedAt is the very value that was
\* signed; a CLI approval carries no signature.
ApprovalRestamped(r, s, u) ==  \* mutant
    [status |-> "APPROVED", user |-> u, at |-> Sys, exchanged |-> row[s].exchanged,
     sig |-> IF s \in CliSession THEN None ELSE [user |-> u, at |-> r]]
Approval(r, s, u) ==
    [status |-> "APPROVED", user |-> u, at |-> r, exchanged |-> row[s].exchanged,
     sig |-> IF s \in CliSession THEN None ELSE [user |-> u, at |-> r]]

\* approveSession, the conditional write.  The expiry is not checked again.
\* An approver erased meanwhile fails the foreign key of userId.
ApproveWrite(r) ==
    LET s == req[r].s
        u == req[r].u
    IN
    /\ req[r].pc = "approve_write"
    /\ IF StillOpen(s) /\ UserExists(u)
       THEN /\ row' = [row EXCEPT ![s] = Approval(r, s, u)]
            /\ approvals' = [approvals EXCEPT ![s] = Count(@)]
            /\ Notifying(r, "APPROVED")
       ELSE Finish(r) /\ UNCHANGED <<row, approvals>>
    /\ UNCHANGED <<past, claimed, gone, reopened>>

\* POST /:token/deny.
DenyOpen(r, s) == OpenByToken(r, s, None, "deny_read")

\* denySession, the row it re-reads: no expiry check on this path.
DenyRead(r) ==
    /\ req[r].pc = "deny_read"
    /\ IF StillOpen(req[r].s) THEN Goto(r, "deny_write") ELSE Finish(r)
    /\ UNCHANGED <<row, past, claimed, gone, approvals, reopened>>

\* denySession, the conditional write.
DenyWrite(r) ==
    LET s == req[r].s IN
    /\ req[r].pc = "deny_write"
    /\ IF StillOpen(s)
       THEN /\ row' = [row EXCEPT ![s].status = "DENIED", ![s].at = Sys]
            /\ Notifying(r, "DENIED")
       ELSE Finish(r) /\ UNCHANGED row
    /\ UNCHANGED <<past, claimed, gone, approvals, reopened>>

\* What follows a write when nothing fails: approve re-reads the row,
\* approve, deny and expire delete the Redis entry, and only then
\* notifySubscribers runs and the response goes out.
Notify(r) ==
    /\ req[r].pc = "notify"
    /\ Finish(r)
    /\ UNCHANGED <<row, past, claimed, gone, approvals, reopened>>

\* The next awaited call of a request rejects (the database, or Redis in
\* cacheDel after the write was committed), or its process stops: the
\* request ends there.  What it wrote stays; who was to be told is not.
RequestFails(r) ==
    /\ req[r].pc # "idle"
    /\ Finish(r)
    /\ UNCHANGED <<row, past, claimed, gone, approvals, reopened>>

-----------------------------------------------------------------------------
(* Writers of the row outside auth-session.ts, each one transaction *)

\* Claiming an unverified account, once, expires the approvals it gave that
\* were not exchanged yet; resolvedAt is left as it was.
ClaimAccount(u) ==
    /\ UserExists(u)
    /\ u \notin claimed
    /\ claimed' = claimed \cup {u}
    /\ row' = [s \in Session |->
                 IF row[s].user = u /\ row[s].status = "APPROVED" /\ ~row[s].exchanged
                 THEN [row[s] EXCEPT !.status = "EXPIRED"] ELSE row[s]]
    /\ UNCHANGED <<past, gone, req, approvals, reopened>>

\* Erasing an account unlinks it from its sessions and deletes the user.
EraseUser(u) ==
    /\ UserExists(u)
    /\ gone' = gone \cup {u}
    /\ row' = [s \in Session |->
                 IF row[s].user = u THEN [row[s] EXCEPT !.user = None] ELSE row[s]]
    /\ UNCHANGED <<past, claimed, req, approvals, reopened>>

\* The hourly cleanup deletes resolved sessions a day later; no request is
\* still running by then.
Cleanup(s) ==
    /\ row[s].status \in Resolved
    /\ s \in past
    /\ ~InFlight(s)
    /\ row' = [row EXCEPT ![s] = [NoRow EXCEPT !.status = "DELETED"]]
    /\ UNCHANGED <<past, claimed, gone, req, approvals, reopened>>

\* The single-use claim of an exchange for an API key, which is the only
\* writer of exchangedAt.
ExchangeClaim(s) ==
    /\ s \in CliSession
    /\ row[s].status = "APPROVED"
    /\ ~row[s].exchanged
    /\ row' = [row EXCEPT ![s].exchanged = TRUE]
    /\ UNCHANGED <<past, claimed, gone, req, approvals, reopened>>

-----------------------------------------------------------------------------

RequestStep(r) ==
    \/ ScanRead(r) \/ ScanWrite(r) \/ Expire(r) \/ ApproveRead(r)
    \/ ApproveWrite(r) \/ DenyRead(r) \/ DenyWrite(r) \/ Notify(r)

ServiceNext ==
    \/ \E s \in Session : Create(s) \/ Elapse(s) \/ Cleanup(s)
    \/ \E u \in User : ClaimAccount(u) \/ EraseUser(u)
    \/ \E r \in Req, s \in Session : Poll(r, s) \/ ScanOpen(r, s) \/ DenyOpen(r, s)
    \/ \E r \in Req, s \in Session, u \in User : ApproveOpen(r, s, u)
    \/ \E r \in Req : RequestStep(r) \/ RequestFails(r)

Next == ServiceNext \/ \E s \in Session : ExchangeClaim(s)

Spec == Init /\ [][Next]_vars

-----------------------------------------------------------------------------
(* Properties *)

\* POST /verify-result: the stored signature verifies over the row's own
\* userId and resolvedAt, and the row is APPROVED.
VerifyResult(s) ==
    /\ row[s].user # None
    /\ row[s].sig # None
    /\ row[s].sig = [user |-> row[s].user, at |-> row[s].at]
    /\ row[s].status = "APPROVED"

\* An APPROVED federation session still linked to its approver verifies:
\* no interleaving of approvals, scans, denials and expiries leaves an
\* APPROVED row whose signature covers another user or another resolvedAt
\* (approveSession writes the three together, expireSession and denySession
\* overwrite resolvedAt but also leave APPROVED).
ApprovedVerifies ==
    \A s \in Session \ CliSession :
        row[s].status = "APPROVED" /\ row[s].user # None => VerifyResult(s)

\* An approval running while its account is erased cannot bring the link to
\* the erased user back (the foreign key of userId refuses the late write).
ErasedStaysUnlinked ==
    \A s \in Session : row[s].user \notin gone

\* A session is approved at most once plus once for every scan write that
\* hit a row already resolved: the conditional write of approveSession lets
\* through one approval per opening of the row, however approvals race.
OneApprovalPerOpening ==
    \A s \in Session : approvals[s] <= 1 + reopened[s]

\* The requests that decided to scan or to expire s before now and will
\* write the row without looking at it again.
StaleWriter(s) ==
    \E r \in Req : req[r].s = s /\ req[r].pc \in {"scan_write", "expire"}

\* A resolution is final unless such a request is in flight: then only the
\* daily cleanup removes the row, and only an account claim turns an
\* approval into EXPIRED.
ResolutionIsFinal ==
    [][\A s \in Session :
         row[s].status \in Resolved /\ ~StaleWriter(s) =>
            \/ row'[s].status \in {row[s].status, "DELETED"}
            \/ row[s].status = "APPROVED" /\ row'[s].status = "EXPIRED"]_vars

\* What the comment on approveSession's conditional write says: two
\* approvals of one session never both succeed.
SingleApproval ==
    \A s \in Session : approvals[s] <= 1

-----------------------------------------------------------------------------
(* The inductive invariant behind the safety properties *)

\* The row a request works on exists (the cleanup waits for it), and a row
\* that can be approved has been approved at most as often as it was
\* reopened.  The second is what makes OneApprovalPerOpening inductive.
RowsExist == \A r \in Req : req[r].pc # "idle" => Exists(req[r].s)
OpenBudget ==
    \A s \in Session :
        row[s].status \in {"NONE"} \cup Open => approvals[s] <= reopened[s]

IInv ==
    /\ TypeOK
    /\ RowsExist
    /\ OpenBudget
    /\ OneApprovalPerOpening
    /\ ApprovedVerifies
    /\ ErasedStaysUnlinked

=============================================================================
