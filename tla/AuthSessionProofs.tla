------------------------- MODULE AuthSessionProofs -------------------------
(***************************************************************************)
(* Theorems about AuthSession, for any number of sessions, users and       *)
(* concurrently running requests.                                          *)
(***************************************************************************)
EXTENDS AuthSession, TLAPS

\* What the writes of a status, of a status with its resolvedAt, and of a
\* request's program counter leave well-typed.
LEMMA RecordWrite ==
  ASSUME NEW x \in Row, NEW st \in Status
  PROVE  /\ [x EXCEPT !.status = st] \in Row
         /\ [x EXCEPT !.status = st].user = x.user
         /\ [x EXCEPT !.status = st].status = st
BY DEF Row

\* Writing a well-typed record into one row keeps the table well typed.
LEMMA RowWrites ==
  ASSUME NEW t \in [Session -> Row], NEW s \in Session, NEW st \in Status, NEW a \in Stamp
  PROVE  /\ [t EXCEPT ![s].status = st] \in [Session -> Row]
         /\ [t EXCEPT ![s].status = st, ![s].at = a] \in [Session -> Row]
<1>1. [t[s] EXCEPT !.status = st] \in Row
  BY DEF Row
<1>2. [t[s] EXCEPT !.status = st, !.at = a] \in Row
  BY DEF Row
<1> QED
  BY <1>1, <1>2

\* Moving a request on, and ending it, keeps it well typed.
LEMMA ReqWrites ==
  ASSUME NEW q \in [Req -> Request], NEW r \in Req, NEW pc \in Pc,
         NEW ev \in Resolved \cup {"SCANNED", None}
  PROVE  /\ [q EXCEPT ![r].pc = pc] \in [Req -> Request]
         /\ [q EXCEPT ![r].pc = pc, ![r].ev = ev] \in [Req -> Request]
         /\ [q EXCEPT ![r] = Idle] \in [Req -> Request]
<1>1. [q[r] EXCEPT !.pc = pc] \in Request
  BY DEF Request
<1>2. [q[r] EXCEPT !.pc = pc, !.ev = ev] \in Request
  BY DEF Request
<1>3. Idle \in Request
  BY DEF Idle, Request, Pc
<1> QED
  BY <1>1, <1>2, <1>3

\* A request under way names its session, an approving one its user too.
Bound(q) ==
    /\ \A r \in Req : q[r].pc # "idle" => q[r].s \in Session
    /\ \A r \in Req : q[r].pc \in {"approve_read", "approve_write"} => q[r].u \in User

\* The same for the session and the user a running request is bound to.
LEMMA BoundWrites ==
  ASSUME NEW q \in [Req -> Request], NEW r \in Req, NEW pc \in Pc,
         NEW ev \in Resolved \cup {"SCANNED", None}, Bound(q), q[r].pc # "idle",
         pc \in {"approve_read", "approve_write"} => q[r].pc = "approve_read"
  PROVE  /\ Bound([q EXCEPT ![r].pc = pc])
         /\ Bound([q EXCEPT ![r].pc = pc, ![r].ev = ev])
         /\ Bound([q EXCEPT ![r] = Idle])
<1>1. /\ [q[r] EXCEPT !.pc = pc].s = q[r].s
      /\ [q[r] EXCEPT !.pc = pc].u = q[r].u
      /\ [q[r] EXCEPT !.pc = pc].pc = pc
  BY DEF Request
<1>2. /\ [q[r] EXCEPT !.pc = pc, !.ev = ev].s = q[r].s
      /\ [q[r] EXCEPT !.pc = pc, !.ev = ev].u = q[r].u
      /\ [q[r] EXCEPT !.pc = pc, !.ev = ev].pc = pc
  BY DEF Request
<1>3. Idle.pc = "idle"
  BY DEF Idle
<1>4. Bound([q EXCEPT ![r].pc = pc])
  BY <1>1 DEF Bound
<1>5. Bound([q EXCEPT ![r].pc = pc, ![r].ev = ev])
  BY <1>2 DEF Bound
<1>6. Bound([q EXCEPT ![r] = Idle])
  BY <1>3 DEF Bound
<1> QED
  BY <1>4, <1>5, <1>6

\* A new request is well-typed when its arguments are.
LEMMA BeginWrites ==
  ASSUME NEW q \in [Req -> Request], NEW r \in Req, NEW pc \in Pc, NEW s \in Session,
         NEW u \in User \cup {None}, Bound(q),
         pc \in {"approve_read", "approve_write"} => u \in User
  PROVE  LET new == [q EXCEPT ![r] = [pc |-> pc, s |-> s, u |-> u, ev |-> None]]
         IN  new \in [Req -> Request] /\ Bound(new)
<1> DEFINE b == [pc |-> pc, s |-> s, u |-> u, ev |-> None]
<1>1. b \in Request
  BY DEF Request
<1>2. b.pc = pc /\ b.s = s /\ b.u = u
  OBVIOUS
<1> QED
  BY <1>1, <1>2 DEF Bound

\* The type invariant is inductive: no interleaving of the requests'
\* statements leaves a row, a request or a counter outside its range.
LEMMA TypeStep == TypeOK /\ [Next]_vars => TypeOK'
<1> SUFFICES ASSUME TypeOK, [Next]_vars PROVE TypeOK'
  OBVIOUS
<1> USE AuthSessionAssumption
<1>0. /\ row \in [Session -> Row]
      /\ req \in [Req -> Request]
      /\ Bound(req)
      /\ past \in SUBSET Session
      /\ claimed \in SUBSET User
      /\ gone \in SUBSET User
      /\ approvals \in [Session -> 0..MaxCount]
      /\ reopened \in [Session -> 0..MaxCount]
  BY DEF TypeOK, Bound
<1>a. SUFFICES /\ row' \in [Session -> Row]
               /\ req' \in [Req -> Request]
               /\ Bound(req')
               /\ past' \in SUBSET Session
               /\ claimed' \in SUBSET User
               /\ gone' \in SUBSET User
               /\ approvals' \in [Session -> 0..MaxCount]
               /\ reopened' \in [Session -> 0..MaxCount]
  BY DEF TypeOK, Bound
<1>b. {"PENDING", "SCANNED", "APPROVED", "DENIED", "EXPIRED"} \subseteq Status
  BY DEF Status, Open, Resolved
<1>c. Sys \in Stamp
  BY DEF Stamp
<1>d. /\ Pc = {"idle", "scan_read", "scan_write", "expire", "approve_read",
               "approve_write", "deny_read", "deny_write", "notify"}
      /\ {"SCANNED", "APPROVED", "DENIED", "EXPIRED"} \subseteq Resolved \cup {"SCANNED", None}
  BY DEF Pc, Resolved
<1>e. \A n \in 0..MaxCount : Count(n) \in 0..MaxCount
  BY DEF Count
<1>f. ASSUME NEW r \in Req, req[r].pc # "idle", Finish(r)
      PROVE  req' \in [Req -> Request] /\ Bound(req')
  BY <1>0, <1>f, <1>d, ReqWrites, BoundWrites DEF Finish
<1>g. ASSUME NEW r \in Req, req[r].pc # "idle", NEW pc \in Pc, Goto(r, pc),
             pc \in {"approve_read", "approve_write"} => req[r].pc = "approve_read"
      PROVE  req' \in [Req -> Request] /\ Bound(req')
  <2>1. "SCANNED" \in Resolved \cup {"SCANNED", None}
    BY <1>d
  <2>2. req' = [req EXCEPT ![r].pc = pc]
    BY <1>g DEF Goto
  <2> QED
    BY <1>0, <1>g, <2>1, <2>2, ReqWrites, BoundWrites
<1>h. ASSUME NEW r \in Req, req[r].pc # "idle", NEW ev \in Resolved \cup {"SCANNED"},
             Notifying(r, ev)
      PROVE  req' \in [Req -> Request] /\ Bound(req')
  <2>1. "notify" \in Pc /\ ev \in Resolved \cup {"SCANNED", None}
    BY <1>d
  <2>2. req' = [req EXCEPT ![r].pc = "notify", ![r].ev = ev]
    BY <1>h DEF Notifying
  <2> QED
    BY <1>0, <1>h, <2>1, <2>2, ReqWrites, BoundWrites
<1>1. ASSUME NEW s \in Session, Create(s) PROVE <1>a!1
  BY <1>0, <1>1, <1>b, <1>c, RowWrites DEF Create
<1>2. ASSUME NEW s \in Session, Elapse(s) PROVE <1>a!1
  BY <1>0, <1>2 DEF Elapse
<1>3. ASSUME NEW s \in Session, Cleanup(s) PROVE <1>a!1
  BY <1>0, <1>3 DEF Cleanup, NoRow, Row, Status, Open, Resolved, Stamp, Sig
<1>4. ASSUME NEW u \in User, ClaimAccount(u) PROVE <1>a!1
  <2>1. \A s \in Session : [row[s] EXCEPT !.status = "EXPIRED"] \in Row
    BY <1>0, <1>b, RecordWrite
  <2> QED
    BY <1>0, <1>4, <2>1 DEF ClaimAccount
<1>5. ASSUME NEW u \in User, EraseUser(u) PROVE <1>a!1
  BY <1>0, <1>5 DEF EraseUser, Row
<1>6. ASSUME NEW r \in Req, NEW s \in Session, Poll(r, s) PROVE <1>a!1
  BY <1>0, <1>6, <1>d, BeginWrites DEF Poll, Begin
<1>7. ASSUME NEW r \in Req, NEW s \in Session, NEW u \in User \cup {None},
             NEW next \in Pc, OpenByToken(r, s, u, next),
             next \in {"approve_read", "approve_write"} => u \in User
      PROVE  <1>a!1
  <2> DEFINE to == IF Lapsed(s) THEN "expire" ELSE next
  <2>1. req' = [req EXCEPT ![r] = [pc |-> to, s |-> s, u |-> u, ev |-> None]]
    BY <1>7 DEF OpenByToken, Begin
  <2>a. to \in Pc /\ (to \in {"approve_read", "approve_write"} => u \in User)
    BY <1>7, <1>d
  <2> HIDE DEF to
  <2>2. req' \in [Req -> Request] /\ Bound(req')
    BY <1>0, <2>1, <2>a, BeginWrites
  <2> QED
    BY <1>0, <1>7, <2>2 DEF OpenByToken
<1>8. ASSUME NEW r \in Req, NEW s \in Session, ScanOpen(r, s) \/ DenyOpen(r, s) PROVE <1>a!1
  BY <1>8, <1>7, <1>d DEF ScanOpen, DenyOpen
<1>9. ASSUME NEW r \in Req, NEW s \in Session, NEW u \in User, ApproveOpen(r, s, u)
      PROVE <1>a!1
  BY <1>9, <1>7, <1>d DEF ApproveOpen
<1>10. ASSUME NEW r \in Req, ScanRead(r) PROVE <1>a!1
  BY <1>0, <1>10, <1>d, <1>f, <1>g DEF ScanRead
<1>11. ASSUME NEW r \in Req, ScanWrite(r) PROVE <1>a!1
  <2>1. req[r].s \in Session /\ req[r].pc # "idle"
    BY <1>0, <1>11 DEF ScanWrite, Bound
  <2>2. row' \in [Session -> Row]
    BY <1>0, <1>11, <2>1, <1>b, <1>c, RowWrites DEF ScanWrite
  <2>3. req' \in [Req -> Request] /\ Bound(req')
    BY <1>0, <1>11, <2>1, <1>h DEF ScanWrite
  <2>4. reopened' \in [Session -> 0..MaxCount]
    BY <1>0, <1>11, <2>1, <1>e DEF ScanWrite
  <2> QED
    BY <1>0, <1>11, <2>2, <2>3, <2>4 DEF ScanWrite
<1>12. ASSUME NEW r \in Req, Expire(r) PROVE <1>a!1
  <2>1. req[r].s \in Session /\ req[r].pc # "idle"
    BY <1>0, <1>12 DEF Expire, Bound
  <2>2. row' \in [Session -> Row]
    BY <1>0, <1>12, <2>1, <1>b, <1>c, RowWrites DEF Expire
  <2>3. req' \in [Req -> Request] /\ Bound(req')
    BY <1>0, <1>12, <2>1, <1>h DEF Expire, Resolved
  <2> QED
    BY <1>0, <1>12, <2>2, <2>3 DEF Expire
<1>13. ASSUME NEW r \in Req, ApproveRead(r) PROVE <1>a!1
  BY <1>0, <1>13, <1>d, <1>f, <1>g DEF ApproveRead
<1>14. ASSUME NEW r \in Req, ApproveWrite(r) PROVE <1>a!1
  <2>1. req[r].s \in Session /\ req[r].u \in User /\ req[r].pc # "idle"
    BY <1>0, <1>14 DEF ApproveWrite, Bound
  <2>2. Approval(r, req[r].s, req[r].u) \in Row
    BY <1>0, <2>1 DEF Approval, Row, Sig, Stamp, Status, Open, Resolved
  <2>3. row' \in [Session -> Row]
    BY <1>0, <1>14, <2>1, <2>2 DEF ApproveWrite
  <2>4. req' \in [Req -> Request] /\ Bound(req')
    BY <1>0, <1>14, <2>1, <1>f, <1>h DEF ApproveWrite, Resolved
  <2>5. approvals' \in [Session -> 0..MaxCount]
    BY <1>0, <1>14, <2>1, <1>e DEF ApproveWrite
  <2> QED
    BY <1>0, <1>14, <2>3, <2>4, <2>5 DEF ApproveWrite
<1>15. ASSUME NEW r \in Req, DenyRead(r) PROVE <1>a!1
  BY <1>0, <1>15, <1>d, <1>f, <1>g DEF DenyRead
<1>16. ASSUME NEW r \in Req, DenyWrite(r) PROVE <1>a!1
  <2>1. req[r].s \in Session /\ req[r].pc # "idle"
    BY <1>0, <1>16 DEF DenyWrite, Bound
  <2>2. row' \in [Session -> Row]
    <3>1. [row EXCEPT ![req[r].s].status = "DENIED", ![req[r].s].at = Sys] \in [Session -> Row]
      BY <1>0, <2>1, <1>b, <1>c, RowWrites
    <3> QED
      BY <1>0, <1>16, <3>1 DEF DenyWrite
  <2>3. req' \in [Req -> Request] /\ Bound(req')
    BY <1>0, <1>16, <2>1, <1>f, <1>h DEF DenyWrite, Resolved
  <2> QED
    BY <1>0, <1>16, <2>2, <2>3 DEF DenyWrite
<1>17. ASSUME NEW r \in Req, Notify(r) PROVE <1>a!1
  BY <1>0, <1>17, <1>f DEF Notify
<1>20. ASSUME NEW r \in Req, RequestFails(r) PROVE <1>a!1
  BY <1>0, <1>20, <1>f DEF RequestFails
<1>18. ASSUME NEW s \in Session, ExchangeClaim(s) PROVE <1>a!1
  <2>0. row[s] \in Row
    BY <1>0
  <2>1. [row[s] EXCEPT !.exchanged = TRUE] \in Row
    <3> HIDE AuthSessionAssumption
    <3> QED
      BY <2>0 DEF Row
  <2> QED
    BY <1>0, <1>18, <2>1 DEF ExchangeClaim
<1>19. CASE UNCHANGED vars
  BY <1>0, <1>19 DEF vars, Bound
<1> QED
  BY <1>1, <1>2, <1>3, <1>4, <1>5, <1>6, <1>8, <1>9, <1>10, <1>11, <1>12,
     <1>13, <1>14, <1>15, <1>16, <1>17, <1>18, <1>19, <1>20 DEF Next, ServiceNext, RequestStep

\* Type correctness of the session table and of every request.
THEOREM TypeCorrect == Spec => []TypeOK
<1>1. Init => TypeOK
  BY AuthSessionAssumption
     DEF Init, TypeOK, Row, NoRow, Request, Idle, Status, Open, Resolved, Stamp, Pc
<1> QED
  BY <1>1, TypeStep, PTL DEF Spec

-----------------------------------------------------------------------------
(* The safety properties, from one inductive invariant *)

\* What a step may do to the requests: go on with the session they name,
\* or start on a session that exists.
Moves ==
    \A q \in Req : req'[q].pc # "idle" =>
        \/ req[q].pc # "idle" /\ req'[q].s = req[q].s
        \/ Exists(req'[q].s)

\* Every step of Next lets a request move only as Moves says.
LEMMA RequestMoves ==
  ASSUME TypeOK, NEW r \in Req
  PROVE  /\ Finish(r) => Moves
         /\ \A pc \in Pc : req[r].pc # "idle" /\ Goto(r, pc) => Moves
         /\ \A ev : req[r].pc # "idle" /\ Notifying(r, ev) => Moves
         /\ \A pc \in Pc, s \in Session, u \in User \cup {None} :
               Exists(s) /\ Begin(r, pc, s, u) => Moves
<1>0. req \in [Req -> Request]
  BY DEF TypeOK
<1>1. ASSUME Finish(r) PROVE Moves
  BY <1>0, <1>1 DEF Finish, Moves, Idle
<1>2. ASSUME NEW pc \in Pc, req[r].pc # "idle", Goto(r, pc) PROVE Moves
  <2>1. \A q \in Req : req'[q].s = req[q].s /\ (q # r => req'[q] = req[q])
    BY <1>0, <1>2 DEF Goto, Request
  <2> QED
    BY <1>2, <2>1 DEF Moves
<1>3. ASSUME NEW ev, req[r].pc # "idle", Notifying(r, ev) PROVE Moves
  <2>1. \A q \in Req : req'[q].s = req[q].s /\ (q # r => req'[q] = req[q])
    BY <1>0, <1>3 DEF Notifying, Request
  <2> QED
    BY <1>3, <2>1 DEF Moves
<1>4. ASSUME NEW pc \in Pc, NEW s \in Session, NEW u \in User \cup {None},
             Exists(s), Begin(r, pc, s, u)
      PROVE  Moves
  <2>1. \A q \in Req : q # r => req'[q] = req[q]
    BY <1>0, <1>4 DEF Begin
  <2>2. req'[r].s = s
    BY <1>0, <1>4 DEF Begin
  <2> QED
    BY <1>4, <2>1, <2>2 DEF Moves
<1> QED
  BY <1>1, <1>2, <1>3, <1>4

\* The rows of the requests go on existing when no row is deleted.
LEMMA KeepRows ==
  ASSUME RowsExist, TypeOK, Moves, \A s \in Session : Exists(s) => Exists(s)',
         \A q \in Req : req'[q].pc # "idle" => req'[q].s \in Session
  PROVE  RowsExist'
BY DEF RowsExist, Moves

\* A step that writes no row, no counter and erases nobody keeps the rest.
LEMMA QuietStep ==
  ASSUME IInv, TypeOK', UNCHANGED <<row, gone, approvals, reopened>>, Moves
  PROVE  IInv'
<1>1. RowsExist'
  <2>1. \A q \in Req : req'[q].pc # "idle" => req'[q].s \in Session
    BY DEF TypeOK
  <2>2. \A s \in Session : Exists(s) => Exists(s)'
    BY DEF Exists
  <2> QED
    BY <2>1, <2>2, KeepRows DEF IInv
<1>2. OpenBudget' /\ OneApprovalPerOpening' /\ ApprovedVerifies' /\ ErasedStaysUnlinked'
  BY DEF IInv, OpenBudget, OneApprovalPerOpening, ApprovedVerifies, ErasedStaysUnlinked,
         VerifyResult
<1> QED
  BY <1>1, <1>2 DEF IInv

\* A step that writes the row of s and its counters keeps the invariant when
\* what it leaves in that row does.
LEMMA RowStep ==
  ASSUME IInv, TypeOK', Moves, NEW s \in Session, UNCHANGED gone,
         \A t \in Session \ {s} : /\ row'[t] = row[t]
                                  /\ approvals'[t] = approvals[t]
                                  /\ reopened'[t] = reopened[t],
         Exists(s) => Exists(s)',
         row'[s].status \in {"NONE"} \cup Open => approvals'[s] <= reopened'[s],
         approvals'[s] <= 1 + reopened'[s],
         s \notin CliSession /\ row'[s].status = "APPROVED" /\ row'[s].user # None =>
            VerifyResult(s)',
         row'[s].user \notin gone
  PROVE  IInv'
<1>1. RowsExist'
  <2>1. \A q \in Req : req'[q].pc # "idle" => req'[q].s \in Session
    BY DEF TypeOK
  <2>2. \A t \in Session : Exists(t) => Exists(t)'
    BY DEF Exists
  <2> QED
    BY <2>1, <2>2, KeepRows DEF IInv
<1>2. OpenBudget' /\ OneApprovalPerOpening'
  BY DEF IInv, OpenBudget, OneApprovalPerOpening
<1>3. ApprovedVerifies'
  BY DEF IInv, ApprovedVerifies, VerifyResult
<1>4. ErasedStaysUnlinked'
  BY DEF IInv, ErasedStaysUnlinked
<1> QED
  BY <1>1, <1>2, <1>3, <1>4 DEF IInv

\* Each action of the service keeps the invariant IInv.
LEMMA InvStep == IInv /\ [Next]_vars => IInv'
<1> SUFFICES ASSUME IInv, [Next]_vars PROVE IInv'
  OBVIOUS
<1>0. TypeOK /\ TypeOK'
  BY TypeStep DEF IInv
<1>a. /\ row \in [Session -> Row]
      /\ approvals \in [Session -> 0..MaxCount]
      /\ reopened \in [Session -> 0..MaxCount]
      /\ gone \in SUBSET User
      /\ \A r \in Req : req[r].pc # "idle" => req[r].s \in Session /\ Exists(req[r].s)
  BY <1>0 DEF TypeOK, IInv, RowsExist
<1>b. \A s \in Session : row[s].user \notin gone
  BY DEF IInv, ErasedStaysUnlinked
<1>c. \A s \in Session :
        /\ approvals[s] <= 1 + reopened[s]
        /\ row[s].status \in {"NONE"} \cup Open => approvals[s] <= reopened[s]
  BY DEF IInv, OneApprovalPerOpening, OpenBudget
<1>d. None \notin gone /\ MaxCount \in Nat
  BY <1>a, AuthSessionAssumption
<1>1. ASSUME NEW s \in Session, Create(s) PROVE IInv'
  <2>1. row'[s] = [row[s] EXCEPT !.status = "PENDING"]
    BY <1>1, <1>a DEF Create
  <2>2. row'[s].status = "PENDING" /\ row'[s].user = row[s].user
    BY <2>1, <1>a DEF Row
  <2>3. Moves
    BY <1>1 DEF Create, Moves
  <2>4. Exists(s) => Exists(s)'
    BY <2>2 DEF Exists
  <2> QED
    BY <1>0, <1>1, <1>a, <1>b, <1>c, <2>2, <2>3, <2>4, RowStep DEF Create
<1>2. ASSUME NEW s \in Session, Elapse(s) PROVE IInv'
  BY <1>0, <1>2, QuietStep DEF Elapse, Moves
<1>3. ASSUME NEW s \in Session, Cleanup(s) PROVE IInv'
  <2>1. row'[s] = [NoRow EXCEPT !.status = "DELETED"]
    BY <1>3, <1>a DEF Cleanup
  <2>2. row'[s].status = "DELETED" /\ row'[s].user = None
    BY <2>1 DEF NoRow
  <2>3. \A t \in Session \ {s} : row'[t] = row[t]
    BY <1>3, <1>a DEF Cleanup
  <2>4. RowsExist'
    BY <1>0, <1>3, <1>a, <2>3 DEF RowsExist, Exists, Cleanup, InFlight
  <2>5. OpenBudget' /\ OneApprovalPerOpening'
    BY <1>3, <1>c, <2>2, <2>3 DEF OpenBudget, OneApprovalPerOpening, Cleanup, Open
  <2>6. ApprovedVerifies'
    BY <2>2, <2>3 DEF IInv, ApprovedVerifies, VerifyResult
  <2>7. ErasedStaysUnlinked'
    BY <1>3, <1>b, <1>d, <2>2, <2>3 DEF ErasedStaysUnlinked, Cleanup
  <2> QED
    BY <1>0, <2>4, <2>5, <2>6, <2>7 DEF IInv
<1>4. ASSUME NEW u \in User, ClaimAccount(u) PROVE IInv'
  <2>1. \A s \in Session : \/ row'[s] = row[s]
                           \/ /\ row[s].status = "APPROVED"
                              /\ row'[s] = [row[s] EXCEPT !.status = "EXPIRED"]
    BY <1>4 DEF ClaimAccount
  <2>2. \A s \in Session :
           /\ row'[s].user = row[s].user
           /\ row'[s] = row[s] \/ (row[s].status = "APPROVED" /\ row'[s].status = "EXPIRED")
    <3> SUFFICES ASSUME NEW s \in Session
                 PROVE  /\ row'[s].user = row[s].user
                        /\ \/ row'[s] = row[s]
                           \/ row[s].status = "APPROVED" /\ row'[s].status = "EXPIRED"
      OBVIOUS
    <3>1. "EXPIRED" \in Status /\ row[s] \in Row
      BY <1>a DEF Status, Resolved
    <3>2. CASE row'[s] = row[s]
      BY <3>2
    <3>3. CASE /\ row[s].status = "APPROVED"
               /\ row'[s] = [row[s] EXCEPT !.status = "EXPIRED"]
      BY <3>1, <3>3, RecordWrite
    <3> QED
      BY <2>1, <3>2, <3>3
  <2>3. RowsExist'
    BY <1>4, <1>a, <2>2 DEF ClaimAccount, RowsExist, Exists
  <2>4. OpenBudget' /\ OneApprovalPerOpening'
    BY <1>4, <1>c, <2>2 DEF ClaimAccount, OpenBudget, OneApprovalPerOpening, Open
  <2>5. ApprovedVerifies'
    BY <2>2 DEF IInv, ApprovedVerifies, VerifyResult
  <2>6. ErasedStaysUnlinked'
    BY <1>4, <1>b, <2>2 DEF ClaimAccount, ErasedStaysUnlinked
  <2> QED
    BY <1>0, <2>3, <2>4, <2>5, <2>6 DEF IInv
<1>5. ASSUME NEW u \in User, EraseUser(u) PROVE IInv'
  <2>1. \A s \in Session : \/ row'[s] = row[s] /\ row[s].user # u
                           \/ row'[s] = [row[s] EXCEPT !.user = None]
    BY <1>5 DEF EraseUser
  <2>2. \A s \in Session :
           /\ row'[s].status = row[s].status
           /\ (row'[s] = row[s] /\ row[s].user # u) \/ row'[s].user = None
    BY <1>a, <2>1 DEF Row
  <2>3. RowsExist'
    BY <1>5, <1>a, <2>2 DEF EraseUser, RowsExist, Exists
  <2>4. OpenBudget' /\ OneApprovalPerOpening'
    BY <1>5, <1>c, <2>2 DEF EraseUser, OpenBudget, OneApprovalPerOpening
  <2>5. ApprovedVerifies'
    BY <2>2 DEF IInv, ApprovedVerifies, VerifyResult
  <2>6. ErasedStaysUnlinked'
    BY <1>5, <1>b, <1>d, <2>2, AuthSessionAssumption DEF EraseUser, ErasedStaysUnlinked
  <2> QED
    BY <1>0, <2>3, <2>4, <2>5, <2>6 DEF IInv
<1>6. ASSUME NEW r \in Req, NEW s \in Session, Poll(r, s) PROVE IInv'
  BY <1>0, <1>6, QuietStep, RequestMoves DEF Poll, Lapsed, Exists, Pc
<1>7. ASSUME NEW r \in Req, NEW s \in Session, NEW u \in User \cup {None},
             NEW next \in Pc, OpenByToken(r, s, u, next)
      PROVE  IInv'
  BY <1>0, <1>7, QuietStep, RequestMoves DEF OpenByToken, Pc
<1>8. ASSUME NEW r \in Req, NEW s \in Session, ScanOpen(r, s) \/ DenyOpen(r, s) PROVE IInv'
  BY <1>8, <1>7 DEF ScanOpen, DenyOpen, Pc
<1>9. ASSUME NEW r \in Req, NEW s \in Session, NEW u \in User, ApproveOpen(r, s, u)
      PROVE IInv'
  BY <1>9, <1>7 DEF ApproveOpen, Pc
<1>10. ASSUME NEW r \in Req, ScanRead(r) PROVE IInv'
  BY <1>0, <1>10, QuietStep, RequestMoves DEF ScanRead, Pc
<1>11. ASSUME NEW r \in Req, ScanWrite(r) PROVE IInv'
  <2>0. PICK s \in Session : s = req[r].s
    BY <1>11, <1>a DEF ScanWrite
  <2>1. Exists(s) /\ Moves
    BY <1>0, <1>11, <1>a, <2>0, RequestMoves DEF ScanWrite
  <2>2. row'[s] = [row[s] EXCEPT !.status = "SCANNED"]
    BY <1>11, <2>0, <1>a, <2>1 DEF ScanWrite
  <2>3. row'[s].status = "SCANNED" /\ row'[s].user = row[s].user
    BY <2>1, <2>2, <1>a DEF Row
  <2>4. Exists(s)'
    BY <2>3 DEF Exists
  <2>5. reopened'[s] = IF row[s].status \in Open THEN reopened[s] ELSE Count(reopened[s])
    BY <1>11, <2>0, <1>a, <2>1 DEF ScanWrite
  <2>6. approvals'[s] <= reopened'[s]
    BY <1>11, <2>0, <1>a, <1>c, <1>d, <2>1, <2>5 DEF ScanWrite, Count
  <2>7. \A t \in Session \ {s} : /\ row'[t] = row[t]
                                  /\ approvals'[t] = approvals[t]
                                  /\ reopened'[t] = reopened[t]
    BY <1>11, <2>0, <1>a DEF ScanWrite
  <2>8. approvals'[s] <= 1 + reopened'[s]
    BY <1>0, <2>1, <2>6, <1>d DEF TypeOK
  <2> QED
    BY <1>0, <1>11, <2>0, <1>b, <2>1, <2>3, <2>4, <2>6, <2>7, <2>8, RowStep DEF ScanWrite
<1>12. ASSUME NEW r \in Req, Expire(r) PROVE IInv'
  <2>0. PICK s \in Session : s = req[r].s
    BY <1>12, <1>a DEF Expire
  <2>1. Exists(s) /\ Moves
    BY <1>0, <1>12, <1>a, <2>0, RequestMoves DEF Expire
  <2>2. row'[s] = [row[s] EXCEPT !.status = "EXPIRED", !.at = Sys]
    BY <1>12, <2>0, <1>a, <2>1 DEF Expire
  <2>3. row'[s].status = "EXPIRED" /\ row'[s].user = row[s].user
    BY <2>1, <2>2, <1>a DEF Row
  <2>4. Exists(s)' /\ row'[s].status \notin {"NONE"} \cup Open
    BY <2>3 DEF Exists, Open
  <2>5. \A t \in Session \ {s} : row'[t] = row[t]
    BY <1>12, <2>0, <1>a DEF Expire
  <2> QED
    BY <1>0, <1>12, <2>0, <1>b, <1>c, <2>1, <2>3, <2>4, <2>5, RowStep DEF Expire
<1>13. ASSUME NEW r \in Req, ApproveRead(r) PROVE IInv'
  BY <1>0, <1>13, QuietStep, RequestMoves DEF ApproveRead, Pc
<1>14. ASSUME NEW r \in Req, ApproveWrite(r) PROVE IInv'
  <2>0. PICK s \in Session, u \in User : s = req[r].s /\ u = req[r].u
    BY <1>14, <1>0, <1>a DEF ApproveWrite, TypeOK
  <2>1. Exists(s) /\ Moves
    BY <1>0, <1>14, <1>a, <2>0, RequestMoves DEF ApproveWrite
  <2>2. CASE ~(StillOpen(s) /\ UserExists(u))
    BY <1>0, <1>14, <2>0, <2>1, <2>2, QuietStep DEF ApproveWrite
  <2>3. CASE StillOpen(s) /\ UserExists(u)
    <3>1. row'[s] = Approval(r, s, u)
      BY <1>14, <2>0, <1>a, <2>1, <2>3 DEF ApproveWrite
    <3>2. /\ row'[s].status = "APPROVED"
          /\ row'[s].user = u
          /\ row'[s].at = r
          /\ row'[s].sig = IF s \in CliSession THEN None ELSE [user |-> u, at |-> r]
      BY <3>1 DEF Approval
    <3>3. approvals'[s] <= 1 + reopened'[s]
      BY <1>14, <2>0, <1>a, <1>c, <1>d, <2>1, <2>3 DEF ApproveWrite, Count, StillOpen, Open
    <3>4. \A t \in Session \ {s} : row'[t] = row[t] /\ approvals'[t] = approvals[t]
      BY <1>14, <2>0, <1>a, <2>3 DEF ApproveWrite
    <3>5. Exists(s)' /\ row'[s].status \notin {"NONE"} \cup Open
      BY <3>2 DEF Exists, Open
    <3>6. s \notin CliSession /\ row'[s].user # None => VerifyResult(s)'
      <4>1. [user |-> u, at |-> r] # None
        BY AuthSessionAssumption
      <4> QED
        BY <3>2, <4>1 DEF VerifyResult
    <3>7. row'[s].user \notin gone
      BY <2>3, <3>2 DEF UserExists
    <3> QED
      BY <1>0, <1>14, <2>0, <2>1, <3>2, <3>3, <3>4, <3>5, <3>6, <3>7, RowStep DEF ApproveWrite
  <2> QED
    BY <2>2, <2>3
<1>15. ASSUME NEW r \in Req, DenyRead(r) PROVE IInv'
  BY <1>0, <1>15, QuietStep, RequestMoves DEF DenyRead, Pc
<1>16. ASSUME NEW r \in Req, DenyWrite(r) PROVE IInv'
  <2>0. PICK s \in Session : s = req[r].s
    BY <1>16, <1>a DEF DenyWrite
  <2>1. Exists(s) /\ Moves
    BY <1>0, <1>16, <1>a, <2>0, RequestMoves DEF DenyWrite
  <2>2. CASE ~StillOpen(s)
    BY <1>0, <1>16, <2>0, <2>1, <2>2, QuietStep DEF DenyWrite
  <2>3. CASE StillOpen(s)
    <3>1. row'[s] = [row[s] EXCEPT !.status = "DENIED", !.at = Sys]
      BY <1>16, <2>0, <1>a, <2>1, <2>3 DEF DenyWrite
    <3>2. row'[s].status = "DENIED" /\ row'[s].user = row[s].user
      BY <2>1, <3>1, <1>a DEF Row
    <3>3. Exists(s)' /\ row'[s].status \notin {"NONE"} \cup Open
      BY <3>2 DEF Exists, Open
    <3>4. \A t \in Session \ {s} : row'[t] = row[t]
      BY <1>16, <2>0, <1>a, <2>3 DEF DenyWrite
    <3> QED
      BY <1>0, <1>16, <2>0, <1>b, <1>c, <2>1, <3>2, <3>3, <3>4, RowStep DEF DenyWrite
  <2> QED
    BY <2>2, <2>3
<1>17. ASSUME NEW r \in Req, Notify(r) PROVE IInv'
  BY <1>0, <1>17, QuietStep, RequestMoves DEF Notify
<1>20. ASSUME NEW r \in Req, RequestFails(r) PROVE IInv'
  BY <1>0, <1>20, QuietStep, RequestMoves DEF RequestFails
<1>18. ASSUME NEW s \in Session, ExchangeClaim(s) PROVE IInv'
  <2>1. row'[s] = [row[s] EXCEPT !.exchanged = TRUE]
    BY <1>18, <1>a DEF ExchangeClaim
  <2>2. row'[s].status = row[s].status /\ row'[s].user = row[s].user
    BY <2>1, <1>a DEF Row
  <2>3. Moves /\ s \in CliSession /\ (Exists(s) => Exists(s)')
    BY <1>18, <2>2 DEF ExchangeClaim, Moves, Exists
  <2> QED
    BY <1>0, <1>18, <1>a, <1>b, <1>c, <2>2, <2>3, RowStep DEF ExchangeClaim
<1>19. CASE UNCHANGED vars
  BY <1>0, <1>19, QuietStep DEF vars, Moves
<1> QED
  BY <1>1, <1>2, <1>3, <1>4, <1>5, <1>6, <1>8, <1>9, <1>10, <1>11, <1>12,
     <1>13, <1>14, <1>15, <1>16, <1>17, <1>18, <1>19, <1>20 DEF Next, ServiceNext, RequestStep

\* The invariant holds before the first session is created.
LEMMA InvStart == Init => IInv
<1> SUFFICES ASSUME Init PROVE IInv
  OBVIOUS
<1>1. TypeOK
  BY AuthSessionAssumption
     DEF Init, TypeOK, Row, NoRow, Request, Idle, Status, Open, Resolved, Stamp, Pc
<1>2. \A r \in Req : req[r].pc = "idle"
  BY DEF Init, Idle
<1>3. \A s \in Session : row[s].status = "NONE" /\ row[s].user = None
  BY DEF Init, NoRow
<1> QED
  BY <1>1, <1>2, <1>3
     DEF Init, IInv, RowsExist, OpenBudget, OneApprovalPerOpening, ApprovedVerifies,
         ErasedStaysUnlinked

\* The invariant holds throughout.
LEMMA InvAlways == Spec => []IInv
BY InvStart, InvStep, PTL DEF Spec

\* The conditional write of approveSession lets one approval through per
\* opening of a session, for any number of approvers and requests.
THEOREM ApprovalPerOpening == Spec => []OneApprovalPerOpening
<1>1. IInv => OneApprovalPerOpening
  BY DEF IInv
<1> QED
  BY <1>1, InvAlways, PTL

\* An APPROVED federation session still linked to its approver passes
\* /verify-result: status, user, resolvedAt and signature belong together.
THEOREM ApprovedVerify == Spec => []ApprovedVerifies
<1>1. IInv => ApprovedVerifies
  BY DEF IInv
<1> QED
  BY <1>1, InvAlways, PTL

\* No approval under way brings the link to an erased account back.
THEOREM ErasedUnlinked == Spec => []ErasedStaysUnlinked
<1>1. IInv => ErasedStaysUnlinked
  BY DEF IInv
<1> QED
  BY <1>1, InvAlways, PTL

\* The step form of ResolutionIsFinal: only a request that decided on a
\* stale read may reopen a resolved session.
LEMMA FinalStep ==
  ASSUME TypeOK, [Next]_vars, NEW s \in Session, row[s].status \in Resolved, ~StaleWriter(s)
  PROVE  \/ row'[s].status \in {row[s].status, "DELETED"}
         \/ row[s].status = "APPROVED" /\ row'[s].status = "EXPIRED"
<1>0. row \in [Session -> Row]
  BY DEF TypeOK
<1>a. row[s].status \notin {"NONE", "PENDING", "SCANNED"} /\ ~StillOpen(s)
  BY DEF Resolved, StillOpen, Open
<1>1. ASSUME NEW t \in Session, Create(t) PROVE row'[s] = row[s]
  BY <1>0, <1>1, <1>a DEF Create
<1>2. ASSUME NEW t \in Session, Cleanup(t)
      PROVE  row'[s] = row[s] \/ row'[s].status = "DELETED"
  BY <1>0, <1>2 DEF Cleanup, NoRow
<1>3. ASSUME NEW u \in User, ClaimAccount(u)
      PROVE  row'[s] = row[s] \/ (row[s].status = "APPROVED" /\ row'[s].status = "EXPIRED")
  <2>1. "EXPIRED" \in Status /\ row[s] \in Row
    BY <1>0 DEF Status, Resolved
  <2>2. CASE row'[s] = row[s]
    BY <2>2
  <2>3. CASE /\ row[s].status = "APPROVED"
             /\ row'[s] = [row[s] EXCEPT !.status = "EXPIRED"]
    BY <2>1, <2>3, RecordWrite
  <2> QED
    BY <1>3, <2>2, <2>3 DEF ClaimAccount
<1>4. ASSUME NEW u \in User, EraseUser(u) PROVE row'[s].status = row[s].status
  <2>1. row'[s] = row[s] \/ row'[s] = [row[s] EXCEPT !.user = None]
    BY <1>4 DEF EraseUser
  <2> QED
    BY <1>0, <2>1 DEF Row
<1>5. ASSUME NEW r \in Req, ScanWrite(r) \/ Expire(r) PROVE row'[s] = row[s]
  <2>1. req[r].s # s
    BY <1>5 DEF StaleWriter, ScanWrite, Expire
  <2> QED
    BY <1>0, <1>5, <2>1 DEF ScanWrite, Expire
<1>6. ASSUME NEW r \in Req, ApproveWrite(r) PROVE row'[s] = row[s]
  BY <1>0, <1>6, <1>a DEF ApproveWrite
<1>7. ASSUME NEW r \in Req, DenyWrite(r) PROVE row'[s] = row[s]
  BY <1>0, <1>7, <1>a DEF DenyWrite
<1>8. ASSUME NEW t \in Session, ExchangeClaim(t) PROVE row'[s].status = row[s].status
  <2>1. row'[s] = row[s] \/ row'[s] = [row[s] EXCEPT !.exchanged = TRUE]
    BY <1>0, <1>8 DEF ExchangeClaim
  <2> QED
    BY <1>0, <2>1 DEF Row
<1>9. CASE row' = row
  BY <1>9
<1> QED
  BY <1>1, <1>2, <1>3, <1>4, <1>5, <1>6, <1>7, <1>8, <1>9
     DEF Next, ServiceNext, RequestStep, vars, Elapse, Poll, ScanOpen, DenyOpen, ApproveOpen,
         OpenByToken, ScanRead, ApproveRead, DenyRead, Notify, RequestFails

\* A resolved session stays resolved as it is unless a request that read it
\* earlier writes it by id (markScanned, expireSession).
THEOREM ResolutionFinal == Spec => ResolutionIsFinal
<1>1. TypeOK /\ [Next]_vars =>
        [\A s \in Session :
           row[s].status \in Resolved /\ ~StaleWriter(s) =>
              \/ row'[s].status \in {row[s].status, "DELETED"}
              \/ row[s].status = "APPROVED" /\ row'[s].status = "EXPIRED"]_vars
  BY FinalStep
<1> QED
  BY <1>1, TypeCorrect, PTL DEF Spec, ResolutionIsFinal
=============================================================================
