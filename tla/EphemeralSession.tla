-------------------------- MODULE EphemeralSession --------------------------
(***************************************************************************)
(* An ephemeral session (packages/api/src/services/ephemeral.ts and its    *)
(* routes): a claim URL good for maxUses claims until it expires or is     *)
(* revoked.  The module follows one row; every statement of the service    *)
(* addresses rows by id, so the rows of an organization do not interact.   *)
(* Each action is one awaited statement of one request.                    *)
(*                                                                         *)
(* Data abstraction.  The clock has three phases: far from expiresAt, less *)
(* than a second before it (the whole-second lifetime of the Redis entry   *)
(* rounds down to zero), and past it.  A fingerprint hash is the device it *)
(* came from.  The Redis entry maps the token to the id of the row, which  *)
(* never changes, so only its failing write is kept.                       *)
(***************************************************************************)
EXTENDS Naturals, Sequences, FiniteSets

CONSTANTS
    Device,       \* device fingerprints
    Req,          \* concurrently running HTTP requests
    NoDevice,     \* an absent value
    MaxUses,      \* the largest maxUses a session may be created with
    MaxAttempts   \* MAX_ATTEMPTS of the compare-and-swap loop

ASSUME EphemeralAssumption ==
    /\ NoDevice \notin Device
    /\ MaxUses \in Nat \ {0}
    /\ MaxAttempts \in Nat \ {0}

VARIABLES
    row,        \* the ephemeral_sessions row
    clock,      \* where now is relative to expiresAt
    req,        \* what each running request does next and remembers
    uses,       \* history: the claims that won, in order
    answers     \* history: the use counts claims were answered with, or lost on an error

vars == <<row, clock, req, uses, answers>>

-----------------------------------------------------------------------------

Status == {"NONE", "PENDING", "CLAIMED", "EXPIRED", "REVOKED"}
Holder == Device \cup {NoDevice}

Row == [status : Status, useCount : 0..MaxUses, maxUses : 0..MaxUses,
        deviceBinding : BOOLEAN, bound : Holder]

NoRow == [status |-> "NONE", useCount |-> 0, maxUses |-> 0,
          deviceBinding |-> FALSE, bound |-> NoDevice]

\* A request remembers its fingerprint, the row it read last (useCount and
\* boundDeviceHash are all it uses of it) and the attempts it has lost.
Request == [pc : {"idle", "cas", "reread", "respond", "expire", "revoke"},
            dev : Holder, seen : 0..MaxUses, hash : Holder, lost : 0..MaxAttempts]

Idle == [pc |-> "idle", dev |-> NoDevice, seen |-> 0, hash |-> NoDevice, lost |-> 0]

\* told: the counts sent in a 200 answer, each with an ephemeral.claimed
\* event; failed: those of claims that ended in a 500.
Answers == [told : SUBSET Nat, failed : SUBSET Nat]

TypeOK ==
    /\ row \in Row
    /\ clock \in {"live", "ending", "past"}
    /\ req \in [Req -> Request]
    /\ uses \in Seq([dev : Holder, n : Nat])
    /\ answers \in Answers

Init ==
    /\ row = NoRow
    /\ clock = "live"
    /\ req = [r \in Req |-> Idle]
    /\ uses = <<>>
    /\ answers = [told |-> {}, failed |-> {}]

-----------------------------------------------------------------------------

Goto(r, pc) == req' = [req EXCEPT ![r].pc = pc]
Finish(r)   == req' = [req EXCEPT ![r] = Idle]
Start(r, pc) == req' = [req EXCEPT ![r] = [Idle EXCEPT !.pc = pc]]

\* POST /ephemeral: createSession.
Create(max, binding) ==
    /\ row.status = "NONE"
    /\ row' = [NoRow EXCEPT !.status = "PENDING", !.maxUses = max,
                            !.deviceBinding = binding]
    /\ UNCHANGED <<clock, req, uses, answers>>

\* Time passes.
Elapse ==
    /\ row.status # "NONE"
    /\ \/ clock = "live" /\ clock' = "ending"
       \/ clock = "ending" /\ clock' = "past"
    /\ UNCHANGED <<row, req, uses, answers>>

\* The hash a claim writes, from the row it read: the device binds a session
\* that is not bound yet, otherwise the stored hash is written back.
BindHash(d) ==
    IF row.deviceBinding /\ row.bound = NoDevice /\ d # NoDevice THEN d ELSE row.bound

\* POST /:token/claim, the row claimSession reads and its checks.
ClaimRead(r, d) ==
    /\ req[r].pc = "idle"
    /\ row.status = "PENDING"
    /\ IF clock = "past" THEN Start(r, "expire")
       ELSE /\ row.deviceBinding => d # NoDevice /\ row.bound \in {NoDevice, d}
            /\ req' = [req EXCEPT ![r] = [pc |-> "cas", dev |-> d, lost |-> 0,
                                          seen |-> row.useCount, hash |-> BindHash(d)]]
    /\ UNCHANGED <<row, clock, uses, answers>>

\* The WHERE clause of the compare-and-swap.
StillPending(r) == row.status = "PENDING"  \* mutant
CasHits(r) == row.status = "PENDING" /\ row.useCount = req[r].seen

\* The columns a claim writes; maxUses is immutable.
Claimed(r) ==
    [row EXCEPT !.useCount = req[r].seen + 1, !.bound = req[r].hash,
                !.status = IF req[r].seen + 1 >= row.maxUses THEN "CLAIMED" ELSE "PENDING"]

\* claimSession, the conditional write.  Neither the expiry nor the device
\* is looked at again.
ClaimCas(r) ==
    /\ req[r].pc = "cas"
    /\ IF CasHits(r)
       THEN /\ row' = Claimed(r)
            /\ uses' = Append(uses, [dev |-> req[r].dev, n |-> req[r].seen + 1])
            /\ Goto(r, "respond")
       ELSE UNCHANGED <<row, uses>> /\ Goto(r, "reread")
    /\ UNCHANGED <<clock, answers>>

\* claimSession after a miss: give up with a 409 when the row closed or the
\* attempts are spent, else take the row just read into the next attempt.
AnswersAnyway(r) == Goto(r, "respond")  \* mutant
GivesUp(r) == Finish(r)
ClaimReread(r) ==
    /\ req[r].pc = "reread"
    /\ IF row.status = "PENDING" /\ row.useCount < row.maxUses /\ req[r].lost + 1 < MaxAttempts
       THEN req' = [req EXCEPT ![r].pc = "cas", ![r].lost = @ + 1,
                               ![r].seen = row.useCount, ![r].hash = BindHash(req[r].dev)]
       ELSE GivesUp(r)
    /\ UNCHANGED <<row, clock, uses, answers>>

\* The last use drops the Redis entry; any other one stores it again for
\* the whole seconds left, and Redis refuses a lifetime of zero.
CacheAccepts(r) == req[r].seen + 1 >= row.maxUses \/ clock = "live"

\* The claim's Redis call, then the ephemeral.claimed event (not awaited, its
\* own failure is ignored) and the answer, which tells the use count.
ClaimRespond(r) ==
    /\ req[r].pc = "respond"
    /\ CacheAccepts(r)
    /\ answers' = [answers EXCEPT !.told = @ \cup {req[r].seen + 1}]
    /\ Finish(r)
    /\ UNCHANGED <<row, clock, uses>>

\* Any Redis error on the way ends the claim with a 500 and no event: the use
\* is spent.  So does a write that was committed but not confirmed.
RespondFails(r) ==
    /\ req[r].pc = "respond"
    /\ answers' = [answers EXCEPT !.failed = @ \cup {req[r].seen + 1}]
    /\ Finish(r)
    /\ UNCHANGED <<row, clock, uses>>

\* GET /:id and GET /: a PENDING row read after its expiry is expired.
GetStale(r) ==
    /\ req[r].pc = "idle"
    /\ row.status = "PENDING"
    /\ clock = "past"
    /\ Start(r, "expire")
    /\ UNCHANGED <<row, clock, uses, answers>>
ListStale(r) == GetStale(r)

\* The expiring write, conditional on PENDING.
ExpireWhere == row.status = "PENDING"
Expire(r) ==
    /\ req[r].pc = "expire"
    /\ row' = IF ExpireWhere THEN [row EXCEPT !.status = "EXPIRED"] ELSE row
    /\ Finish(r)
    /\ UNCHANGED <<clock, uses, answers>>

\* A claim does not await that write and ignores its failure; a get or a
\* list answers 500.
ExpireFails(r) ==
    /\ req[r].pc = "expire"
    /\ Finish(r)
    /\ UNCHANGED <<row, clock, uses, answers>>

\* DELETE /:id: revokeSession reads the row, then revokes it whatever other
\* status it has by then.
RevokeRead(r) ==
    /\ req[r].pc = "idle"
    /\ row.status \notin {"NONE", "REVOKED"}
    /\ Start(r, "revoke")
    /\ UNCHANGED <<row, clock, uses, answers>>

RevokeWrite(r) ==
    /\ req[r].pc = "revoke"
    /\ row' = IF row.status # "REVOKED" THEN [row EXCEPT !.status = "REVOKED"] ELSE row
    /\ Finish(r)
    /\ UNCHANGED <<clock, uses, answers>>

RequestStep(r) ==
    \/ ClaimCas(r) \/ ClaimReread(r) \/ ClaimRespond(r) \/ RespondFails(r)
    \/ Expire(r) \/ ExpireFails(r) \/ RevokeWrite(r)

Next ==
    \/ \E max \in 1..MaxUses, binding \in BOOLEAN : Create(max, binding)
    \/ Elapse
    \/ \E r \in Req, d \in Holder : ClaimRead(r, d)
    \/ \E r \in Req : GetStale(r) \/ ListStale(r) \/ RevokeRead(r) \/ RequestStep(r)

Spec == Init /\ [][Next]_vars

-----------------------------------------------------------------------------
(* Properties *)

\* The row keeps the budget that racing claims spend: a PENDING session has
\* uses left, a CLAIMED one has none, and useCount is the number of claims
\* that won (the compare-and-swap of claimSession loses no increment and
\* counts none twice).
BudgetIsExact ==
    /\ row.useCount = Len(uses)
    /\ row.status = "PENDING" => row.useCount < row.maxUses
    /\ row.status = "CLAIMED" => row.useCount = row.maxUses

\* A device-bound session is bound to whoever won the first claim, for
\* good: a claim that lost its first attempt writes back the hash it read
\* again, not the one it computed before.
BoundToFirstClaimer ==
    row.deviceBinding /\ uses # <<>> => row.bound = uses[1].dev

\* A claim answers "sustained contention" only when that many other claims
\* got through: every lost attempt of a request is another claim's win that
\* it has seen since, or the end of the session.
ContentionIsProgress ==
    \A r \in Req :
        /\ req[r].pc = "cas" => req[r].lost <= req[r].seen
        /\ req[r].pc = "reread" => row.status # "PENDING" \/ req[r].lost < row.useCount

\* The session is the use ledger: the row hands out uses as one atomic
\* counter would, and once closed never opens again.
Ledger == INSTANCE UseLedger WITH
    Device <- Holder, budget <- row.maxUses, open <- row.status = "PENDING"
RefinesLedger == Ledger!LedgerSpec

\* A late expiry or claim cannot rewrite how a session ended: CLAIMED and
\* EXPIRED only ever become REVOKED, and REVOKED stays (the expiring and the
\* claiming write both carry status PENDING in their WHERE).
EndingIsFinal ==
    [][row.status \in {"CLAIMED", "EXPIRED", "REVOKED"} =>
          row'.status \in {row.status, "REVOKED"}]_vars

\* The claims that won their use and have not answered yet.
Answering == {r \in Req : req[r].pc = "respond"}

InHand == {req[r].seen + 1 : r \in Answering}

\* Every use has its one claim, however claims race and whatever they lost
\* before: it was answered and announced with that use's count, is about to
\* be, or ended on an error after the use was spent.  No two claims are told
\* the same count, and none is told one that the row did not count.
EachUseHasItsClaim ==
    /\ answers.told \cup answers.failed \cup InHand = 1..Len(uses)
    /\ answers.told \cap answers.failed = {}
    /\ InHand \cap (answers.told \cup answers.failed) = {}
    /\ \A r, s \in Answering : req[r].seen = req[s].seen => r = s

\* What the API documentation says of a device-bound session: every claim
\* after the first comes from the device that made the first.
DeviceBindingHolds ==
    row.deviceBinding => \A i \in 1..Len(uses) : uses[i].dev = uses[1].dev

-----------------------------------------------------------------------------
(* The inductive invariant behind the safety properties *)

\* A row that does not exist has no request and no use yet.
NothingBeforeCreate ==
    row.status = "NONE" =>
        row = NoRow /\ uses = <<>> /\ \A r \in Req : req[r].pc = "idle"

\* useCount only grows, so a claim whose count still matches read the very
\* row it is about to write: the hash it carries is the one for that row.
ClaimsAreCurrent ==
    \A r \in Req :
        /\ req[r].pc \in {"cas", "reread"} /\ row.deviceBinding => req[r].dev # NoDevice
        /\ req[r].pc = "cas" =>
              /\ req[r].seen <= row.useCount
              /\ req[r].seen = row.useCount => req[r].hash = BindHash(req[r].dev)

\* A device-bound session is unbound exactly until its first use.
UnboundUntilUsed ==
    row.deviceBinding => (row.bound = NoDevice <=> uses = <<>>)

IInv ==
    /\ TypeOK
    /\ NothingBeforeCreate
    /\ BudgetIsExact
    /\ ClaimsAreCurrent
    /\ UnboundUntilUsed
    /\ BoundToFirstClaimer
    /\ ContentionIsProgress

\* EachUseHasItsClaim is inductive beside it: a claim that wins takes the
\* first count that is free.
AnswerInv == IInv /\ EachUseHasItsClaim

=============================================================================
