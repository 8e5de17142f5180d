-------------------------- MODULE EphemeralProofs --------------------------
(***************************************************************************)
(* EphemeralSession implements UseLedger, and keeps its budget and its     *)
(* device binding, for any number of requests, devices, uses and attempts. *)
(***************************************************************************)
EXTENDS EphemeralSession, FiniteSetTheorems, TLAPS

\* What a request may become when it moves on, whatever it was before.
LEMMA IdleTyped == Idle \in Request
BY EphemeralAssumption DEF Idle, Request, Holder

\* Before the session is created the invariant holds.
LEMMA InitIInv == Init => IInv
<1> SUFFICES ASSUME Init PROVE IInv
    OBVIOUS
<1>1. TypeOK
    <2>1. row \in Row
        BY EphemeralAssumption DEF Init, NoRow, Row, Status, Holder
    <2>2. req \in [Req -> Request]
        BY IdleTyped DEF Init
    <2> QED BY <2>1, <2>2 DEF Init, TypeOK, Answers
<1>2. \A r \in Req : req[r].pc = "idle"
    BY DEF Init, Idle
<1>3. row.status = "NONE" /\ row.useCount = 0 /\ row.deviceBinding = FALSE /\ uses = <<>>
    BY DEF Init, NoRow
<1> QED
    BY <1>1, <1>2, <1>3 DEF IInv, NothingBeforeCreate, BudgetIsExact, ClaimsAreCurrent,
       UnboundUntilUsed, BoundToFirstClaimer, ContentionIsProgress, Init

\* Steps that leave the row and the uses alone and start no attempt: what
\* IInv says of a request is kept when the request leaves the claim loop.
LEMMA QuietStep ==
    ASSUME IInv, NEW r \in Req, row' = row, uses' = uses,
           clock' \in {"live", "ending", "past"}, answers' \in Answers,
           NEW q \in Request, q.pc \notin {"cas", "reread"},
           row.status # "NONE", req' = [req EXCEPT ![r] = q]
    PROVE  IInv'
<1>1. TypeOK'
    BY DEF IInv, TypeOK
<1>2. \A t \in Req : req'[t] = req[t] \/ req'[t].pc \notin {"cas", "reread"}
    BY DEF IInv, TypeOK
<1>3. ClaimsAreCurrent' /\ ContentionIsProgress'
    BY <1>2 DEF IInv, ClaimsAreCurrent, ContentionIsProgress, BindHash
<1> QED
    BY <1>1, <1>3 DEF IInv, NothingBeforeCreate, BudgetIsExact, UnboundUntilUsed,
       BoundToFirstClaimer

\* Steps that close the row and end their request.
LEMMA CloseStep ==
    ASSUME IInv, NEW r \in Req, NEW st \in {"EXPIRED", "REVOKED"}, row.status # "NONE",
           row' = [row EXCEPT !.status = st], uses' = uses, clock' = clock,
           answers' = answers, req' = [req EXCEPT ![r] = Idle]
    PROVE  IInv'
<1>1. TypeOK'
    BY IdleTyped DEF IInv, TypeOK, Row, Status
<1>2. /\ row'.status = st /\ row'.useCount = row.useCount /\ row'.maxUses = row.maxUses
      /\ row'.deviceBinding = row.deviceBinding /\ row'.bound = row.bound
    BY DEF IInv, TypeOK, Row
<1>3. \A t \in Req : req'[t] = req[t] \/ req'[t].pc = "idle"
    BY DEF IInv, TypeOK, Idle
<1>4. ClaimsAreCurrent' /\ ContentionIsProgress'
    BY <1>2, <1>3 DEF IInv, ClaimsAreCurrent, ContentionIsProgress, BindHash
<1> QED
    BY <1>1, <1>2, <1>4 DEF IInv, NothingBeforeCreate, BudgetIsExact, UnboundUntilUsed,
       BoundToFirstClaimer

\* Requests that enter or re-enter the loop with the row they just read.
LEMMA AttemptStep ==
    ASSUME IInv, NEW r \in Req, NEW d \in Holder, NEW l \in 0..MaxAttempts,
           row.status = "PENDING", row.deviceBinding => d # NoDevice, l <= row.useCount,
           req' = [req EXCEPT ![r] = [pc |-> "cas", dev |-> d, lost |-> l,
                                      seen |-> row.useCount, hash |-> BindHash(d)]],
           UNCHANGED <<row, clock, uses, answers>>
    PROVE  IInv'
<1> DEFINE q == [pc |-> "cas", dev |-> d, lost |-> l, seen |-> row.useCount,
                 hash |-> BindHash(d)]
<1>1. q \in Request
    BY DEF IInv, TypeOK, Row, Request, BindHash, Holder
<1>2. TypeOK'
    BY <1>1 DEF IInv, TypeOK
<1>3. \A t \in Req : t # r => req'[t] = req[t]
    BY DEF IInv, TypeOK
<1>4. req'[r] = q
    BY DEF IInv, TypeOK
<1>5. row.useCount \in Nat
    BY DEF IInv, TypeOK, Row
<1>6. ClaimsAreCurrent'
    BY <1>3, <1>4, <1>5 DEF IInv, ClaimsAreCurrent, BindHash
<1>7. ContentionIsProgress'
    BY <1>3, <1>4 DEF IInv, ContentionIsProgress
<1> QED
    BY <1>2, <1>6, <1>7 DEF IInv, NothingBeforeCreate, BudgetIsExact, UnboundUntilUsed,
       BoundToFirstClaimer

\* What the winning write of claimSession does to the row and to the ledger.
LEMMA WinStep ==
    ASSUME IInv, NEW r \in Req, ClaimCas(r), CasHits(r)
    PROVE  /\ IInv'
           /\ row.useCount < row.maxUses
           /\ row'.maxUses = row.maxUses
           /\ row'.status = IF row.useCount + 1 < row.maxUses THEN "PENDING" ELSE "CLAIMED"
           /\ uses' = Append(uses, [dev |-> req[r].dev, n |-> Len(uses) + 1])
<1> DEFINE d == req[r].dev
<1>1. /\ req[r] \in Request /\ d \in Holder /\ req[r].hash \in Holder
      /\ row \in Row /\ uses \in Seq([dev : Holder, n : Nat])
    BY DEF IInv, TypeOK, Request
<1>2. /\ row.status = "PENDING" /\ req[r].seen = row.useCount
      /\ row.useCount \in Nat /\ row.maxUses \in 0..MaxUses
      /\ row.useCount < row.maxUses /\ row.useCount = Len(uses)
    BY <1>1 DEF CasHits, IInv, BudgetIsExact, Row
<1>3. req[r].hash = BindHash(d)
    BY <1>2 DEF ClaimCas, IInv, ClaimsAreCurrent
<1>4. /\ row'.useCount = row.useCount + 1 /\ row'.maxUses = row.maxUses
      /\ row'.deviceBinding = row.deviceBinding /\ row'.bound = BindHash(d)
      /\ row'.status = IF row.useCount + 1 < row.maxUses THEN "PENDING" ELSE "CLAIMED"
    <2>1. row' = [row EXCEPT !.useCount = row.useCount + 1, !.bound = BindHash(d),
                             !.status = IF row.useCount + 1 >= row.maxUses THEN "CLAIMED" ELSE "PENDING"]
        BY <1>2, <1>3 DEF ClaimCas, Claimed
    <2>2. /\ row'.useCount = row.useCount + 1 /\ row'.maxUses = row.maxUses
          /\ row'.deviceBinding = row.deviceBinding /\ row'.bound = BindHash(d)
          /\ row'.status = IF row.useCount + 1 >= row.maxUses THEN "CLAIMED" ELSE "PENDING"
        BY <2>1, <1>1 DEF Row
    <2> QED BY <2>2, <1>2
<1>5. uses' = Append(uses, [dev |-> d, n |-> Len(uses) + 1])
    BY <1>2 DEF ClaimCas
<1>6. Len(uses') = Len(uses) + 1 /\ uses' # <<>> /\ uses'[1] = IF uses = <<>> THEN [dev |-> d, n |-> Len(uses) + 1] ELSE uses[1]
    <2>1. [dev |-> d, n |-> Len(uses) + 1] \in [dev : Holder, n : Nat]
        BY <1>1
    <2> QED BY <1>1, <1>5, <2>1
<1>7. TypeOK'
    <2>1. row' \in Row
        <3>1. row' = [row EXCEPT !.useCount = row.useCount + 1, !.bound = req[r].hash,
                                 !.status = row'.status]
            BY <1>1, <1>2 DEF ClaimCas, Claimed, Row
        <3>2. row.useCount + 1 \in 0..MaxUses
            BY <1>2, EphemeralAssumption
        <3>3. row'.status \in Status
            BY <1>4 DEF Status
        <3> HIDE DEF d
        <3> QED BY <3>1, <3>2, <3>3, <1>1 DEF Row
    <2>2. uses' \in Seq([dev : Holder, n : Nat])
        BY <1>1, <1>5
    <2>3. req' \in [Req -> Request]
        <3>1. [req[r] EXCEPT !.pc = "respond"] \in Request
            BY <1>1 DEF Request
        <3>2. req' = [req EXCEPT ![r] = [req[r] EXCEPT !.pc = "respond"]]
            BY DEF ClaimCas, Goto
        <3> QED BY <3>1, <3>2 DEF IInv, TypeOK
    <2> QED BY <2>1, <2>2, <2>3 DEF ClaimCas, IInv, TypeOK
<1>8. \A t \in Req : req'[t] = req[t] \/ req'[t].pc = "respond"
    BY <1>1 DEF ClaimCas, Goto, IInv, TypeOK, Request
<1>9. NothingBeforeCreate' /\ BudgetIsExact'
    BY <1>2, <1>4, <1>6 DEF NothingBeforeCreate, BudgetIsExact
<1>10. d # NoDevice \/ ~row.deviceBinding
    BY DEF ClaimCas, IInv, ClaimsAreCurrent
<1>11. UnboundUntilUsed' /\ BoundToFirstClaimer'
    BY <1>4, <1>6, <1>10 DEF IInv, UnboundUntilUsed, BoundToFirstClaimer, BindHash
<1>12. ClaimsAreCurrent'
    <2> SUFFICES ASSUME NEW t \in Req, req'[t].pc \in {"cas", "reread"}
                 PROVE  /\ row'.deviceBinding => req'[t].dev # NoDevice
                        /\ req'[t].pc = "cas" => req'[t].seen < row'.useCount
        <3>1. \A t \in Req : req'[t].seen \in Nat
            BY <1>7 DEF TypeOK, Request
        <3> QED BY <3>1, <1>2, <1>4 DEF ClaimsAreCurrent
    <2>1. req'[t] = req[t]
        BY <1>8
    <2>2. req[t] \in Request /\ req[t].seen \in Nat
        BY DEF IInv, TypeOK, Request
    <2> QED BY <2>1, <2>2, <1>2, <1>4 DEF IInv, ClaimsAreCurrent
<1>13. ContentionIsProgress'
    <2> SUFFICES ASSUME NEW t \in Req, req'[t].pc \in {"cas", "reread"}
                 PROVE  /\ req'[t].pc = "cas" => req'[t].lost <= req'[t].seen
                        /\ req'[t].pc = "reread" => req'[t].lost < row'.useCount
        BY DEF ContentionIsProgress
    <2>1. req'[t] = req[t]
        BY <1>8
    <2>2. req[t] \in Request /\ req[t].lost \in Nat
        BY DEF IInv, TypeOK, Request
    <2> QED BY <2>1, <2>2, <1>2, <1>4 DEF IInv, ContentionIsProgress
<1> QED
    BY <1>2, <1>4, <1>5, <1>7, <1>9, <1>11, <1>12, <1>13 DEF IInv

\* Every step keeps IInv and is a step of the ledger or leaves it alone.
LEMMA Step ==
    ASSUME IInv, [Next]_vars
    PROVE  IInv' /\ [Ledger!LedgerNext]_(Ledger!ledgerVars)
<1> DEFINE Quiet == row' = row /\ uses' = uses
<1>0. ASSUME Quiet PROVE [Ledger!LedgerNext]_(Ledger!ledgerVars)
    BY <1>0 DEF Ledger!ledgerVars
<1>1. ASSUME NEW max \in 1..MaxUses, NEW binding \in BOOLEAN, Create(max, binding)
      PROVE  IInv' /\ Ledger!Grant
    <2>1. /\ row' = [NoRow EXCEPT !.status = "PENDING", !.maxUses = max, !.deviceBinding = binding]
          /\ UNCHANGED <<clock, req, uses, answers>>
          /\ row = NoRow /\ uses = <<>> /\ \A r \in Req : req[r].pc = "idle"
        BY <1>1 DEF Create, IInv, NothingBeforeCreate
    <2>2. /\ row'.status = "PENDING" /\ row'.maxUses = max /\ row'.useCount = 0
          /\ row'.bound = NoDevice /\ row'.deviceBinding = binding
          /\ row.maxUses = 0
        BY <2>1 DEF NoRow
    <2>3. row' \in Row
        <3>1. row' = [status |-> "PENDING", useCount |-> 0, maxUses |-> max,
                      deviceBinding |-> binding, bound |-> NoDevice]
            BY <2>1 DEF NoRow
        <3>2. max \in 0..MaxUses /\ 0 \in 0..MaxUses
            BY EphemeralAssumption
        <3> QED BY <3>1, <3>2 DEF Row, Status, Holder
    <2>4. TypeOK'
        BY <2>1, <2>3 DEF IInv, TypeOK
    <2>5. NothingBeforeCreate' /\ BudgetIsExact' /\ UnboundUntilUsed' /\ BoundToFirstClaimer'
        BY <2>1, <2>2 DEF NothingBeforeCreate, BudgetIsExact, UnboundUntilUsed, BoundToFirstClaimer
    <2>6. ClaimsAreCurrent' /\ ContentionIsProgress'
        BY <2>1 DEF ClaimsAreCurrent, ContentionIsProgress
    <2>7. Ledger!Grant
        BY <2>1, <2>2 DEF Ledger!Grant
    <2> QED BY <2>4, <2>5, <2>6, <2>7 DEF IInv
<1>2. CASE Elapse
    <2>1. UNCHANGED <<row, req, uses, answers>> /\ clock' \in {"live", "ending", "past"}
        BY <1>2 DEF Elapse
    <2>2. IInv'
        BY <2>1 DEF IInv, TypeOK, NothingBeforeCreate, BudgetIsExact, ClaimsAreCurrent,
           UnboundUntilUsed, BoundToFirstClaimer, ContentionIsProgress, BindHash
    <2> QED BY <2>1, <2>2, <1>0
<1>3. ASSUME NEW r \in Req, NEW pc \in {"expire", "revoke"}, row.status # "NONE", Start(r, pc),
             UNCHANGED <<row, clock, uses, answers>>
      PROVE  IInv'
    <2>1. [Idle EXCEPT !.pc = pc] \in Request /\ [Idle EXCEPT !.pc = pc].pc = pc
        BY EphemeralAssumption DEF Idle, Request, Holder
    <2>2. clock \in {"live", "ending", "past"} /\ answers \in Answers
        BY DEF IInv, TypeOK
    <2> QED BY <1>3, <2>1, <2>2, QuietStep DEF Start
<1>4. ASSUME NEW r \in Req, Finish(r), req[r].pc # "idle", row' = row, clock' = clock,
             uses' = uses, answers' \in Answers
      PROVE  IInv'
    <2>1. row.status # "NONE"
        BY <1>4 DEF IInv, NothingBeforeCreate
    <2>2. Idle.pc = "idle"
        BY DEF Idle
    <2>3. clock \in {"live", "ending", "past"}
        BY DEF IInv, TypeOK
    <2> QED BY <1>4, <2>1, <2>2, <2>3, IdleTyped, QuietStep DEF Finish
<1>5. ASSUME NEW r \in Req, NEW d \in Holder, ClaimRead(r, d)
      PROVE  IInv' /\ Quiet
    <2>1. CASE clock = "past"
        BY <1>5, <2>1, <1>3 DEF ClaimRead
    <2>2. CASE clock # "past"
        <3>1. 0 \in 0..MaxAttempts /\ 0 <= row.useCount
            BY EphemeralAssumption DEF IInv, TypeOK, Row
        <3> QED BY <1>5, <2>2, <3>1, AttemptStep DEF ClaimRead
    <2> QED BY <2>1, <2>2
<1>6. ASSUME NEW r \in Req, ClaimCas(r)
      PROVE  IInv' /\ [Ledger!LedgerNext]_(Ledger!ledgerVars)
    <2>1. CASE CasHits(r)
        <3>1. /\ IInv' /\ row.status = "PENDING" /\ row.useCount < row.maxUses
              /\ row'.maxUses = row.maxUses
              /\ row'.status = IF row.useCount + 1 < row.maxUses THEN "PENDING" ELSE "CLAIMED"
              /\ uses' = Append(uses, [dev |-> req[r].dev, n |-> Len(uses) + 1])
            BY <1>6, <2>1, WinStep DEF CasHits
        <3>2. row.useCount = Len(uses) /\ req[r].dev \in Holder
            BY DEF IInv, BudgetIsExact, TypeOK, Request
        <3>3. Ledger!Spend(req[r].dev)
            BY <3>1, <3>2 DEF Ledger!Spend
        <3> QED BY <3>1, <3>2, <3>3 DEF Ledger!LedgerNext
    <2>2. CASE ~CasHits(r)
        <3>1. req' = [req EXCEPT ![r] = [req[r] EXCEPT !.pc = "reread"]] /\ Quiet
            BY <1>6, <2>2 DEF ClaimCas, Goto
        <3>2. req[r] \in Request /\ req[r].pc = "cas"
            BY <1>6 DEF ClaimCas, IInv, TypeOK
        <3>3. /\ [req[r] EXCEPT !.pc = "reread"] \in Request
              /\ [req[r] EXCEPT !.pc = "reread"].pc = "reread"
              /\ [req[r] EXCEPT !.pc = "reread"].dev = req[r].dev
              /\ [req[r] EXCEPT !.pc = "reread"].lost = req[r].lost
            BY <3>2 DEF Request
        <3>4. /\ req'[r].pc = "reread" /\ req'[r].dev = req[r].dev /\ req'[r].lost = req[r].lost
              /\ \A t \in Req : t # r => req'[t] = req[t]
            BY <3>1, <3>3 DEF IInv, TypeOK
        <3>5. row.status # "PENDING" \/ req[r].lost < row.useCount
            <4>1. req[r].lost \in Nat /\ req[r].seen \in Nat /\ row.useCount \in Nat
                BY <3>2 DEF IInv, TypeOK, Row, Request
            <4>2. req[r].lost <= req[r].seen /\ req[r].seen <= row.useCount
                BY <3>2 DEF IInv, ContentionIsProgress, ClaimsAreCurrent
            <4> QED BY <2>2, <4>1, <4>2 DEF CasHits
        <3>6. TypeOK'
            BY <1>6, <3>1, <3>3 DEF ClaimCas, IInv, TypeOK
        <3>7. row.status # "NONE"
            BY <3>2 DEF IInv, NothingBeforeCreate
        <3>8. ClaimsAreCurrent' /\ ContentionIsProgress'
            BY <3>1, <3>2, <3>4, <3>5 DEF IInv, ClaimsAreCurrent, ContentionIsProgress, BindHash
        <3> QED BY <1>0, <3>1, <3>6, <3>7, <3>8 DEF IInv, NothingBeforeCreate, BudgetIsExact,
                   UnboundUntilUsed, BoundToFirstClaimer
    <2> QED BY <2>1, <2>2
<1>7. ASSUME NEW r \in Req, ClaimReread(r)
      PROVE  IInv' /\ Quiet
    <2> DEFINE again == row.status = "PENDING" /\ row.useCount < row.maxUses
                        /\ req[r].lost + 1 < MaxAttempts
    <2>1. CASE again
        <3>1. req[r] \in Request /\ req[r].pc = "reread"
            BY <1>7 DEF ClaimReread, IInv, TypeOK
        <3>2. req' = [req EXCEPT ![r] = [pc |-> "cas", dev |-> req[r].dev, lost |-> req[r].lost + 1,
                                         seen |-> row.useCount, hash |-> BindHash(req[r].dev)]]
            BY <1>7, <2>1, <3>1 DEF ClaimReread, Request
        <3>3. /\ req[r].dev \in Holder /\ req[r].lost \in Nat
              /\ row.useCount \in Nat /\ req[r].lost + 1 \in 0..MaxAttempts
            BY <3>1, <2>1, EphemeralAssumption DEF IInv, TypeOK, Row, Request
        <3>4. /\ row.deviceBinding => req[r].dev # NoDevice
              /\ req[r].lost + 1 <= row.useCount
            BY <2>1, <3>1, <3>3 DEF IInv, ClaimsAreCurrent, ContentionIsProgress
        <3> QED BY <1>7, <2>1, <3>2, <3>3, <3>4, AttemptStep DEF ClaimReread
    <2>2. CASE ~again
        <3>1. answers' \in Answers
            BY <1>7 DEF ClaimReread, IInv, TypeOK
        <3> QED BY <1>7, <2>2, <3>1, <1>4 DEF ClaimReread, GivesUp
    <2> QED BY <2>1, <2>2
<1>8. ASSUME NEW r \in Req, ClaimRespond(r) \/ RespondFails(r)
      PROVE  IInv' /\ Quiet
    <2>1. req[r] \in Request /\ answers \in Answers
        BY DEF IInv, TypeOK
    <2>2. req[r].seen + 1 \in Nat
        BY <2>1, EphemeralAssumption DEF Request
    <2>3. answers' \in Answers
        BY <1>8, <2>1, <2>2 DEF ClaimRespond, RespondFails, Answers
    <2> QED BY <1>8, <2>3, <1>4 DEF ClaimRespond, RespondFails
<1>9. ASSUME NEW r \in Req, GetStale(r) \/ ListStale(r) \/ RevokeRead(r)
      PROVE  IInv' /\ Quiet
    BY <1>9, <1>3 DEF GetStale, ListStale, RevokeRead
<1>10. ASSUME NEW r \in Req, ExpireFails(r)
       PROVE  IInv' /\ Quiet
    <2>1. answers' \in Answers
        BY <1>10 DEF ExpireFails, IInv, TypeOK
    <2> QED BY <1>10, <2>1, <1>4 DEF ExpireFails
<1>11. ASSUME NEW r \in Req, NEW st \in {"EXPIRED", "REVOKED"}, row.status # "NONE",
              row' = [row EXCEPT !.status = st], UNCHANGED <<clock, uses, answers>>, Finish(r)
       PROVE  IInv' /\ [Ledger!LedgerNext]_(Ledger!ledgerVars)
    <2>1. IInv'
        BY <1>11, CloseStep DEF Finish
    <2>2. row'.status # "PENDING" /\ row'.maxUses = row.maxUses
        BY <1>11 DEF IInv, TypeOK, Row
    <2>3. CASE row.status = "PENDING"
        BY <1>11, <2>1, <2>2, <2>3 DEF Ledger!LedgerNext, Ledger!Close
    <2>4. CASE row.status # "PENDING"
        BY <1>11, <2>1, <2>2, <2>4 DEF Ledger!ledgerVars
    <2> QED BY <2>3, <2>4
<1>12. ASSUME NEW r \in Req, Expire(r) \/ RevokeWrite(r)
       PROVE  IInv' /\ [Ledger!LedgerNext]_(Ledger!ledgerVars)
    <2>1. row.status # "NONE" /\ req[r].pc # "idle"
        BY <1>12 DEF Expire, RevokeWrite, IInv, NothingBeforeCreate
    <2>2. answers' \in Answers
        BY <1>12 DEF Expire, RevokeWrite, IInv, TypeOK
    <2>3. CASE row' = row
        BY <1>12, <2>1, <2>2, <2>3, <1>0, <1>4 DEF Expire, RevokeWrite
    <2>4. CASE row' # row
        BY <1>12, <2>1, <2>4, <1>11 DEF Expire, RevokeWrite
    <2> QED BY <2>3, <2>4
<1>13. CASE UNCHANGED vars
    <2>1. IInv'
        BY <1>13 DEF vars, IInv, TypeOK, NothingBeforeCreate, BudgetIsExact, ClaimsAreCurrent,
           UnboundUntilUsed, BoundToFirstClaimer, ContentionIsProgress, BindHash
    <2> QED BY <1>13, <2>1, <1>0 DEF vars
<1> HIDE DEF Quiet
<1> QED
    BY <1>0, <1>1, <1>2, <1>5, <1>6, <1>7, <1>8, <1>9, <1>10, <1>12, <1>13
       DEF Next, RequestStep, Ledger!LedgerNext

\* The invariant IInv of EphemeralSession holds in every reachable state.
LEMMA Invariant == Spec => []IInv
<1>1. IInv /\ [Next]_vars => IInv'
    BY Step
<1> QED BY InitIInv, <1>1, PTL DEF Spec

\* Type correctness: however many requests race, useCount stays within
\* 0..MaxUses and the attempts of claimSession within MAX_ATTEMPTS.
THEOREM EphemeralTypeCorrect == Spec => []TypeOK
<1>1. IInv => TypeOK
    BY DEF IInv
<1> QED BY Invariant, <1>1, PTL

\* The claims of an ephemeral session spend its budget exactly, bind it to
\* its first claimer, and give up only when other claims got through.
THEOREM EphemeralSafety ==
    Spec => [](BudgetIsExact /\ BoundToFirstClaimer /\ ContentionIsProgress)
<1>1. IInv => BudgetIsExact /\ BoundToFirstClaimer /\ ContentionIsProgress
    BY DEF IInv
<1> QED BY Invariant, <1>1, PTL

\* claimSession's compare-and-swap loop, with expiry and revocation,
\* implements an atomic ledger of uses.
THEOREM EphemeralRefinesLedger == Spec => RefinesLedger
<1>1. Init => Ledger!LedgerInit
    BY DEF Init, NoRow, Ledger!LedgerInit
<1>2. IInv /\ [Next]_vars => [Ledger!LedgerNext]_(Ledger!ledgerVars)
    BY Step
<1> QED BY Invariant, <1>1, <1>2, PTL DEF Spec, RefinesLedger, Ledger!LedgerSpec

\* The expiring and the claiming write look for PENDING, so how a session
\* ended is rewritten by nothing but a revocation.
THEOREM EndingFinal == Spec => EndingIsFinal
<1>1. IInv /\ [Next]_vars =>
         (row.status \in {"CLAIMED", "EXPIRED", "REVOKED"} =>
            row'.status \in {row.status, "REVOKED"})
    <2> SUFFICES ASSUME IInv, [Next]_vars, row.status \in {"CLAIMED", "EXPIRED", "REVOKED"}
                 PROVE  row'.status \in {row.status, "REVOKED"}
        OBVIOUS
    <2>1. CASE row' = row
        BY <2>1
    <2>2. CASE \E r \in Req : RevokeWrite(r)
        BY <2>2 DEF RevokeWrite, IInv, TypeOK, Row
    <2>3. CASE \E r \in Req : Expire(r)
        BY <2>3 DEF Expire, ExpireWhere
    <2>4. CASE \E r \in Req : ClaimCas(r)
        BY <2>4 DEF ClaimCas, CasHits
    <2> QED
        BY <2>1, <2>2, <2>3, <2>4
           DEF Next, RequestStep, Create, Elapse, ClaimRead, ClaimReread, ClaimRespond,
               RespondFails, GetStale, ListStale, RevokeRead, ExpireFails, vars
<1> QED BY Invariant, <1>1, PTL DEF Spec, EndingIsFinal


\* Who answers, and with which count, changes only when a claim wins or its
\* answer goes out.
LEMMA AnsweringMoves ==
    ASSUME TypeOK, NEW r \in Req, NEW q \in Request, req' = [req EXCEPT ![r] = q]
    PROVE  /\ \A p \in Req : p # r => (p \in Answering' <=> p \in Answering) /\ req'[p] = req[p]
           /\ r \in Answering' <=> q.pc = "respond"
           /\ r \in Answering <=> req[r].pc = "respond"
           /\ req'[r] = q
<1>1. \A p \in Req : req'[p] = IF p = r THEN q ELSE req[p]
    BY DEF TypeOK
<1> QED BY <1>1 DEF Answering

\* A win adds the count that follows the last one; an answer, or its loss,
\* puts it with the others.
LEMMA AnswerStep == AnswerInv /\ [Next]_vars => AnswerInv'
<1> SUFFICES ASSUME AnswerInv, [Next]_vars PROVE AnswerInv'
    OBVIOUS
<1>0. /\ IInv /\ IInv' /\ TypeOK /\ EachUseHasItsClaim
      /\ Len(uses) \in Nat /\ row.useCount = Len(uses)
      /\ answers \in Answers /\ req \in [Req -> Request]
    <2>1. IInv'
        BY Step DEF AnswerInv
    <2> QED BY <2>1 DEF AnswerInv, IInv, TypeOK, BudgetIsExact
<1>1. ASSUME NEW r \in Req, NEW q \in Request, req[r].pc # "respond", q.pc # "respond",
             req' = [req EXCEPT ![r] = q], UNCHANGED <<answers, uses>>
      PROVE  AnswerInv'
    <2>1. /\ Answering' = Answering
          /\ \A p \in Answering : req'[p] = req[p]
        BY <1>0, <1>1, AnsweringMoves DEF Answering
    <2>2. InHand' = InHand
        BY <2>1 DEF InHand
    <2> QED BY <1>0, <1>1, <2>1, <2>2 DEF AnswerInv, EachUseHasItsClaim
<1>2. /\ Idle \in Request /\ Idle.pc = "idle"
      /\ \A pc \in {"expire", "revoke"} : [Idle EXCEPT !.pc = pc] \in Request
      /\ \A pc \in {"expire", "revoke"} : [Idle EXCEPT !.pc = pc].pc = pc
    BY IdleTyped DEF Idle, Request
<1>3. ASSUME NEW r \in Req, ClaimCas(r), CasHits(r) PROVE AnswerInv'
    <2>1. PICK q : q = [req[r] EXCEPT !.pc = "respond"]
        OBVIOUS
    <2>2. q \in Request /\ q.pc = "respond" /\ q.seen = req[r].seen /\ q.seen = Len(uses)
        BY <1>0, <1>3, <2>1 DEF TypeOK, Request, CasHits
    <2>3. req' = [req EXCEPT ![r] = q] /\ req[r].pc # "respond"
        BY <1>3, <2>1 DEF ClaimCas, Goto
    <2>4. /\ Answering' = Answering \cup {r} /\ r \notin Answering
          /\ \A p \in Answering : req'[p] = req[p]
          /\ req'[r] = q
        BY <1>0, <2>2, <2>3, AnsweringMoves DEF Answering
    <2>5. Len(uses') = Len(uses) + 1 /\ answers' = answers
        BY <1>0, <1>3 DEF ClaimCas, TypeOK
    <2>6. InHand' = InHand \cup {Len(uses) + 1}
        BY <2>2, <2>4 DEF InHand
    <2>7. 1..Len(uses') = 1..Len(uses) \cup {Len(uses) + 1} /\ Len(uses) + 1 \notin 1..Len(uses)
        BY <1>0, <2>5
    <2>8. \A p \in Answering : req[p].seen # q.seen
        <3> SUFFICES ASSUME NEW p \in Answering PROVE req[p].seen # q.seen
            OBVIOUS
        <3>1. req[p].seen + 1 \in 1..Len(uses)
            BY <1>0 DEF EachUseHasItsClaim, InHand
        <3> QED BY <2>2, <2>7, <3>1
    <2> QED BY <1>0, <2>4, <2>5, <2>6, <2>7, <2>8 DEF AnswerInv, EachUseHasItsClaim
<1>4. ASSUME NEW r \in Req, ClaimCas(r), ~CasHits(r) PROVE AnswerInv'
    <2>1. PICK q : q = [req[r] EXCEPT !.pc = "reread"]
        OBVIOUS
    <2>2. q \in Request /\ q.pc = "reread"
        BY <1>0, <2>1 DEF TypeOK, Request
    <2>3. req' = [req EXCEPT ![r] = q] /\ req[r].pc # "respond"
        BY <1>4, <2>1 DEF ClaimCas, Goto
    <2> QED BY <1>1, <1>4, <2>2, <2>3 DEF ClaimCas
<1>5. ASSUME NEW r \in Req, ClaimRespond(r) \/ RespondFails(r) PROVE AnswerInv'
    <2>1. PICK n \in Nat : n = req[r].seen + 1
        BY <1>0, EphemeralAssumption DEF Request
    <2>2. /\ Answering' = Answering \ {r} /\ r \in Answering
          /\ \A p \in Answering' : req'[p] = req[p]
        BY <1>0, <1>2, <1>5, AnsweringMoves DEF ClaimRespond, RespondFails, Finish, Answering
    <2>3. \A p \in Answering : p # r => req[p].seen \in Nat /\ req[p].seen + 1 # n
        BY <1>0, <2>1, <2>2, EphemeralAssumption DEF EachUseHasItsClaim, Request, Answering
    <2>4. InHand' = InHand \ {n} /\ n \in InHand
        BY <2>1, <2>2, <2>3 DEF InHand
    <2>5. /\ uses' = uses
          /\ \/ answers'.told = answers.told \cup {n} /\ answers'.failed = answers.failed
             \/ answers'.failed = answers.failed \cup {n} /\ answers'.told = answers.told
        BY <1>0, <1>5, <2>1 DEF ClaimRespond, RespondFails, Answers
    <2> QED BY <1>0, <2>2, <2>4, <2>5 DEF AnswerInv, EachUseHasItsClaim
<1>6. ASSUME NEW r \in Req, ClaimReread(r) PROVE AnswerInv'
    <2>1. CASE Finish(r)
        BY <1>1, <1>2, <1>6, <2>1 DEF ClaimReread, Finish
    <2>2. CASE ~Finish(r)
        <3>1. PICK q : q = [req[r] EXCEPT !.pc = "cas", !.lost = @ + 1,
                                          !.seen = row.useCount, !.hash = BindHash(req[r].dev)]
            OBVIOUS
        <3>2. req' = [req EXCEPT ![r] = q] /\ req[r].pc # "respond" /\ UNCHANGED <<answers, uses>>
            BY <1>0, <1>6, <2>2, <3>1 DEF ClaimReread, GivesUp
        <3>3. q.pc = "cas" /\ req' \in [Req -> Request] /\ req'[r] = q
            BY <1>0, <3>1, <3>2 DEF IInv, TypeOK, Request
        <3> QED BY <1>1, <3>2, <3>3
    <2> QED BY <2>1, <2>2
<1>7. ASSUME NEW r \in Req, NEW d \in Holder, ClaimRead(r, d) PROVE AnswerInv'
    <2>1. CASE Start(r, "expire")
        BY <1>1, <1>2, <1>7, <2>1 DEF ClaimRead, Start
    <2>2. CASE ~Start(r, "expire")
        <3>1. PICK q : q = [pc |-> "cas", dev |-> d, lost |-> 0,
                            seen |-> row.useCount, hash |-> BindHash(d)]
            OBVIOUS
        <3>2. req' = [req EXCEPT ![r] = q] /\ req[r].pc # "respond" /\ UNCHANGED <<answers, uses>>
            BY <1>7, <2>2, <3>1 DEF ClaimRead
        <3>3. q.pc = "cas" /\ req' \in [Req -> Request] /\ req'[r] = q
            BY <1>0, <3>1, <3>2 DEF IInv, TypeOK
        <3> QED BY <1>1, <3>2, <3>3
    <2> QED BY <2>1, <2>2
<1>8. ASSUME NEW r \in Req, GetStale(r) \/ ListStale(r) \/ RevokeRead(r) PROVE AnswerInv'
    BY <1>1, <1>2, <1>8 DEF GetStale, ListStale, RevokeRead, Start
<1>9. ASSUME NEW r \in Req, Expire(r) \/ ExpireFails(r) \/ RevokeWrite(r) PROVE AnswerInv'
    BY <1>1, <1>2, <1>9 DEF Expire, ExpireFails, RevokeWrite, Finish
<1>10. CASE UNCHANGED req /\ UNCHANGED <<uses, answers>>
    <2>1. Answering' = Answering /\ InHand' = InHand
        BY <1>10 DEF Answering, InHand
    <2> QED BY <1>0, <1>10, <2>1 DEF AnswerInv, EachUseHasItsClaim
<1> QED
    BY <1>3, <1>4, <1>5, <1>6, <1>7, <1>8, <1>9, <1>10
       DEF Next, RequestStep, Create, Elapse, vars

\* Every counted use belongs to one claim, which was told its count, will be,
\* or failed after spending it; for any number of racing claims.
THEOREM UsesHaveClaims == Spec => []EachUseHasItsClaim
<1>1. Init => AnswerInv
    <2> SUFFICES ASSUME Init PROVE AnswerInv
        OBVIOUS
    <2>1. Answering = {} /\ InHand = {}
        BY DEF Init, Answering, InHand, Idle
    <2> QED BY <2>1, InitIInv DEF Init, AnswerInv, EachUseHasItsClaim
<1>2. AnswerInv => EachUseHasItsClaim
    BY DEF AnswerInv
<1> QED BY <1>1, <1>2, AnswerStep, PTL DEF Spec
=============================================================================
