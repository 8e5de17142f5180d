----------------------------- MODULE ScanVerify -----------------------------
(***************************************************************************)
(* Verifying a scan of one QR code (routes/verify.ts GET /v/:token), the   *)
(* recording of the scan by the queue worker (workers/index.ts) and the    *)
(* verification meter with its allowance e-mails (services/usage.ts,       *)
(* usage-alerts.ts).                                                       *)
(*                                                                         *)
(* The scan limits compare with the rows of the scans table, and a row     *)
(* appears only after the answer: the route hands the scan to a queue, and *)
(* a worker stores it, up to three times when its later statements fail.   *)
(* After a year the cleanup job takes the address hash out of a row, which *)
(* then no longer counts for its device.  The plan stays the same.         *)
(* The verify cache is written by the route and read without effect, so it *)
(* is left out.                                                            *)
(***************************************************************************)
EXTENDS Naturals, FiniteSets

CONSTANTS
    Visit,          \* concurrent visits of the code
    ScanDevice,     \* the client addresses they come from (hashed)
    MaxScans,       \* the code's limits
    MaxScansPerDevice,
    Tries,          \* attempts of a queue job
    Allowance       \* meter counts that are e-mailed (80 % and 100 %)

ASSUME ScanAssumption ==
    /\ MaxScans \in Nat \ {0} /\ MaxScansPerDevice \in Nat \ {0} /\ Tries \in Nat \ {0}
    /\ Allowance \subseteq Nat \ {0}

VARIABLES
    visit,        \* the visits
    job,          \* the recording job of each visit
    scans,        \* the rows of the scans table: a visit and the try that stored it
    anonymised,   \* the rows whose address hash was taken out
    meter,        \* the verifications of this month in Redis
    alert,        \* the allowance counts each visit still has to write an e-mail for
    mailed,       \* allowance e-mails sent, per count
    dropped,      \* history: the counts whose e-mail failed or was never tried
    outstanding   \* history: admitted visits no row counted for at the last admission

rowVars == <<scans, anonymised>>
meterVars == <<meter, alert, mailed, dropped>>
scanVars == <<visit, job, rowVars, meterVars, outstanding>>

-----------------------------------------------------------------------------

VisitPc == {"new", "total", "device", "check", "meter", "shown", "failed"}

VisitRun == [pc : VisitPc, device : ScanDevice]

ScanTypeOK ==
    /\ visit \in [Visit -> VisitRun]
    /\ job \in [Visit -> [st : {"none", "adding", "queued", "stored", "done"},
                          tries : 0 .. Tries - 1]]
    /\ scans \subseteq [visit : Visit, try : 0 .. Tries - 1]
    /\ anonymised \subseteq scans
    /\ meter \in Nat
    /\ alert \in [Visit -> SUBSET Allowance]
    /\ mailed \in [Allowance -> Nat]
    /\ dropped \subseteq Allowance
    /\ outstanding \in [total : Nat, device : [ScanDevice -> Nat]]

ScanInit ==
    /\ visit \in [Visit -> [pc : {"new"}, device : ScanDevice]]
    /\ job = [v \in Visit |-> [st |-> "none", tries |-> 0]]
    /\ scans = {} /\ anonymised = {}
    /\ meter = 0
    /\ alert = [v \in Visit |-> {}]
    /\ mailed = [n \in Allowance |-> 0]
    /\ dropped = {}
    /\ outstanding = [total |-> 0, device |-> [d \in ScanDevice |-> 0]]

\* The rows of some visits, the rows that still tell their device, and the
\* visits of one device.
RowsOf(rows, vs) == {s \in rows : s.visit \in vs}
Identified == scans \ anonymised
From(d) == {v \in Visit : visit[v].device = d}
VisitGoto(v, pc) == visit' = [visit EXCEPT ![v].pc = pc]

-----------------------------------------------------------------------------
(* GET /v/:token                                                           *)

\* The row is read; a suspended issuer, a flagged destination, a revoked or
\* an expired code is answered with a failure at once.  Whether it is one is
\* decided elsewhere (QrEdits), so either may be found.
VerifyRead(v) ==
    /\ visit[v].pc = "new"
    /\ \E to \in {"failed", "total"} : VisitGoto(v, to)
    /\ UNCHANGED <<job, rowVars, meterVars, outstanding>>

\* scan.count against maxScans and maxScansPerDevice.
Exceeds(count, limit) == count > limit  \* mutant
AtLimit(count, limit) == count >= limit

\* The visits past a limit check that none of these rows stands for.
Admitted == {v \in Visit : visit[v].pc \in {"device", "check", "meter", "shown"}}
Uncounted(vs, rows) == {v \in vs \cap Admitted : RowsOf(rows, {v}) = {}}

CountTotal(v) ==
    /\ visit[v].pc = "total"
    /\ IF AtLimit(Cardinality(scans), MaxScans)
       THEN VisitGoto(v, "failed") /\ UNCHANGED outstanding
       ELSE /\ VisitGoto(v, "device")
            /\ outstanding' = [outstanding EXCEPT !.total = Cardinality(Uncounted(Visit, scans))]
    /\ UNCHANGED <<job, rowVars, meterVars>>

CountDevice(v) ==
    LET d == visit[v].device IN
    /\ visit[v].pc = "device"
    /\ IF AtLimit(Cardinality(RowsOf(Identified, From(d))), MaxScansPerDevice)
       THEN VisitGoto(v, "failed") /\ UNCHANGED outstanding
       ELSE /\ VisitGoto(v, "check")
            /\ outstanding' = [outstanding EXCEPT
                 !.device[d] = Cardinality(Uncounted(From(d) \ {v}, Identified))]
    /\ UNCHANGED <<job, rowVars, meterVars>>

\* verifyRowSignatures: the MAC only rejects; both other legs must verify.
Legs == [mac : {"none", "match", "miss"}, ecdsa : BOOLEAN, merkle : BOOLEAN]
verifyRowSignatures(legs) ==
    IF legs.mac = "miss" THEN "rejected"
    ELSE IF legs.ecdsa /\ legs.merkle THEN "valid" ELSE "invalid"

\* The geo fence blocks only where proximity is required: without
\* coordinates, or with coordinates outside the radius.
Place == [enforced : BOOLEAN, coords : {"none", "inside", "outside"}]
GeoBlocked(place) == place.enforced /\ place.coords # "inside"

\* The algorithm gate, the signatures, the geo fence and the trust score.
\* A rejected algorithm or MAC answers a failure and records nothing; every
\* other visit is queued for recording, and counts on the meter when its
\* signature is valid and the fence let it through.
VerifyAnswer(v) ==
    /\ visit[v].pc = "check"
    /\ \E outcome \in {"rejected"} \cup {verifyRowSignatures(legs) : legs \in Legs},
          blocked \in {GeoBlocked(place) : place \in Place} :
         IF outcome = "rejected"
         THEN VisitGoto(v, "failed") /\ UNCHANGED job
         ELSE /\ job' = [job EXCEPT ![v].st = "adding"]
              /\ VisitGoto(v, IF outcome = "valid" /\ ~blocked THEN "meter" ELSE "shown")
    /\ UNCHANGED <<rowVars, meterVars, outstanding>>

-----------------------------------------------------------------------------
(* The meter.                                                              *)

\* crossedThreshold: the count that is exactly a threshold's.
AtOrAbove(count) == {n \in Allowance : count >= n}  \* mutant
crossedThreshold(count) == {n \in Allowance : count = n}

\* increment: a Redis INCR whose reply is the new count, or 0 when Redis
\* fails, before or after it applied the command.  The visit goes on; the
\* e-mail for its count is left to notifyVerificationThreshold, which is not
\* awaited.
Increment(v) ==
    /\ visit[v].pc = "meter"
    /\ VisitGoto(v, "shown")
    /\ \/ /\ meter' = meter + 1
          /\ alert' = [alert EXCEPT ![v] = crossedThreshold(meter')]
          /\ UNCHANGED dropped
       \/ UNCHANGED <<meter, alert, dropped>>
       \/ /\ meter' = meter + 1
          /\ dropped' = dropped \cup crossedThreshold(meter')
          /\ UNCHANGED alert
    /\ UNCHANGED <<job, rowVars, mailed, outstanding>>

\* notifyVerificationThreshold: the organisation is looked up and the e-mail
\* sent; a failure of either, or the end of the process, loses it.
SendAlert(v) ==
    /\ alert[v] # {}
    /\ mailed' = [n \in Allowance |-> IF n \in alert[v] THEN mailed[n] + 1 ELSE mailed[n]]
    /\ alert' = [alert EXCEPT ![v] = {}]
    /\ UNCHANGED <<visit, job, rowVars, meter, dropped, outstanding>>
AlertFails(v) ==
    /\ alert[v] # {}
    /\ dropped' = dropped \cup alert[v]
    /\ alert' = [alert EXCEPT ![v] = {}]
    /\ UNCHANGED <<visit, job, rowVars, meter, mailed, outstanding>>

-----------------------------------------------------------------------------
(* The recording job and its worker.                                       *)

\* scanQueue.add completes, or fails and is logged.
Enqueue(v) ==
    /\ job[v].st = "adding"
    /\ \E st \in {"queued", "done"} : job' = [job EXCEPT ![v].st = st]
    /\ UNCHANGED <<visit, rowVars, meterVars, outstanding>>

\* The worker stores the scan first, so that the fraud checks see it ...
StoreScan(v) ==
    /\ job[v].st = "queued"
    /\ scans' = scans \cup {[visit |-> v, try |-> job[v].tries]}
    /\ job' = [job EXCEPT ![v].st = "stored"]
    /\ UNCHANGED <<visit, anonymised, meterVars, outstanding>>

\* ... and then writes the trust score and queues the follow-up work.
FinishScan(v) ==
    /\ job[v].st = "stored"
    /\ job' = [job EXCEPT ![v] = [st |-> "done", tries |-> 0]]
    /\ UNCHANGED <<visit, rowVars, meterVars, outstanding>>

\* A statement throws or the worker stalls: the job runs again from the
\* start, until its attempts are used up.
TriesLeft(v) == job[v].tries + 1 < Tries
ScanJobFails(v) ==
    /\ job[v].st \in {"queued", "stored"}
    /\ job' = [job EXCEPT ![v] = IF TriesLeft(v)
                                 THEN [st |-> "queued", tries |-> @.tries + 1]
                                 ELSE [st |-> "done", tries |-> 0]]
    /\ UNCHANGED <<visit, rowVars, meterVars, outstanding>>

\* The cleanup, anonymiseExpiredScans: a row that has become older than a
\* year loses its address hash; its visit, job and e-mail are long over.  Rows
\* get there one after the other, and a run that finds several leaves what
\* taking them in turn does.
AnonymiseScan(s) ==
    /\ s \in Identified
    /\ job[s.visit].st = "done" /\ alert[s.visit] = {}
    /\ anonymised' = anonymised \cup {s}
    /\ UNCHANGED <<visit, job, scans, meterVars, outstanding>>

-----------------------------------------------------------------------------

ScanNext ==
    \/ \E v \in Visit :
         \/ VerifyRead(v) \/ CountTotal(v) \/ CountDevice(v) \/ VerifyAnswer(v) \/ Increment(v)
         \/ SendAlert(v) \/ AlertFails(v)
         \/ Enqueue(v) \/ StoreScan(v) \/ FinishScan(v) \/ ScanJobFails(v)
    \/ \E s \in scans : AnonymiseScan(s)

ScanSpec == ScanInit /\ [][ScanNext]_scanVars

-----------------------------------------------------------------------------
(* Properties.                                                             *)

\* The visits of a device that are past its own limit as well.
AdmittedFrom(d) == {v \in From(d) : visit[v].pc \in {"check", "meter", "shown"}}

\* The scan limits (routes/verify.ts) are overrun at most by the visits that
\* no row counted for when the last visit was let in: for the code those
\* whose scan was not stored, for a device also those whose scans had been
\* anonymised.  Nothing else gets past the limits, whatever is retried.
OverrunIsOutstanding ==
    /\ Cardinality(Admitted) <= MaxScans + outstanding.total
    /\ \A d \in ScanDevice :
         Cardinality(AdmittedFrom(d)) <= MaxScansPerDevice + outstanding.device[d]

\* The visits that have the e-mail for a count still to send.
Alerting(n) == {v \in Visit : n \in alert[v]}

\* Each allowance e-mail is sent at most once, by no visit before the meter
\* reached its count (the comment of crossedThreshold in usage-alerts.ts),
\* however many verifications run at once; and once it is reached, the e-mail
\* was sent, is being sent by one visit, or is among those that failed.
AlertedAtMostOnce ==
    \A n \in Allowance :
        /\ mailed[n] \in {0, 1}
        /\ mailed[n] = 1 => Alerting(n) = {} /\ n \notin dropped
        /\ Alerting(n) # {} => n \notin dropped /\ \E v \in Visit : Alerting(n) = {v}
        /\ meter >= n <=> mailed[n] = 1 \/ Alerting(n) # {} \/ n \in dropped

-----------------------------------------------------------------------------
(* The inductive invariants.                                               *)

\* The e-mails: the meter and what was sent are counts, and a visit that has
\* one to send is past its increment.
AlertInv ==
    /\ visit \in [Visit -> VisitRun]
    /\ meter \in Nat /\ mailed \in [Allowance -> Nat] /\ dropped \subseteq Allowance
    /\ alert \in [Visit -> SUBSET Allowance]
    /\ \A v \in Visit : alert[v] # {} => visit[v].pc = "shown"
    /\ AlertedAtMostOnce

\* The limits: at every moment finitely many visits were let in and finitely
\* many scans stored.
LimitInv ==
    /\ visit \in [Visit -> VisitRun]
    /\ outstanding \in [total : Nat, device : [ScanDevice -> Nat]]
    /\ IsFiniteSet(scans) /\ IsFiniteSet(Admitted)
    /\ OverrunIsOutstanding
=============================================================================
