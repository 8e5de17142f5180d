-------------------------- MODULE WebhookDelivery --------------------------
(***************************************************************************)
(* Webhook deliveries to one application (services/webhook.ts emit, the    *)
(* webhook worker of workers/index.ts, the queue's retry options).         *)
(*                                                                         *)
(* A delivery has a WebhookDelivery row and a job that carries its id.  An *)
(* attempt counts itself against the destination's window, posts, and      *)
(* writes its outcome to the row; it ends the job or throws, and the queue *)
(* tries again until its attempts are used up.  A worker that stops in     *)
(* between leaves a stalled job, handed out once more without counting an  *)
(* attempt, and given up the second time (external: BullMQ).  Payloads,    *)
(* signatures and response texts are left out.                             *)
(***************************************************************************)
EXTENDS Naturals, FiniteSets

CONSTANTS
    Hook,          \* deliveries
    HookAttempts,  \* attempts of the queue's jobs
    RateLimit      \* WEBHOOK_PER_DESTINATION_LIMIT in one window

ASSUME HookAssumption == HookAttempts \in Nat \ {0} /\ RateLimit \in Nat

VARIABLES
    hook,      \* the rows
    hookJob,   \* their jobs
    hits       \* the destination's counter in the current window

hookVars == <<hook, hookJob, hits>>

\* accepted: history, the endpoint answered 2xx.
HookRow == [st : {"none", "open"}, delivered : BOOLEAN, failed : BOOLEAN, accepted : BOOLEAN]
\* cut: history, the last attempt ended with no outcome written: it met the
\* rate limit, its worker stopped, or the row could not be written.
HookJob == [pc : {"none", "waiting", "check", "send", "accepted", "done", "exhausted"},
            made : 0..HookAttempts, stalled : BOOLEAN, cut : BOOLEAN]

HooksTypeOK ==
    /\ hook \in [Hook -> HookRow]
    /\ hookJob \in [Hook -> HookJob]
    /\ hits \in 0..(RateLimit + 1)

HooksInit ==
    /\ hook = [h \in Hook |-> [st |-> "none", delivered |-> FALSE, failed |-> FALSE, accepted |-> FALSE]]
    /\ hookJob = [h \in Hook |-> [pc |-> "none", made |-> 0, stalled |-> FALSE, cut |-> FALSE]]
    /\ hits = 0

-----------------------------------------------------------------------------

\* emit: the row first, then the job.  When the queue cannot be reached the
\* row stays without one.
EmitRow(h) ==
    /\ hook[h].st = "none"
    /\ hook' = [hook EXCEPT ![h].st = "open"]
    /\ UNCHANGED <<hookJob, hits>>
EmitJob(h) ==
    /\ hook[h].st = "open"
    /\ hookJob[h].pc = "none"
    /\ hookJob' = [hookJob EXCEPT ![h].pc = "waiting"]
    /\ UNCHANGED <<hook, hits>>

JobGoes(h, pc) == hookJob' = [hookJob EXCEPT ![h].pc = pc]
Throw(h, cut) ==
    LET made == hookJob[h].made + 1 IN
    hookJob' = [hookJob EXCEPT ![h].made = made, ![h].cut = cut,
                   ![h].pc = IF made < HookAttempts THEN "waiting" ELSE "exhausted"]

StartAttempt(h) ==
    /\ hookJob[h].pc = "waiting"
    /\ JobGoes(h, "check")
    /\ UNCHANGED <<hook, hits>>

\* Past the limit the attempt only notes its error and throws.  When Redis
\* does not answer, or that note cannot be written, the handler takes it for
\* a failing counter and the request goes through.
CountedHit == IF hits <= RateLimit THEN hits + 1 ELSE hits
RateCheck(h) ==
    /\ hookJob[h].pc = "check"
    /\ \/ /\ hits' = CountedHit
          /\ hits >= RateLimit
          /\ Throw(h, TRUE)
       \/ hits' \in {hits, CountedHit} /\ JobGoes(h, "send")
    /\ UNCHANGED hook
WindowPasses ==
    /\ hits > 0
    /\ hits' = 0
    /\ UNCHANGED <<hook, hookJob>>

\* The last attempt marks the row failed for good.
AfterLastAttempt(h) == hookJob[h].made >= HookAttempts  \* mutant
IsLastAttempt(h) == hookJob[h].made + 1 >= HookAttempts
FailureNoted(h) == [hook EXCEPT ![h].failed = @ \/ IsLastAttempt(h)]

\* The endpoint answers 2xx, or otherwise; or there is no answer although it
\* may have accepted the event; or the address is refused, for good.
PostAccepted(h) ==
    /\ hookJob[h].pc = "send"
    /\ hook' = [hook EXCEPT ![h].accepted = TRUE]
    /\ JobGoes(h, "accepted")
    /\ UNCHANGED hits
PostFails(h) ==
    /\ hookJob[h].pc = "send"
    /\ hook' \in {FailureNoted(h), [FailureNoted(h) EXCEPT ![h].accepted = TRUE]}
    /\ Throw(h, FALSE)
    /\ UNCHANGED hits
PostBlocked(h) ==
    /\ hookJob[h].pc = "send"
    /\ hook' = [hook EXCEPT ![h].failed = TRUE]
    /\ JobGoes(h, "done")
    /\ UNCHANGED hits

\* The row is marked delivered; if that write throws, the same handler as for
\* a network error notes a failure and throws again.
MarkDelivered(h) ==
    /\ hookJob[h].pc = "accepted"
    /\ hook' = [hook EXCEPT ![h].delivered = TRUE]
    /\ JobGoes(h, "done")
    /\ UNCHANGED hits
MarkFails(h) ==
    /\ hookJob[h].pc = "accepted"
    /\ hook' = FailureNoted(h)
    /\ Throw(h, FALSE)
    /\ UNCHANGED hits

\* The write that notes the outcome throws, and with it the handler: the one
\* for a refused address; the one for any other failure; or, after an answer,
\* that answer's own and then the catch block's.  The queue counts a failed
\* attempt of which the row shows nothing.
NoteFails(h) ==
    /\ hookJob[h].pc \in {"send", "accepted"}
    /\ hook' \in {hook, [hook EXCEPT ![h].accepted = TRUE]}
    /\ Throw(h, TRUE)
    /\ UNCHANGED hits

Stall(h) ==
    /\ hookJob[h].pc \in {"check", "send", "accepted"}
    /\ hookJob' = [hookJob EXCEPT ![h].stalled = TRUE, ![h].cut = TRUE,
                      ![h].pc = IF hookJob[h].stalled THEN "exhausted" ELSE "waiting"]
    /\ UNCHANGED <<hook, hits>>

HooksNext ==
    \/ WindowPasses
    \/ \E h \in Hook :
          \/ EmitRow(h) \/ EmitJob(h) \/ StartAttempt(h) \/ RateCheck(h)
          \/ PostAccepted(h) \/ PostFails(h) \/ PostBlocked(h)
          \/ MarkDelivered(h) \/ MarkFails(h) \/ NoteFails(h) \/ Stall(h)

HooksSpec == HooksInit /\ [][HooksNext]_hookVars

-----------------------------------------------------------------------------
(* Properties *)

\* A delivery the queue is done with is settled in its row, delivered or
\* permanently failed, unless its last attempt could not settle it: it met
\* the destination's rate limit, its worker stopped, or the write of its
\* outcome failed.  The attempt that uses up the queue's tries is the one
\* that the worker takes for the last (workers/index.ts, attemptsMade + 1).
UnsettledOnlyWhenCut ==
    \A h \in Hook :
        hookJob[h].pc \in {"done", "exhausted"} =>
            hook[h].delivered \/ hook[h].failed \/ hookJob[h].cut

-----------------------------------------------------------------------------
(* The inductive invariant.                                                *)

\* A job that may still run has an attempt left, so that the attempt which
\* uses up the last one is the one IsLastAttempt recognises.
AttemptsLeft ==
    \A h \in Hook : hookJob[h].pc \notin {"done", "exhausted"} => hookJob[h].made < HookAttempts

HooksInv == HooksTypeOK /\ AttemptsLeft /\ UnsettledOnlyWhenCut

=============================================================================
