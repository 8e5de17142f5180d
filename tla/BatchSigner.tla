---------------------------- MODULE BatchSigner ----------------------------
(***************************************************************************)
(* The in-process Merkle batch signer (packages/api/src/services/          *)
(* batch-signer.ts): one queue, that of one signing key.  The queues of    *)
(* different keys share nothing but the closed flag.                       *)
(*                                                                         *)
(* JavaScript runs each callback to its first await, so an action is such  *)
(* a run: enqueue, the timer, flushAll, the two outcomes of a sign, and    *)
(* the rest of a flushQueue whose awaited flush has settled.               *)
(*                                                                         *)
(* Data abstraction.  An item is a QR payload with the promise of its      *)
(* caller.  A flush is the set of items it signs: an item joins one flush  *)
(* only, so the set names it.                                              *)
(***************************************************************************)
EXTENDS Naturals, FiniteSets

CONSTANTS
    Item,           \* QR payloads to be signed
    MaxBatchSize    \* opts.maxBatchSize

ASSUME BatchSignerAssumption ==
    /\ IsFiniteSet(Item)
    /\ MaxBatchSize \in Nat \ {0}

VARIABLES
    queue,      \* q.items
    timer,      \* q.timer is armed
    inFlight,   \* q.inFlight: the flush started last, {} for null
    running,    \* the flushes whose sign or insert is still outstanding
    waiters,    \* flushQueue calls suspended on an earlier flush
    closed,     \* this.closed
    drained,    \* flushAll has resolved
    signed,     \* the signed_batches rows
    resolved,   \* items whose promise was resolved
    rejected    \* items whose promise was rejected

signerVars == <<queue, timer, inFlight, running, waiters, closed, drained,
                signed, resolved, rejected>>

-----------------------------------------------------------------------------

Flush  == SUBSET Item
\* A suspended flushQueue: called by a trigger, by flushAll, or by flushAll
\* and past its own flush.  Between two calls that await the same flush the
\* queue has grown, so what they saw of it tells them apart.
Waiter == [kind : {"trigger", "drain", "drained"}, on : Flush, saw : Flush]

Items(F) == {i \in Item : \E f \in F : i \in f}
Answered == resolved \cup rejected
Enqueued == queue \cup Items(running) \cup Answered

SignerTypeOK ==
    /\ queue \in Flush
    /\ timer \in BOOLEAN
    /\ inFlight \in Flush
    /\ running \in SUBSET (Flush \ {{}})
    /\ waiters \in SUBSET Waiter
    /\ closed \in BOOLEAN
    /\ drained \in BOOLEAN
    /\ signed \in SUBSET (Flush \ {{}})
    /\ resolved \in Flush
    /\ rejected \in Flush

SignerInit ==
    /\ queue = {}
    /\ timer = FALSE
    /\ inFlight = {}
    /\ running = {}
    /\ waiters = {}
    /\ closed = FALSE
    /\ drained = FALSE
    /\ signed = {}
    /\ resolved = {}
    /\ rejected = {}

-----------------------------------------------------------------------------

\* The part of flushQueue that takes the whole queue q and starts signing
\* it; nothing happens when q is empty.  inFlight is never reset: finally()
\* returns a new promise, so the test q.inFlight === flush fails.
Take(q) ==
    IF q = {} THEN UNCHANGED <<inFlight, running>> /\ queue' = q
    ELSE queue' = {} /\ inFlight' = q /\ running' = running \cup {q}

\* Its first statement: an earlier flush, settled or not, is awaited.
Await(kind, on, q) == [kind |-> kind, on |-> on, saw |-> q]
FlushQueue(q) ==
    IF inFlight # {}
    THEN /\ queue' = q
         /\ waiters' = waiters \cup {Await("trigger", inFlight, q)}
         /\ UNCHANGED <<inFlight, running>>
    ELSE Take(q) /\ UNCHANGED waiters

\* enqueue: the size trigger flushes, the first item arms the timer.  On the
\* size trigger the timer is cleared; flushing at once clears it as well.
SizeTrigger(q) == Cardinality(q) >= MaxBatchSize
Enqueue(i) ==
    LET q == queue \cup {i} IN
    /\ i \notin Enqueued
    /\ ~closed
    /\ IF SizeTrigger(q)
       THEN timer' = FALSE /\ FlushQueue(q)
       ELSE timer' = TRUE /\ queue' = q /\ UNCHANGED <<inFlight, running, waiters>>
    /\ UNCHANGED <<closed, drained, signed, resolved, rejected>>

\* After flushAll every enqueue is rejected on the spot.
EnqueueClosed(i) ==
    /\ i \notin Enqueued
    /\ closed
    /\ rejected' = rejected \cup {i}
    /\ UNCHANGED <<queue, timer, inFlight, running, waiters, closed, drained, signed, resolved>>

\* maxWaitMs after the first item.
TimerFires ==
    /\ timer
    /\ timer' = FALSE
    /\ FlushQueue(queue)
    /\ UNCHANGED <<closed, drained, signed, resolved, rejected>>

\* flushAll, from the onClose hook: flushQueue for the queue, if it was
\* ever used.
FlushAll ==
    /\ ~closed
    /\ closed' = TRUE
    /\ \/ /\ inFlight # {}
          /\ waiters' = waiters \cup {Await("drain", inFlight, queue)}
          /\ UNCHANGED <<queue, timer, inFlight, running, drained>>
       \/ /\ inFlight = {} /\ queue # {}
          /\ Take(queue)
          /\ timer' = FALSE
          /\ waiters' = waiters \cup {Await("drained", queue, queue)}
          /\ UNCHANGED drained
       \/ /\ inFlight = {} /\ queue = {}
          /\ drained' = TRUE
          /\ UNCHANGED <<queue, timer, inFlight, running, waiters>>
    /\ UNCHANGED <<signed, resolved, rejected>>

\* A suspended flushQueue goes on once the flush it awaited has settled.  It
\* takes what has queued up since, without looking at inFlight again; the
\* one of flushAll then awaits that flush too.
ResumeForgets(w) ==  \* mutant
    /\ w.kind # "drained"
    /\ w.on \notin running
    /\ waiters' = waiters \ {w}
    /\ drained' = (drained \/ w.kind = "drain")
    /\ UNCHANGED <<queue, timer, inFlight, running, closed, signed, resolved, rejected>>
Resume(w) ==
    /\ w.kind # "drained"
    /\ w.on \notin running
    /\ Take(queue)
    /\ timer' = (timer /\ queue = {})
    /\ waiters' = (waiters \ {w}) \cup
                     (IF w.kind = "drain" /\ queue # {}
                      THEN {Await("drained", queue, queue)} ELSE {})
    /\ drained' = (drained \/ (w.kind = "drain" /\ queue = {}))
    /\ UNCHANGED <<closed, signed, resolved, rejected>>

\* The flush that flushAll started has settled and flushAll resolves.
DrainEnds(w) ==
    /\ w.kind = "drained"
    /\ w.on \notin running
    /\ waiters' = waiters \ {w}
    /\ drained' = TRUE
    /\ UNCHANGED <<queue, timer, inFlight, running, closed, signed, resolved, rejected>>

\* runFlush signs the root, inserts the signed_batches row and resolves
\* every item of the flush.
ResolvesFirst(f) ==  \* mutant
    /\ f \in running
    /\ running' = running \ {f}
    /\ signed' \in {signed, signed \cup {f}}
    /\ resolved' = resolved \cup f
    /\ UNCHANGED <<queue, timer, inFlight, waiters, closed, drained, rejected>>
SignDone(f) ==
    /\ f \in running
    /\ running' = running \ {f}
    /\ signed' = signed \cup {f}
    /\ resolved' = resolved \cup f
    /\ UNCHANGED <<queue, timer, inFlight, waiters, closed, drained, rejected>>

\* The sign or the insert throws: every item of the flush is rejected.  An
\* insert whose answer is lost has stored the row all the same.
SignFails(f) ==
    /\ f \in running
    /\ running' = running \ {f}
    /\ signed' \in {signed, signed \cup {f}}
    /\ rejected' = rejected \cup f
    /\ UNCHANGED <<queue, timer, inFlight, waiters, closed, drained, resolved>>

SignerStep ==
    \/ TimerFires
    \/ \E w \in waiters : Resume(w) \/ DrainEnds(w)
    \/ \E f \in running : SignDone(f) \/ SignFails(f)

SignerNext ==
    \/ \E i \in Item : Enqueue(i) \/ EnqueueClosed(i)
    \/ FlushAll
    \/ SignerStep

SignerSpec == SignerInit /\ [][SignerNext]_signerVars

\* Timers fire, callbacks of settled promises run, and the signer answers
\* each call (the HTTP signer within its timeout).
SignerFairness ==
    /\ WF_signerVars(TimerFires)
    /\ \A w \in Waiter : WF_signerVars(w \in waiters /\ (Resume(w) \/ DrainEnds(w)))
    /\ \A f \in Flush : WF_signerVars(SignDone(f) \/ SignFails(f))

SignerFairSpec == SignerSpec /\ SignerFairness

-----------------------------------------------------------------------------
(* Properties *)

\* Every payload is in one place: queued, in one running flush, or answered
\* once.  Racing triggers never sign an item twice, and a failing batch
\* never rejects what another one resolved (flushQueue splices the queue).
SignedOnce ==
    /\ queue \cap (Items(running) \cup Answered) = {}
    /\ Items(running) \cap Answered = {}
    /\ resolved \cap rejected = {}
    /\ \A f, g \in running : f # g => f \cap g = {}

\* A caller that was told its batch finds the signed_batches row of exactly
\* one batch that holds its leaf (runFlush inserts before it resolves), and a
\* stored batch was answered as a whole: when the insert throws, nobody of
\* the batch holds a proof, not even if the row is there.
ResolvedIsStored ==
    /\ resolved \subseteq Items(signed)
    /\ \A f \in signed : f \subseteq resolved \/ f \subseteq rejected
    /\ \A f, g \in signed : f # g => f \cap g = {}

\* Queued payloads always have somebody coming for them: the timer or a
\* suspended flushQueue.  The size trigger clears the timer, and inFlight
\* keeps pointing at a settled flush for ever; neither strands the queue.
NothingStranded ==
    queue # {} => timer \/ \E w \in waiters : w.kind # "drained"

\* When flushAll has resolved nothing is left in the queue to be signed.
DrainEmptiesQueue ==
    drained => queue = {}

\* Behind timers, size triggers and suspended flushes the signer is the desk
\* of SigningDesk: what is queued or being signed is pending there.
Desk == INSTANCE SigningDesk WITH
    open <- ~closed, pending <- queue \cup Items(running),
    stored <- signed, yes <- resolved, no <- rejected
RefinesDesk == Desk!DeskSpec

\* Every payload accepted before the shutdown is answered.
EveryItemAnswered ==
    \A i \in Item : i \in Enqueued ~> i \in Answered

-----------------------------------------------------------------------------
(* The inductive invariant behind the safety properties *)

\* Once flushAll took the queue it stays empty: nothing is accepted any more.
ClosingHolds ==
    /\ drained => closed
    /\ \A w \in waiters : w.kind # "trigger" => closed
    /\ \A w \in waiters : w.kind = "drained" => queue = {}

SignerInv ==
    /\ SignerTypeOK
    /\ SignedOnce
    /\ ResolvedIsStored
    /\ NothingStranded
    /\ ClosingHolds
    /\ DrainEmptiesQueue

=============================================================================
