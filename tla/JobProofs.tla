----------------------------- MODULE JobProofs ------------------------------
(***************************************************************************)
(* What runs behind a request: batch signing, rendering and the log        *)
(* append of an issuance, bulk jobs and webhook deliveries.                *)
(***************************************************************************)
EXTENDS BatchSigner, RenderSemaphore, IssuanceLog, BulkJobs, WebhookDelivery,
        FiniteSetTheorems, SequenceTheorems, TLAPS

-----------------------------------------------------------------------------
(***************************************************************************)
(* The batch signer signs every payload once and strands none, for any     *)
(* set of payloads and any batch size.                                     *)
(***************************************************************************)

\* Taking a queue q whose items are nowhere else starts one more flush that
\* is disjoint from all the others, and leaves nothing queued.
LEMMA TakeStep ==
    ASSUME SignerInv, NEW q \in Flush, q \cap (Items(running) \cup Answered) = {},
           Take(q)
    PROVE  /\ queue' = {}
           /\ inFlight' \in Flush
           /\ running' \in SUBSET (Flush \ {{}})
           /\ Items(running') = Items(running) \cup q
           /\ \A f, g \in running' : f # g => f \cap g = {}
<1>1. CASE q = {}
    BY <1>1 DEF Take, SignerInv, SignerTypeOK, SignedOnce
<1>2. CASE q # {}
    <2>1. queue' = {} /\ inFlight' = q /\ running' = running \cup {q}
        BY <1>2 DEF Take
    <2>2. \A f \in running : f \cap q = {}
        BY DEF Items, Flush
    <2>3. running' \in SUBSET (Flush \ {{}})
        BY <1>2, <2>1 DEF SignerInv, SignerTypeOK
    <2>4. Items(running') = Items(running) \cup q
        BY <2>1 DEF Items, Flush
    <2>5. \A f, g \in running' : f # g => f \cap g = {}
        BY <2>1, <2>2 DEF SignerInv, SignedOnce
    <2> QED BY <2>1, <2>3, <2>4, <2>5
<1> QED BY <1>1, <1>2

\* flushQueue on such a q: taken at once, or left to a waiter.
LEMMA FlushQueueStep ==
    ASSUME SignerInv, NEW q \in Flush, q \cap (Items(running) \cup Answered) = {},
           FlushQueue(q)
    PROVE  /\ queue' \in Flush
           /\ inFlight' \in Flush
           /\ running' \in SUBSET (Flush \ {{}})
           /\ waiters' \in SUBSET Waiter
           /\ queue' \cup Items(running') = Items(running) \cup q
           /\ queue' \cap Items(running') = {}
           /\ \A f, g \in running' : f # g => f \cap g = {}
           /\ queue' # {} => \E w \in waiters' : w.kind # "drained"
           /\ \A w \in waiters' : w \in waiters \/ w.kind = "trigger"
<1>1. CASE inFlight # {}
    <2> DEFINE w == Await("trigger", inFlight, q)
    <2>1. w \in Waiter /\ w.kind = "trigger"
        BY DEF Await, Waiter, SignerInv, SignerTypeOK
    <2>2. /\ queue' = q /\ waiters' = waiters \cup {w}
          /\ inFlight' = inFlight /\ running' = running
        BY <1>1 DEF FlushQueue
    <2> HIDE DEF w
    <2> QED BY <2>1, <2>2 DEF SignerInv, SignerTypeOK, SignedOnce
<1>2. CASE inFlight = {}
    <2>1. Take(q) /\ waiters' = waiters
        BY <1>2 DEF FlushQueue
    <2>2. /\ queue' = {} /\ inFlight' \in Flush /\ running' \in SUBSET (Flush \ {{}})
          /\ Items(running') = Items(running) \cup q
          /\ \A f, g \in running' : f # g => f \cap g = {}
        BY <2>1, TakeStep
    <2>3. queue' \in Flush
        BY <2>2 DEF Flush
    <2> QED BY <2>1, <2>2, <2>3 DEF SignerInv, SignerTypeOK
<1> QED BY <1>1, <1>2

\* A flush that settles takes exactly its own items out of what is running.
LEMMA FlushSettles ==
    ASSUME SignerInv, NEW f \in running, running' = running \ {f}
    PROVE  /\ Items(running') = Items(running) \ f
           /\ f \subseteq Items(running) /\ f \in Flush \ {{}}
           /\ running' \in SUBSET (Flush \ {{}})
           /\ \A g, h \in running' : g # h => g \cap h = {}
<1>1. \A g \in running : g # f => g \cap f = {}
    BY DEF SignerInv, SignedOnce
<1>2. f \in Flush \ {{}} /\ f \subseteq Items(running)
    BY DEF SignerInv, SignerTypeOK, Flush, Items
<1>3. ASSUME NEW i \in Item
      PROVE  i \in Items(running') <=> i \in Items(running) /\ i \notin f
    BY <1>1 DEF Items
<1>4. Items(running') = Items(running) \ f
    BY <1>3 DEF Items
<1> QED BY <1>2, <1>4 DEF SignerInv, SignerTypeOK, SignedOnce

\* Its row, when it gets stored, shares no item with an earlier batch.
LEMMA BatchStored ==
    ASSUME SignerInv, NEW f \in running
    PROVE  /\ Items(signed \cup {f}) = Items(signed) \cup f
           /\ \A g, h \in signed \cup {f} : g # h => g \cap h = {}
<1>1. f \subseteq Item /\ f \subseteq Items(running)
    BY DEF SignerInv, SignerTypeOK, Flush, Items
<1>2. \A g \in signed : g \subseteq Answered
    BY DEF SignerInv, ResolvedIsStored, Answered
<1>3. \A g \in signed : g \cap f = {}
    BY <1>1, <1>2 DEF SignerInv, SignedOnce
<1>4. Items(signed \cup {f}) = Items(signed) \cup f
    BY <1>1 DEF Items
<1>5. \A g, h \in signed : g # h => g \cap h = {}
    BY DEF SignerInv, ResolvedIsStored
<1>6. ASSUME NEW g \in signed \cup {f}, NEW h \in signed \cup {f}, g # h
      PROVE  g \cap h = {}
    <2>1. CASE g = f
        BY <1>3, <1>6, <2>1
    <2>2. CASE h = f
        BY <1>3, <1>6, <2>2
    <2>3. CASE g \in signed /\ h \in signed
        BY <1>5, <1>6, <2>3
    <2> QED BY <2>1, <2>2, <2>3
<1> QED BY <1>4, <1>6

\* Each action keeps the invariant.
LEMMA SignerStepInv ==
    ASSUME SignerInv, [SignerNext]_signerVars
    PROVE  SignerInv'
<1> USE DEF Answered, Items
<1>1. ASSUME NEW i \in Item, Enqueue(i) PROVE SignerInv'
    <2> DEFINE q == queue \cup {i}
    <2>1. /\ q \in Flush /\ q \cap (Items(running) \cup Answered) = {}
          /\ ~closed /\ ~drained /\ \A w \in waiters : w.kind = "trigger"
          /\ UNCHANGED <<closed, drained, signed, resolved, rejected>>
        BY <1>1 DEF Enqueue, Enqueued, SignerInv, SignerTypeOK, SignedOnce, ClosingHolds, Flush
    <2> HIDE DEF q
    <2>2. CASE timer' = FALSE /\ FlushQueue(q)
        <3>type. SignerTypeOK'
            BY <2>1, <2>2, FlushQueueStep DEF SignerInv, SignerTypeOK, Flush
        <3>once. SignedOnce'
            BY <2>1, <2>2, FlushQueueStep DEF SignerInv, SignerTypeOK, SignedOnce, ResolvedIsStored
        <3>stored. ResolvedIsStored'
            BY <2>1, <2>2, FlushQueueStep DEF SignerInv, SignerTypeOK, SignedOnce, ResolvedIsStored
        <3>stranded. NothingStranded'
            BY <2>1, <2>2, FlushQueueStep DEF SignerInv, NothingStranded
        <3>closing. ClosingHolds'
            BY <2>1, <2>2, FlushQueueStep DEF SignerInv, ClosingHolds, DrainEmptiesQueue
        <3>drain. DrainEmptiesQueue'
            BY <2>1, <2>2, FlushQueueStep DEF SignerInv, ClosingHolds, DrainEmptiesQueue, NothingStranded
        <3> QED BY <3>type, <3>once, <3>stored, <3>stranded, <3>closing, <3>drain DEF SignerInv
    <2>3. CASE timer' = TRUE /\ queue' = q /\ UNCHANGED <<inFlight, running, waiters>>
        <3>type. SignerTypeOK'
            BY <2>1, <2>3 DEF SignerInv, SignerTypeOK, Flush
        <3>once. SignedOnce'
            BY <2>1, <2>3 DEF SignerInv, SignerTypeOK, SignedOnce, ResolvedIsStored
        <3>stored. ResolvedIsStored'
            BY <2>1, <2>3 DEF SignerInv, SignerTypeOK, SignedOnce, ResolvedIsStored
        <3>stranded. NothingStranded'
            BY <2>1, <2>3 DEF SignerInv, NothingStranded
        <3>closing. ClosingHolds'
            BY <2>1, <2>3 DEF SignerInv, ClosingHolds, DrainEmptiesQueue
        <3>drain. DrainEmptiesQueue'
            BY <2>1, <2>3 DEF SignerInv, ClosingHolds, DrainEmptiesQueue, NothingStranded
        <3> QED BY <3>type, <3>once, <3>stored, <3>stranded, <3>closing, <3>drain DEF SignerInv
    <2> QED BY <1>1, <2>2, <2>3 DEF Enqueue, q
<1>2. ASSUME NEW i \in Item, EnqueueClosed(i) PROVE SignerInv'
    <2>type. SignerTypeOK'
        BY <1>2 DEF EnqueueClosed, Enqueued, SignerInv, SignerTypeOK, Flush
    <2>once. SignedOnce'
        BY <1>2 DEF EnqueueClosed, Enqueued, SignerInv, SignerTypeOK, SignedOnce, ResolvedIsStored
    <2>stored. ResolvedIsStored'
        BY <1>2 DEF EnqueueClosed, Enqueued, SignerInv, SignerTypeOK, SignedOnce, ResolvedIsStored
    <2>stranded. NothingStranded'
        BY <1>2 DEF EnqueueClosed, Enqueued, SignerInv, NothingStranded
    <2>closing. ClosingHolds'
        BY <1>2 DEF EnqueueClosed, Enqueued, SignerInv, ClosingHolds, DrainEmptiesQueue
    <2>drain. DrainEmptiesQueue'
        BY <1>2 DEF EnqueueClosed, Enqueued, SignerInv, ClosingHolds, DrainEmptiesQueue, NothingStranded
    <2> QED BY <2>type, <2>once, <2>stored, <2>stranded, <2>closing, <2>drain DEF SignerInv
<1>3. CASE TimerFires
    <2>1. /\ queue \in Flush /\ queue \cap (Items(running) \cup Answered) = {}
          /\ FlushQueue(queue) /\ timer' = FALSE
          /\ UNCHANGED <<closed, drained, signed, resolved, rejected>>
        BY <1>3 DEF TimerFires, SignerInv, SignerTypeOK, SignedOnce
    <2>2. queue' \cup Items(running') = Items(running) \cup queue
        BY <2>1, FlushQueueStep
    <2>3. queue = {} => queue' = {}
        BY <2>1 DEF FlushQueue, Take
    <2>type. SignerTypeOK'
        BY <2>1, <2>3, FlushQueueStep DEF SignerInv, SignerTypeOK, Flush
    <2>once. SignedOnce'
        BY <2>1, <2>3, FlushQueueStep DEF SignerInv, SignerTypeOK, SignedOnce, ResolvedIsStored
    <2>stored. ResolvedIsStored'
        BY <2>1, <2>3, FlushQueueStep DEF SignerInv, SignerTypeOK, SignedOnce, ResolvedIsStored
    <2>stranded. NothingStranded'
        BY <2>1, <2>3, FlushQueueStep DEF SignerInv, NothingStranded
    <2>closing. ClosingHolds'
        BY <2>1, <2>3, FlushQueueStep DEF SignerInv, ClosingHolds, DrainEmptiesQueue
    <2>drain. DrainEmptiesQueue'
        BY <2>1, <2>3, FlushQueueStep DEF SignerInv, ClosingHolds, DrainEmptiesQueue, NothingStranded
    <2> QED BY <2>type, <2>once, <2>stored, <2>stranded, <2>closing, <2>drain DEF SignerInv
<1>4. CASE FlushAll
    <2>1. /\ ~drained /\ closed' = TRUE /\ UNCHANGED <<signed, resolved, rejected>>
          /\ queue \in Flush /\ inFlight \in Flush
          /\ queue \cap (Items(running) \cup Answered) = {}
          /\ \A w \in waiters : w.kind = "trigger"
        BY <1>4 DEF FlushAll, SignerInv, SignerTypeOK, ClosingHolds, SignedOnce
    <2>2. CASE /\ waiters' = waiters \cup {Await("drain", inFlight, queue)}
               /\ UNCHANGED <<queue, timer, inFlight, running, drained>>
        <3>1. PICK w \in Waiter : w.kind = "drain" /\ waiters' = waiters \cup {w}
            BY <2>1, <2>2 DEF Await, Waiter
        <3>type. SignerTypeOK'
            BY <2>1, <2>2, <3>1 DEF SignerInv, SignerTypeOK, Flush
        <3>once. SignedOnce'
            BY <2>1, <2>2, <3>1 DEF SignerInv, SignerTypeOK, SignedOnce, ResolvedIsStored
        <3>stored. ResolvedIsStored'
            BY <2>1, <2>2, <3>1 DEF SignerInv, SignerTypeOK, SignedOnce, ResolvedIsStored
        <3>stranded. NothingStranded'
            BY <2>1, <2>2, <3>1 DEF SignerInv, NothingStranded
        <3>closing. ClosingHolds'
            BY <2>1, <2>2, <3>1 DEF SignerInv, ClosingHolds, DrainEmptiesQueue
        <3>drain. DrainEmptiesQueue'
            BY <2>1, <2>2, <3>1 DEF SignerInv, ClosingHolds, DrainEmptiesQueue, NothingStranded
        <3> QED BY <3>type, <3>once, <3>stored, <3>stranded, <3>closing, <3>drain DEF SignerInv
    <2>3. CASE /\ Take(queue) /\ timer' = FALSE /\ UNCHANGED drained
               /\ waiters' = waiters \cup {Await("drained", queue, queue)}
        <3>1. PICK w \in Waiter : w.kind = "drained" /\ waiters' = waiters \cup {w}
            BY <2>1, <2>3 DEF Await, Waiter
        <3>3. /\ queue' = {} /\ inFlight' \in Flush /\ running' \in SUBSET (Flush \ {{}})
            BY <2>1, <2>3, TakeStep
        <3>4. queue' \in Flush
            BY <3>3 DEF Flush
        <3>5. waiters' \in SUBSET Waiter
            BY <3>1 DEF SignerInv, SignerTypeOK
        <3>type. SignerTypeOK'
            <4> HIDE DEF Items
            <4> QED BY <2>1, <2>3, <3>3, <3>4, <3>5 DEF SignerInv, SignerTypeOK
        <3>2. /\ queue' = {} /\ Items(running') = Items(running) \cup queue
              /\ \A f, g \in running' : f # g => f \cap g = {}
            BY <2>1, <2>3, TakeStep
        <3>once. SignedOnce'
            <4> HIDE DEF Items
            <4> QED BY <2>1, <3>2 DEF SignerInv, SignedOnce
        <3>stored. ResolvedIsStored'
            BY <2>1, <2>3, <3>1, TakeStep DEF SignerInv, SignerTypeOK, SignedOnce, ResolvedIsStored
        <3>stranded. NothingStranded'
            BY <2>1, <2>3, <3>1, TakeStep DEF SignerInv, NothingStranded
        <3>closing. ClosingHolds'
            BY <2>1, <2>3, <3>1, TakeStep DEF SignerInv, ClosingHolds, DrainEmptiesQueue
        <3>drain. DrainEmptiesQueue'
            BY <2>1, <2>3, <3>1, TakeStep DEF SignerInv, ClosingHolds, DrainEmptiesQueue, NothingStranded
        <3> QED BY <3>type, <3>once, <3>stored, <3>stranded, <3>closing, <3>drain DEF SignerInv
    <2>4. CASE /\ queue = {} /\ drained' = TRUE
               /\ UNCHANGED <<queue, timer, inFlight, running, waiters>>
        <3>type. SignerTypeOK'
            BY <2>1, <2>4 DEF SignerInv, SignerTypeOK, Flush
        <3>once. SignedOnce'
            BY <2>1, <2>4 DEF SignerInv, SignerTypeOK, SignedOnce, ResolvedIsStored
        <3>stored. ResolvedIsStored'
            BY <2>1, <2>4 DEF SignerInv, SignerTypeOK, SignedOnce, ResolvedIsStored
        <3>stranded. NothingStranded'
            BY <2>1, <2>4 DEF SignerInv, NothingStranded
        <3>closing. ClosingHolds'
            BY <2>1, <2>4 DEF SignerInv, ClosingHolds, DrainEmptiesQueue
        <3>drain. DrainEmptiesQueue'
            BY <2>1, <2>4 DEF SignerInv, ClosingHolds, DrainEmptiesQueue, NothingStranded
        <3> QED BY <3>type, <3>once, <3>stored, <3>stranded, <3>closing, <3>drain DEF SignerInv
    <2> QED BY <1>4, <2>2, <2>3, <2>4 DEF FlushAll
<1>5. ASSUME NEW w \in waiters, Resume(w) PROVE SignerInv'
    <2>1. /\ queue \in Flush /\ queue \cap (Items(running) \cup Answered) = {}
          /\ Take(queue) /\ timer' \in BOOLEAN /\ w.kind # "drained"
          /\ UNCHANGED <<closed, signed, resolved, rejected>>
        BY <1>5 DEF Resume, SignerInv, SignerTypeOK, SignedOnce
    <2>2. drained' => closed
        BY <1>5 DEF Resume, SignerInv, ClosingHolds
    <2>3. drained' \in BOOLEAN
        BY <1>5 DEF Resume, SignerInv, SignerTypeOK
    <2>4. /\ waiters' \in SUBSET Waiter
          /\ \A v \in waiters' : v.kind # "trigger" => closed
        <3>1. Await("drained", queue, queue) \in Waiter
            BY <2>1 DEF Await, Waiter
        <3>2. CASE w.kind = "drain" /\ queue # {}
            <4>1. waiters' = (waiters \ {w}) \cup {Await("drained", queue, queue)} /\ closed
                BY <1>5, <3>2 DEF Resume, SignerInv, ClosingHolds
            <4> QED BY <3>1, <4>1 DEF SignerInv, SignerTypeOK, ClosingHolds
        <3>3. CASE ~(w.kind = "drain" /\ queue # {})
            <4>1. waiters' = waiters \ {w}
                BY <1>5, <3>3 DEF Resume
            <4> QED BY <4>1 DEF SignerInv, SignerTypeOK, ClosingHolds
        <3> QED BY <3>2, <3>3
    <2>type. SignerTypeOK'
        BY <2>1, <2>2, <2>3, <2>4, TakeStep DEF SignerInv, SignerTypeOK, Flush
    <2>once. SignedOnce'
        BY <2>1, <2>2, <2>3, <2>4, TakeStep DEF SignerInv, SignerTypeOK, SignedOnce, ResolvedIsStored
    <2>stored. ResolvedIsStored'
        BY <2>1, <2>2, <2>3, <2>4, TakeStep DEF SignerInv, SignerTypeOK, SignedOnce, ResolvedIsStored
    <2>stranded. NothingStranded'
        BY <2>1, <2>2, <2>3, <2>4, TakeStep DEF SignerInv, NothingStranded
    <2>closing. ClosingHolds'
        BY <2>1, <2>2, <2>3, <2>4, TakeStep DEF SignerInv, ClosingHolds, DrainEmptiesQueue
    <2>drain. DrainEmptiesQueue'
        BY <2>1, <2>2, <2>3, <2>4, TakeStep DEF SignerInv, ClosingHolds, DrainEmptiesQueue, NothingStranded
    <2> QED BY <2>type, <2>once, <2>stored, <2>stranded, <2>closing, <2>drain DEF SignerInv
<1>6. ASSUME NEW w \in waiters, DrainEnds(w) PROVE SignerInv'
    <2>type. SignerTypeOK'
        BY <1>6 DEF DrainEnds, SignerInv, SignerTypeOK, Flush
    <2>once. SignedOnce'
        BY <1>6 DEF DrainEnds, SignerInv, SignerTypeOK, SignedOnce, ResolvedIsStored
    <2>stored. ResolvedIsStored'
        BY <1>6 DEF DrainEnds, SignerInv, SignerTypeOK, SignedOnce, ResolvedIsStored
    <2>stranded. NothingStranded'
        BY <1>6 DEF DrainEnds, SignerInv, NothingStranded
    <2>closing. ClosingHolds'
        BY <1>6 DEF DrainEnds, SignerInv, ClosingHolds, DrainEmptiesQueue
    <2>drain. DrainEmptiesQueue'
        BY <1>6 DEF DrainEnds, SignerInv, ClosingHolds, DrainEmptiesQueue, NothingStranded
    <2> QED BY <2>type, <2>once, <2>stored, <2>stranded, <2>closing, <2>drain DEF SignerInv
<1>7. ASSUME NEW f \in running, SignDone(f) PROVE SignerInv'
    <2>1. /\ running' = running \ {f} /\ signed' = signed \cup {f} /\ resolved' = resolved \cup f
          /\ UNCHANGED <<queue, timer, inFlight, waiters, closed, drained, rejected>>
        BY <1>7 DEF SignDone
    <2>stored. ResolvedIsStored'
        <3> HIDE DEF Answered, Items
        <3>1. Items(signed') = Items(signed) \cup f /\ \A g, h \in signed' : g # h => g \cap h = {}
            BY <2>1, BatchStored
        <3>2. resolved' \subseteq Items(signed')
            BY <2>1, <3>1 DEF SignerInv, ResolvedIsStored
        <3>3. \A g \in signed' : g \subseteq resolved' \/ g \subseteq rejected'
            BY <2>1 DEF SignerInv, ResolvedIsStored
        <3> QED BY <3>1, <3>2, <3>3 DEF ResolvedIsStored
    <2>type. SignerTypeOK'
        BY <2>1, FlushSettles DEF SignerInv, SignerTypeOK, Flush
    <2>once. SignedOnce'
        BY <2>1, FlushSettles DEF SignerInv, SignerTypeOK, SignedOnce
    <2>stranded. NothingStranded'
        BY <2>1 DEF SignerInv, NothingStranded
    <2>closing. ClosingHolds'
        BY <2>1 DEF SignerInv, ClosingHolds
    <2>drain. DrainEmptiesQueue'
        BY <2>1 DEF SignerInv, DrainEmptiesQueue
    <2> QED BY <2>type, <2>once, <2>stored, <2>stranded, <2>closing, <2>drain DEF SignerInv
<1>8. ASSUME NEW f \in running, SignFails(f) PROVE SignerInv'
    <2>1. /\ running' = running \ {f} /\ rejected' = rejected \cup f
          /\ signed' = signed \/ signed' = signed \cup {f}
          /\ UNCHANGED <<queue, timer, inFlight, waiters, closed, drained, resolved>>
        BY <1>8 DEF SignFails
    <2>stored. ResolvedIsStored'
        <3> HIDE DEF Answered, Items
        <3>1. /\ resolved \subseteq Items(signed')
              /\ \A g, h \in signed' : g # h => g \cap h = {}
            BY <2>1, BatchStored DEF SignerInv, ResolvedIsStored
        <3>2. \A g \in signed' : g \subseteq resolved' \/ g \subseteq rejected'
            BY <2>1 DEF SignerInv, ResolvedIsStored
        <3> QED BY <2>1, <3>1, <3>2 DEF ResolvedIsStored
    <2>type. SignerTypeOK'
        BY <2>1, FlushSettles DEF SignerInv, SignerTypeOK, Flush
    <2>once. SignedOnce'
        BY <2>1, FlushSettles DEF SignerInv, SignerTypeOK, SignedOnce
    <2>stranded. NothingStranded'
        BY <2>1 DEF SignerInv, NothingStranded
    <2>closing. ClosingHolds'
        BY <2>1 DEF SignerInv, ClosingHolds
    <2>drain. DrainEmptiesQueue'
        BY <2>1 DEF SignerInv, DrainEmptiesQueue
    <2> QED BY <2>type, <2>once, <2>stored, <2>stranded, <2>closing, <2>drain DEF SignerInv
<1>9. CASE UNCHANGED signerVars
    <2>type. SignerTypeOK'
        BY <1>9 DEF signerVars, SignerInv, SignerTypeOK, Flush
    <2>once. SignedOnce'
        BY <1>9 DEF signerVars, SignerInv, SignerTypeOK, SignedOnce, ResolvedIsStored
    <2>stored. ResolvedIsStored'
        BY <1>9 DEF signerVars, SignerInv, SignerTypeOK, SignedOnce, ResolvedIsStored
    <2>stranded. NothingStranded'
        BY <1>9 DEF signerVars, SignerInv, NothingStranded
    <2>closing. ClosingHolds'
        BY <1>9 DEF signerVars, SignerInv, ClosingHolds, DrainEmptiesQueue
    <2>drain. DrainEmptiesQueue'
        BY <1>9 DEF signerVars, SignerInv, ClosingHolds, DrainEmptiesQueue, NothingStranded
    <2> QED BY <2>type, <2>once, <2>stored, <2>stranded, <2>closing, <2>drain DEF SignerInv
<1> QED
    BY <1>1, <1>2, <1>3, <1>4, <1>5, <1>6, <1>7, <1>8, <1>9 DEF SignerNext, SignerStep

\* Every payload is signed once, stored before its caller is told, never
\* stranded in the queue and never left there by a shutdown.
THEOREM SignerSafety ==
    SignerSpec => [](SignerTypeOK /\ SignedOnce /\ ResolvedIsStored
                     /\ NothingStranded /\ DrainEmptiesQueue)
<1>1. SignerInit => SignerInv
    BY DEF SignerInit, SignerInv, SignerTypeOK, SignedOnce, Answered, Flush, Items,
       ResolvedIsStored, NothingStranded, ClosingHolds, DrainEmptiesQueue
<1>2. SignerInv /\ [SignerNext]_signerVars => SignerInv'
    BY SignerStepInv
<1>3. SignerInv => SignerTypeOK /\ SignedOnce /\ ResolvedIsStored
                   /\ NothingStranded /\ DrainEmptiesQueue
    BY DEF SignerInv
<1> QED BY <1>1, <1>2, <1>3, PTL DEF SignerSpec

\* What a signer does about items that are queued or running, the desk sees
\* as nothing.
LEMMA DeskHides ==
    ASSUME queue' \cup Items(running') = queue \cup Items(running),
           UNCHANGED <<closed, signed, resolved, rejected>>
    PROVE  UNCHANGED Desk!deskVars
BY DEF Desk!deskVars

\* Each step of the signer is a step of the desk or hidden from it.
LEMMA DeskStep ==
    ASSUME SignerInv, [SignerNext]_signerVars
    PROVE  [Desk!DeskNext]_Desk!deskVars
<1>f. queue \in Flush /\ queue \cap (Items(running) \cup Answered) = {}
    BY DEF SignerInv, SignerTypeOK, SignedOnce
<1>1. ASSUME NEW i \in Item, Enqueue(i) PROVE Desk!Accept(i)
    <2> DEFINE q == queue \cup {i}
    <2>1. /\ q \in Flush /\ q \cap (Items(running) \cup Answered) = {}
          /\ ~closed /\ i \notin Enqueued
          /\ UNCHANGED <<closed, signed, resolved, rejected>>
        BY <1>f, <1>1 DEF Enqueue, Enqueued, Flush
    <2>2. queue' \cup Items(running') = Items(running) \cup q
        <3>1. CASE FlushQueue(q)
            <4> HIDE DEF q
            <4> QED BY <2>1, <3>1, FlushQueueStep
        <3>2. CASE queue' = q /\ running' = running
            BY <3>2
        <3> QED BY <1>1, <3>1, <3>2 DEF Enqueue
    <2> QED BY <2>1, <2>2 DEF Desk!Accept, Desk!Fresh, Enqueued, Answered
<1>2. ASSUME NEW i \in Item, EnqueueClosed(i) PROVE Desk!Refuse(i)
    BY <1>2 DEF EnqueueClosed, Enqueued, Answered, Desk!Refuse, Desk!Fresh
<1>3. CASE TimerFires
    <2>1. queue' \cup Items(running') = Items(running) \cup queue
        BY <1>f, <1>3, FlushQueueStep DEF TimerFires
    <2> QED BY <1>3, <2>1, DeskHides DEF TimerFires
<1>4. CASE FlushAll
    <2>1. queue' \cup Items(running') = queue \cup Items(running)
        BY <1>f, <1>4, TakeStep DEF FlushAll
    <2>2. Desk!CloseDesk
        BY <1>4, <2>1 DEF FlushAll, Desk!CloseDesk
    <2> QED BY <2>2 DEF Desk!DeskNext
<1>5. ASSUME NEW w \in waiters, Resume(w) PROVE UNCHANGED Desk!deskVars
    <2>1. queue' \cup Items(running') = queue \cup Items(running)
        BY <1>f, <1>5, TakeStep DEF Resume
    <2> QED BY <1>5, <2>1, DeskHides DEF Resume
<1>6. ASSUME NEW w \in waiters, DrainEnds(w) PROVE UNCHANGED Desk!deskVars
    BY <1>6, DeskHides DEF DrainEnds
<1>7. ASSUME NEW f \in running, running' = running \ {f}, queue' = queue
      PROVE  /\ queue' \cup Items(running') = (queue \cup Items(running)) \ f
             /\ f \in SUBSET (queue \cup Items(running)) /\ f # {}
    <2>1. Items(running') = Items(running) \ f /\ f \subseteq Items(running) /\ f # {}
        BY <1>7, FlushSettles
    <2> QED BY <1>f, <1>7, <2>1
<1>8. ASSUME NEW f \in running, SignDone(f) PROVE Desk!DeskNext
    <2>1. Desk!GrantBatch(f)
        BY <1>7, <1>8 DEF SignDone, Desk!GrantBatch
    <2> QED BY <1>7, <1>8, <2>1 DEF SignDone, Desk!DeskNext
<1>9. ASSUME NEW f \in running, SignFails(f) PROVE Desk!DeskNext
    <2>1. Desk!DeclineBatch(f)
        BY <1>7, <1>9 DEF SignFails, Desk!DeclineBatch
    <2> QED BY <1>7, <1>9, <2>1 DEF SignFails, Desk!DeskNext
<1>10. CASE UNCHANGED signerVars
    BY <1>10, DeskHides DEF signerVars
<1>11. Desk!DeskNext \/ UNCHANGED Desk!deskVars
    BY <1>1, <1>2, <1>3, <1>4, <1>5, <1>6, <1>8, <1>9, <1>10
       DEF SignerNext, SignerStep, Desk!DeskNext
<1> QED BY <1>11

\* Behind its queue, timer and suspended flushes the signer implements the
\* desk: accepted once, answered once and with its whole batch, and a grant
\* only for a stored batch, through any interleaving and any shutdown.
THEOREM SignerRefinesDesk == SignerSpec => RefinesDesk
<1>1. SignerInit => SignerInv /\ Desk!DeskInit
    BY DEF SignerInit, SignerInv, SignerTypeOK, SignedOnce, Answered, Flush, Items,
       ResolvedIsStored, NothingStranded, ClosingHolds, DrainEmptiesQueue, Desk!DeskInit
<1>2. SignerInv /\ [SignerNext]_signerVars => SignerInv'
    BY SignerStepInv
<1>3. SignerInv /\ [SignerNext]_signerVars => [Desk!DeskNext]_Desk!deskVars
    BY DeskStep
<1> QED BY <1>1, <1>2, <1>3, PTL DEF SignerSpec, RefinesDesk, Desk!DeskSpec

-----------------------------------------------------------------------------
(***************************************************************************)
(* The render limiter, for any callers, limit and lane length.             *)
(***************************************************************************)

\* Whom a lane holds, by place.
LEMMA InLane ==
    ASSUME NEW q \in Seq(Task), NEW t
    PROVE  t \in ToSet(q) <=> \E i \in 1 .. Len(q) : q[i] = t
    BY DEF ToSet

\* splice(at, 1): what stood behind the waiter moves up.
LEMMA Spliced ==
    ASSUME NEW q \in Seq(Task), NEW at \in 1 .. Len(q)
    PROVE  /\ RemoveAt(q, at) \in Seq(Task)
           /\ Len(RemoveAt(q, at)) = Len(q) - 1
           /\ \A i \in 1 .. Len(q) - 1 : RemoveAt(q, at)[i] = IF i < at THEN q[i] ELSE q[i + 1]
<1>0. at \in Int /\ Len(q) \in Nat /\ 1 <= at /\ at <= Len(q)
    OBVIOUS
<1>1. PICK a : a = SubSeq(q, 1, at - 1)
    OBVIOUS
<1>2. PICK b : b = SubSeq(q, at + 1, Len(q))
    OBVIOUS
<1>3. a \in Seq(Task) /\ Len(a) = at - 1 /\ \A i \in 1 .. at - 1 : a[i] = q[i]
    BY <1>0, <1>1
<1>4. b \in Seq(Task) /\ Len(b) = Len(q) - at /\ \A i \in 1 .. Len(q) - at : b[i] = q[at + i]
    BY <1>0, <1>2
<1>5. RemoveAt(q, at) = a \o b
    BY <1>1, <1>2 DEF RemoveAt
<1>e. Len(a) + Len(b) = Len(q) - 1
    BY <1>0, <1>3, <1>4
<1>6. /\ a \o b \in Seq(Task) /\ Len(a \o b) = Len(q) - 1
      /\ \A i \in 1 .. Len(q) - 1 : (a \o b)[i] = IF i <= at - 1 THEN a[i] ELSE b[i - (at - 1)]
    <2>1. /\ a \o b \in Seq(Task) /\ Len(a \o b) = Len(a) + Len(b)
          /\ \A i \in 1 .. Len(a) + Len(b) :
                (a \o b)[i] = IF i <= Len(a) THEN a[i] ELSE b[i - Len(a)]
        BY <1>3, <1>4, ConcatProperties
    <2> QED BY <1>3, <1>e, <2>1
<1>7. ASSUME NEW i \in 1 .. Len(q) - 1 PROVE (a \o b)[i] = IF i < at THEN q[i] ELSE q[i + 1]
    <2>0. i < at \/ i >= at
        BY <1>0
    <2>1. CASE i < at
        BY <1>0, <1>3, <1>6, <2>1
    <2>2. CASE i >= at
        <3>1. i - (at - 1) \in 1 .. Len(q) - at /\ at + (i - (at - 1)) = i + 1
            BY <1>0, <2>2
        <3>2. (a \o b)[i] = b[i - (at - 1)]
            BY <1>0, <1>6, <2>2
        <3>3. b[i - (at - 1)] = q[i + 1]
            BY <1>4, <3>1
        <3> QED BY <1>0, <2>2, <3>2, <3>3
    <2> QED BY <2>0, <2>1, <2>2
<1> QED BY <1>5, <1>6, <1>7

\* shift(): everybody moves up.
LEMMA Shifted ==
    ASSUME NEW q \in Seq(Task), q # <<>>
    PROVE  /\ Tail(q) \in Seq(Task) /\ Head(q) = q[1] /\ 1 \in 1 .. Len(q)
           /\ Len(Tail(q)) = Len(q) - 1
           /\ \A i \in 1 .. Len(q) - 1 : Tail(q)[i] = IF i < 1 THEN q[i] ELSE q[i + 1]
    OBVIOUS

\* r is q without its waiter at place at.
Without(q, at, r) ==
    /\ r \in Seq(Task) /\ Len(r) = Len(q) - 1
    /\ \A i \in 1 .. Len(q) - 1 : r[i] = IF i < at THEN q[i] ELSE q[i + 1]

\* What one lane gains or loses, the queue does.
LEMMA LaneGrows ==
    ASSUME lanes \in [Lane -> Seq(Task)], NEW l \in Lane, NEW n \in Int,
           Len(lanes'[l]) = Len(lanes[l]) + n, \A m \in Lane : m # l => lanes'[m] = lanes[m]
    PROVE  Queued' = Queued + n /\ Queued \in Nat
<1>1. "issue" \in Lane /\ "export" \in Lane /\ (l = "issue" \/ l = "export")
    BY DEF Lane
<1>2. PICK a \in Nat : a = Len(lanes["issue"])
    BY <1>1
<1>3. PICK b \in Nat : b = Len(lanes["export"])
    BY <1>1
<1>4. Queued = a + b
    BY <1>2, <1>3 DEF Queued
<1>5. CASE l = "issue"
    <2>1. Len(lanes'["issue"]) = a + n /\ Len(lanes'["export"]) = b
        BY <1>1, <1>2, <1>3, <1>5
    <2>2. Queued' = (a + n) + b
        BY <2>1 DEF Queued
    <2> QED BY <1>4, <2>2
<1>6. CASE l = "export"
    <2>1. Len(lanes'["export"]) = b + n /\ Len(lanes'["issue"]) = a
        BY <1>1, <1>2, <1>3, <1>6
    <2>2. Queued' = a + (b + n)
        BY <2>1 DEF Queued
    <2> QED BY <1>4, <2>2
<1> QED BY <1>1, <1>5, <1>6

\* A waiter that leaves its lane, granted or cancelled, is in no lane any
\* more; everybody else stays, each in one place.
LEMMA Leaves ==
    ASSUME SemTypeOK, OnePlace, NEW l \in Lane, NEW at \in 1 .. Len(lanes[l]), NEW r,
           Without(lanes[l], at, r), lanes' = [lanes EXCEPT ![l] = r]
    PROVE  /\ lanes' \in [Lane -> Seq(Task)] /\ OnePlace' /\ Queued' = Queued - 1
           /\ \A t \in Task :
                (\E m \in Lane : t \in ToSet(lanes'[m])) <=>
                   t # lanes[l][at] /\ \E m \in Lane : t \in ToSet(lanes[m])
<1>0. lanes \in [Lane -> Seq(Task)] /\ lanes[l] \in Seq(Task) /\ Len(lanes[l]) \in Nat
    BY DEF SemTypeOK
<1>1. /\ r \in Seq(Task) /\ Len(r) = Len(lanes[l]) - 1 /\ lanes'[l] = r
      /\ \A m \in Lane : m # l => lanes'[m] = lanes[m]
      /\ lanes' \in [Lane -> Seq(Task)]
    BY <1>0 DEF Without
<1>2. PICK p : p = [i \in 1 .. Len(r) |-> IF i < at THEN i ELSE i + 1]
    OBVIOUS
<1>3. \A i \in 1 .. Len(r) : /\ p[i] \in 1 .. Len(lanes[l]) /\ p[i] # at /\ r[i] = lanes[l][p[i]]
                             /\ \A j \in 1 .. Len(r) : p[i] = p[j] => i = j
    BY <1>0, <1>1, <1>2 DEF Without
<1>4. \A k \in 1 .. Len(lanes[l]) : k # at => \E i \in 1 .. Len(r) : p[i] = k
    <2> TAKE k \in 1 .. Len(lanes[l])
    <2> HAVE k # at
    <2>1. CASE k < at
        <3>1. k \in 1 .. Len(r) /\ p[k] = k
            BY <1>0, <1>1, <1>2, <2>1
        <3> QED BY <3>1
    <2>2. CASE k > at
        <3>1. k - 1 \in 1 .. Len(r) /\ p[k - 1] = k
            BY <1>0, <1>1, <1>2, <2>2
        <3> QED BY <3>1
    <2> QED BY <1>0, <2>1, <2>2
<1>5. OnePlace'
    <2> SUFFICES ASSUME NEW m \in Lane, NEW n \in Lane, NEW i \in 1 .. Len(lanes'[m]),
                        NEW j \in 1 .. Len(lanes'[n]), lanes'[m][i] = lanes'[n][j]
                 PROVE  m = n /\ i = j
        BY DEF OnePlace
    <2>1. CASE m # l /\ n # l
        BY <1>1, <2>1 DEF OnePlace
    <2>2. CASE m = l /\ n # l
        <3>1. p[i] \in 1 .. Len(lanes[m]) /\ j \in 1 .. Len(lanes[n]) /\ lanes[m][p[i]] = lanes[n][j]
            BY <1>1, <1>3, <2>2
        <3> QED BY <2>2, <3>1 DEF OnePlace
    <2>3. CASE m # l /\ n = l
        <3>1. p[j] \in 1 .. Len(lanes[n]) /\ i \in 1 .. Len(lanes[m]) /\ lanes[m][i] = lanes[n][p[j]]
            BY <1>1, <1>3, <2>3
        <3> QED BY <2>3, <3>1 DEF OnePlace
    <2>4. CASE m = l /\ n = l
        <3>1. /\ p[i] \in 1 .. Len(lanes[l]) /\ p[j] \in 1 .. Len(lanes[l])
              /\ lanes[l][p[i]] = lanes[l][p[j]] /\ i \in 1 .. Len(r) /\ j \in 1 .. Len(r)
            BY <1>1, <1>3, <2>4
        <3>2. p[i] = p[j]
            BY <3>1 DEF OnePlace
        <3> QED BY <1>3, <2>4, <3>1, <3>2
    <2> QED BY <2>1, <2>2, <2>3, <2>4
<1>6. Queued' = Queued - 1
    <2>0. PICK n \in Int : n = 0 - 1
        OBVIOUS
    <2>1. Len(lanes'[l]) = Len(lanes[l]) + n
        BY <1>0, <1>1, <2>0
    <2>2. Queued' = Queued + n /\ Queued \in Nat
        BY <1>0, <1>1, <2>1, LaneGrows
    <2> QED BY <2>0, <2>2
<1>7. ASSUME NEW t \in Task, NEW m \in Lane, t \in ToSet(lanes'[m])
      PROVE  t # lanes[l][at] /\ t \in ToSet(lanes[m])
    <2>1. PICK i \in 1 .. Len(lanes'[m]) : lanes'[m][i] = t
        BY <1>1, <1>7, InLane
    <2>2. CASE m = l
        <3>1. p[i] \in 1 .. Len(lanes[l]) /\ p[i] # at /\ lanes[l][p[i]] = t
            BY <1>1, <1>3, <2>1, <2>2
        <3>2. t # lanes[l][at]
            BY <3>1 DEF OnePlace
        <3> QED BY <1>0, <2>2, <3>1, <3>2, InLane
    <2>3. CASE m # l
        <3>1. lanes[m][i] = t /\ i \in 1 .. Len(lanes[m])
            BY <1>1, <2>1, <2>3
        <3>2. t # lanes[l][at]
            BY <2>3, <3>1 DEF OnePlace
        <3> QED BY <1>0, <3>1, <3>2, InLane
    <2> QED BY <2>2, <2>3
<1>8. ASSUME NEW t \in Task, t # lanes[l][at], NEW m \in Lane, t \in ToSet(lanes[m])
      PROVE  t \in ToSet(lanes'[m])
    <2>1. PICK k \in 1 .. Len(lanes[m]) : lanes[m][k] = t
        BY <1>0, <1>8, InLane
    <2>2. CASE m = l
        <3>1. PICK i \in 1 .. Len(r) : p[i] = k
            BY <1>4, <1>8, <2>1, <2>2
        <3>2. r[i] = t
            BY <1>3, <2>1, <2>2, <3>1
        <3> QED BY <1>1, <2>2, <3>2, InLane
    <2>3. CASE m # l
        BY <1>1, <1>8, <2>3
    <2> QED BY <2>2, <2>3
<1> QED BY <1>1, <1>5, <1>6, <1>7, <1>8

\* The rendering tasks when one starts, and when one ends.
LEMMA Starts ==
    ASSUME SemInv, NEW t \in Task, state[t] # "running", state' = [state EXCEPT ![t] = "running"]
    PROVE  /\ Rendering' = Rendering \cup {t} /\ IsFiniteSet(Rendering')
           /\ Cardinality(Rendering') = active + 1
<1>1. Rendering' = Rendering \cup {t} /\ t \notin Rendering
    BY DEF Rendering, SemInv, SemTypeOK
<1> QED BY <1>1, FS_AddElement DEF SemInv, SlotsBalance

\* Every step keeps the invariant.
LEMMA SemStep == SemInv /\ [SemNext]_semVars => SemInv'
<1> SUFFICES ASSUME SemInv, [SemNext]_semVars PROVE SemInv'
    OBVIOUS
<1>0. /\ SemTypeOK /\ OnePlace /\ IsFiniteSet(Rendering) /\ SlotsBalance
      /\ active \in Nat /\ lanes \in [Lane -> Seq(Task)] /\ Limit \in Nat
      /\ active = Cardinality(Rendering) /\ active <= Limit
      /\ (Queued > 0 => active = Limit)
      /\ \A t \in Task : state[t] = "waiting" <=> \E l \in Lane : t \in ToSet(lanes[l])
    BY SemaphoreAssumption DEF SemInv, SemTypeOK, SlotsBalance
<1>s. state \in [Task -> {"new", "waiting", "running", "done", "full", "timeout", "aborted"}]
    BY DEF SemInv, SemTypeOK
<1>q. Queued \in Nat
    BY <1>0 DEF Queued, Lane
<1>1. ASSUME NEW t \in Task, Enter(t) PROVE SemInv'
    <2>1. /\ state' = [state EXCEPT ![t] = "running"] /\ active' = active + 1 /\ lanes' = lanes
          /\ state[t] = "new" /\ active < Limit /\ Queued = 0
        BY <1>1 DEF Enter, FreeSlot
    <2>2. IsFiniteSet(Rendering') /\ Cardinality(Rendering') = active'
        BY <2>1, Starts
    <2>3. SemTypeOK' /\ OnePlace' /\ Queued' = 0
        <3>1. SemTypeOK'
            BY <1>0, <1>s, <2>1 DEF SemTypeOK
        <3>2. OnePlace'
            BY <1>0, <2>1 DEF OnePlace
        <3>3. Queued' = 0
            BY <2>1 DEF Queued
        <3> QED BY <3>1, <3>2, <3>3
    <2>4. \A u \in Task : state'[u] = "waiting" <=> \E l \in Lane : u \in ToSet(lanes'[l])
        BY <1>0, <1>s, <2>1
    <2>5. active' <= Limit
        BY <1>0, <2>1
    <2> QED BY <2>2, <2>3, <2>4, <2>5 DEF SemInv, SlotsBalance
<1>2. ASSUME NEW t \in Task, NEW why \in {"full", "aborted"}, state[t] = "new",
             state' = [state EXCEPT ![t] = why], UNCHANGED <<active, lanes>>
      PROVE  SemInv'
    <2>1. Rendering' = Rendering
        BY <1>2, <1>s DEF Rendering
    <2>2. SemTypeOK' /\ OnePlace' /\ Queued' = Queued
        BY <1>0, <1>s, <1>2 DEF SemTypeOK, OnePlace, Queued
    <2>3. \A u \in Task : state'[u] = "waiting" <=> \E l \in Lane : u \in ToSet(lanes'[l])
        BY <1>0, <1>s, <1>2
    <2> QED BY <1>0, <1>2, <2>1, <2>2, <2>3 DEF SemInv, SlotsBalance
<1>3. ASSUME NEW t \in Task, AbortedEarly(t) PROVE SemInv'
    BY <1>2, <1>3 DEF AbortedEarly
<1>4. ASSUME NEW t \in Task, NEW l \in Lane, Refuse(t, l) PROVE SemInv'
    BY <1>2, <1>4 DEF Refuse
<1>5. ASSUME NEW t \in Task, NEW l \in Lane, Wait(t, l) PROVE SemInv'
    <2>1. /\ lanes' = [lanes EXCEPT ![l] = Append(lanes[l], t)] /\ active' = active
          /\ state' = [state EXCEPT ![t] = "waiting"] /\ state[t] = "new" /\ ~FreeSlot
        BY <1>0, <1>5 DEF Wait
    <2>2. PICK r : r = Append(lanes[l], t)
        OBVIOUS
    <2>3. /\ r \in Seq(Task) /\ Len(r) = Len(lanes[l]) + 1 /\ Len(lanes[l]) \in Nat
          /\ \A i \in 1 .. Len(lanes[l]) : r[i] = lanes[l][i]
          /\ r[Len(lanes[l]) + 1] = t
        BY <1>0, <2>2
    <2>4. /\ lanes' \in [Lane -> Seq(Task)] /\ lanes'[l] = r
          /\ \A m \in Lane : m # l => lanes'[m] = lanes[m]
        BY <1>0, <2>1, <2>2, <2>3
    <2>5. \A m \in Lane : \A i \in 1 .. Len(lanes[m]) : lanes[m][i] # t
        BY <1>0, <2>1, InLane
    <2>6. \A m \in Lane : \A i \in 1 .. Len(lanes'[m]) :
              \/ i \in 1 .. Len(lanes[m]) /\ lanes'[m][i] = lanes[m][i]
              \/ m = l /\ i = Len(lanes[l]) + 1 /\ lanes'[m][i] = t
        <3> TAKE m \in Lane
        <3> TAKE i \in 1 .. Len(lanes'[m])
        <3>1. CASE m # l
            BY <2>4, <3>1
        <3>2. CASE m = l
            <4>1. i \in 1 .. Len(lanes[l]) \/ i = Len(lanes[l]) + 1
                BY <2>3, <2>4, <3>2
            <4> QED BY <2>3, <2>4, <3>2, <4>1
        <3> QED BY <3>1, <3>2
    <2>7. OnePlace'
        <3> SUFFICES ASSUME NEW m \in Lane, NEW n \in Lane, NEW i \in 1 .. Len(lanes'[m]),
                            NEW j \in 1 .. Len(lanes'[n]), lanes'[m][i] = lanes'[n][j]
                     PROVE  m = n /\ i = j
            BY DEF OnePlace
        <3>1. CASE lanes'[m][i] = t
            <4>1. m = l /\ i = Len(lanes[l]) + 1
                BY <2>5, <2>6, <3>1
            <4>2. n = l /\ j = Len(lanes[l]) + 1
                BY <2>5, <2>6, <3>1
            <4> QED BY <4>1, <4>2
        <3>2. CASE lanes'[m][i] # t
            <4>1. /\ i \in 1 .. Len(lanes[m]) /\ lanes'[m][i] = lanes[m][i]
                  /\ j \in 1 .. Len(lanes[n]) /\ lanes'[n][j] = lanes[n][j]
                BY <2>6, <3>2
            <4>2. lanes[m][i] = lanes[n][j]
                BY <4>1
            <4>3. OnePlace
                BY <1>0
            <4> QED BY <4>1, <4>2, <4>3 DEF OnePlace
        <3> QED BY <3>1, <3>2
    <2>8. Queued' = Queued + 1
        BY <1>0, <2>3, <2>4, LaneGrows
    <2>9. active = Limit
        BY <1>0, <1>q, <2>1 DEF FreeSlot
    <2>10. \A u \in Task : (\E m \in Lane : u \in ToSet(lanes'[m])) <=>
                              u = t \/ \E m \in Lane : u \in ToSet(lanes[m])
        <3>1. ASSUME NEW u \in Task, NEW m \in Lane, u \in ToSet(lanes'[m])
              PROVE  u = t \/ u \in ToSet(lanes[m])
            <4>1. PICK i \in 1 .. Len(lanes'[m]) : lanes'[m][i] = u
                BY <2>4, <3>1, InLane
            <4> QED BY <1>0, <2>6, <4>1, InLane
        <3>2. ASSUME NEW u \in Task, NEW m \in Lane, u \in ToSet(lanes[m])
              PROVE  u \in ToSet(lanes'[m])
            <4>1. PICK i \in 1 .. Len(lanes[m]) : lanes[m][i] = u
                BY <1>0, <3>2, InLane
            <4>2. i \in 1 .. Len(lanes'[m]) /\ lanes'[m][i] = u
                <5>1. CASE m = l
                    BY <2>3, <2>4, <4>1, <5>1
                <5>2. CASE m # l
                    BY <2>4, <4>1, <5>2
                <5> QED BY <5>1, <5>2
            <4> QED BY <2>4, <4>2, InLane
        <3>3. t \in ToSet(lanes'[l])
            <4>1. Len(lanes[l]) + 1 \in 1 .. Len(r)
                BY <2>3
            <4> QED BY <2>3, <2>4, <4>1, InLane
        <3> QED BY <3>1, <3>2, <3>3
    <2>11. \A u \in Task : state'[u] = "waiting" <=> \E m \in Lane : u \in ToSet(lanes'[m])
        BY <1>0, <1>s, <2>1, <2>10
    <2>12. Rendering' = Rendering
        BY <1>s, <2>1 DEF Rendering
    <2>13. SemTypeOK'
        BY <1>0, <1>s, <2>1, <2>4 DEF SemTypeOK
    <2> QED BY <1>0, <2>1, <2>7, <2>9, <2>11, <2>12, <2>13 DEF SemInv, SlotsBalance
<1>6. ASSUME NEW t \in Task, NEW why \in {"timeout", "aborted"}, Cancel(t, why) PROVE SemInv'
    <2>1. /\ state[t] = "waiting" /\ state' = [state EXCEPT ![t] = why] /\ active' = active
        BY <1>6 DEF Cancel
    <2>2. PICK l \in Lane : \E at \in 1 .. Len(lanes[l]) :
             lanes[l][at] = t /\ lanes' = [lanes EXCEPT ![l] = RemoveAt(lanes[l], at)]
        BY <1>0, <1>6 DEF Cancel
    <2>3. PICK at \in 1 .. Len(lanes[l]) :
             lanes[l][at] = t /\ lanes' = [lanes EXCEPT ![l] = RemoveAt(lanes[l], at)]
        BY <2>2
    <2>4. PICK r : r = RemoveAt(lanes[l], at) /\ Without(lanes[l], at, r)
        BY <1>0, Spliced DEF Without
    <2>w. lanes' = [lanes EXCEPT ![l] = r] /\ lanes[l][at] = t
        BY <2>3, <2>4
    <2>5. /\ lanes' \in [Lane -> Seq(Task)] /\ OnePlace' /\ Queued' = Queued - 1
          /\ \A u \in Task : (\E m \in Lane : u \in ToSet(lanes'[m])) <=>
                               u # t /\ \E m \in Lane : u \in ToSet(lanes[m])
        <3>1. /\ lanes' \in [Lane -> Seq(Task)] /\ OnePlace' /\ Queued' = Queued - 1
              /\ \A u \in Task : (\E m \in Lane : u \in ToSet(lanes'[m])) <=>
                                   u # lanes[l][at] /\ \E m \in Lane : u \in ToSet(lanes[m])
            BY <1>0, <2>4, <2>w, Leaves
        <3> QED BY <2>w, <3>1
    <2>6. \A u \in Task : state'[u] = "waiting" <=> \E m \in Lane : u \in ToSet(lanes'[m])
        BY <1>0, <1>s, <2>1, <2>5
    <2>7. Rendering' = Rendering
        BY <1>s, <2>1 DEF Rendering
    <2>8. SemTypeOK'
        BY <1>0, <1>s, <2>1, <2>5 DEF SemTypeOK
    <2>9. Queued' > 0 => active' = Limit
        BY <1>0, <1>q, <2>1, <2>5
    <2> QED BY <1>0, <2>1, <2>5, <2>6, <2>7, <2>8, <2>9 DEF SemInv, SlotsBalance
<1>7. ASSUME NEW t \in Task, Settle(t) PROVE SemInv'
    <2>0. state[t] = "running"
        BY <1>7 DEF Settle
    <2>r. IsFiniteSet(Rendering \ {t}) /\ Cardinality(Rendering \ {t}) = active - 1 /\ t \in Rendering
        <3>1. t \in Rendering
            BY <2>0 DEF Rendering
        <3> QED BY <1>0, <3>1, FS_RemoveElement
    <2>1. CASE NextLane = {}
        <3>1. active' = active - 1 /\ state' = [state EXCEPT ![t] = "done"] /\ lanes' = lanes
            BY <1>7, <2>1 DEF Settle
        <3>2. lanes["issue"] = <<>> /\ lanes["export"] = <<>>
            BY <2>1 DEF NextLane
        <3>3. Queued = 0 /\ Queued' = 0
            BY <3>1, <3>2 DEF Queued
        <3>4. Rendering' = Rendering \ {t}
            BY <1>s, <3>1 DEF Rendering
        <3>5. active - 1 \in Nat
            BY <2>r, FS_CardinalityType
        <3>6. SemTypeOK' /\ OnePlace'
            BY <1>0, <1>s, <3>1, <3>5 DEF SemTypeOK, OnePlace
        <3>7. \A u \in Task : state'[u] = "waiting" <=> \E m \in Lane : u \in ToSet(lanes'[m])
            BY <1>0, <1>s, <2>0, <3>1
        <3>8. active' <= Limit /\ ~(Queued' > 0)
            BY <1>0, <3>1, <3>3
        <3>9. IsFiniteSet(Rendering') /\ active' = Cardinality(Rendering')
            BY <2>r, <3>1, <3>4
        <3> QED BY <3>6, <3>7, <3>8, <3>9 DEF SemInv, SlotsBalance
    <2>2. CASE NextLane # {}
        <3>1. PICK l \in NextLane :
                /\ lanes' = [lanes EXCEPT ![l] = Tail(lanes[l])]
                /\ state' = [state EXCEPT ![t] = "done", ![Head(lanes[l])] = "running"]
                /\ active' = active
            BY <1>0, <1>7, <2>2 DEF Settle, NextLane, Lane
        <3>2. l \in Lane /\ lanes[l] # <<>>
            BY DEF NextLane, Lane
        <3>r. PICK r : r = Tail(lanes[l])
            OBVIOUS
        <3>3. /\ Without(lanes[l], 1, r) /\ 1 \in 1 .. Len(lanes[l])
              /\ Head(lanes[l]) = lanes[l][1]
            BY <1>0, <3>2, <3>r, Shifted DEF Without
        <3>4. PICK h \in Task : h = lanes[l][1]
            BY <1>0, <3>2, <3>3
        <3>5. /\ lanes' \in [Lane -> Seq(Task)] /\ OnePlace' /\ Queued' = Queued - 1
              /\ \A u \in Task : (\E m \in Lane : u \in ToSet(lanes'[m])) <=>
                                   u # h /\ \E m \in Lane : u \in ToSet(lanes[m])
            <4>1. lanes' = [lanes EXCEPT ![l] = r]
                BY <3>1, <3>r
            <4>2. /\ lanes' \in [Lane -> Seq(Task)] /\ OnePlace' /\ Queued' = Queued - 1
                  /\ \A u \in Task : (\E m \in Lane : u \in ToSet(lanes'[m])) <=>
                                       u # lanes[l][1] /\ \E m \in Lane : u \in ToSet(lanes[m])
                BY <1>0, <3>2, <3>3, <4>1, Leaves
            <4> QED BY <3>4, <4>2
        <3>6. state[h] = "waiting"
            BY <1>0, <3>2, <3>3, <3>4, InLane
        <3>7. state' = [state EXCEPT ![t] = "done", ![h] = "running"] /\ h # t
            BY <2>0, <3>1, <3>3, <3>4, <3>6
        <3>8. \A u \in Task : state'[u] = "waiting" <=> \E m \in Lane : u \in ToSet(lanes'[m])
            BY <1>0, <1>s, <2>0, <3>5, <3>6, <3>7
        <3>9. Rendering' = (Rendering \ {t}) \cup {h} /\ h \notin Rendering \ {t}
            BY <1>s, <3>6, <3>7 DEF Rendering
        <3>10. IsFiniteSet(Rendering') /\ Cardinality(Rendering') = Cardinality(Rendering \ {t}) + 1
            BY <2>r, <3>9, FS_AddElement
        <3>11. Cardinality(Rendering') = active'
            BY <1>0, <2>r, <3>1, <3>10
        <3>12. SemTypeOK'
            BY <1>0, <1>s, <3>1, <3>5, <3>7 DEF SemTypeOK
        <3>13. Queued' > 0 => active' = Limit
            BY <1>0, <1>q, <3>1, <3>5
        <3> QED BY <1>0, <3>1, <3>5, <3>8, <3>10, <3>11, <3>12, <3>13 DEF SemInv, SlotsBalance
    <2> QED BY <2>1, <2>2
<1>8. CASE UNCHANGED semVars
    <2>1. UNCHANGED <<active, lanes, state>>
        BY <1>8 DEF semVars
    <2>2. SemTypeOK' /\ OnePlace'
        BY <1>0, <2>1 DEF SemTypeOK, OnePlace
    <2>3. Rendering' = Rendering /\ Queued' = Queued
        BY <2>1 DEF Rendering, Queued
    <2>4. SlotsBalance'
        BY <1>0, <2>1, <2>3 DEF SlotsBalance
    <2> QED BY <1>0, <2>2, <2>3, <2>4 DEF SemInv
<1> QED BY <1>1, <1>3, <1>4, <1>5, <1>6, <1>7, <1>8 DEF SemNext, TimeOut, Abort

\* The render limiter's slots balance (lib/semaphore.ts), for any callers,
\* limit and lane length: active counts the running tasks and stays within
\* the limit, the lanes hold exactly the waiters, and nobody waits beside a
\* free slot.
THEOREM SlotsAlwaysBalance == SemSpec => []SlotsBalance
<1>1. SemInit => SemInv
    <2> SUFFICES ASSUME SemInit PROVE SemInv
        OBVIOUS
    <2>1. /\ active = 0 /\ state \in [Task -> {"new"}] /\ lanes \in [Lane -> Seq(Task)]
          /\ \A l \in Lane : lanes[l] = <<>> /\ Len(lanes[l]) = 0
        BY DEF SemInit
    <2>2. SemTypeOK /\ OnePlace
        BY <2>1 DEF SemInit, SemTypeOK, OnePlace
    <2>3. Rendering = {} /\ Queued = 0
        BY <2>1 DEF Rendering, Queued, Lane
    <2>4. IsFiniteSet(Rendering) /\ active = Cardinality(Rendering)
        BY <2>1, <2>3, FS_EmptySet
    <2>5. \A t \in Task : state[t] # "waiting" /\ \A l \in Lane : t \notin ToSet(lanes[l])
        BY <2>1, InLane
    <2>6. active <= Limit /\ ~(Queued > 0)
        BY <2>1, <2>3, SemaphoreAssumption
    <2> QED BY <2>2, <2>4, <2>5, <2>6 DEF SemInv, SlotsBalance
<1>2. SemInv => SlotsBalance
    BY DEF SemInv
<1> QED BY <1>1, <1>2, SemStep, PTL DEF SemSpec

-----------------------------------------------------------------------------
(***************************************************************************)
(* However many issuances race, the issuance log only points back, and     *)
(* only a race leaves a pair unlinked.                                     *)
(***************************************************************************)

\* Each action keeps the invariant.
LEMMA LogStep ==
    ASSUME LogInv, [LogNext]_logVars
    PROVE  LogInv'
<1> USE IssuanceAssumption DEF LogInv, Prev, Appending
<1>1. ASSUME NEW c \in Code, Persist(c) \/ AppendFails(c) PROVE LogInv'
    <2>1. PICK n \in {"read", "refused", "done"} :
             /\ pc' = [pc EXCEPT ![c] = n] /\ pc[c] \notin {"done", "refused"}
             /\ UNCHANGED <<tip, index, log, nextIndex, raced>>
        BY <1>1 DEF Persist, AppendFails
    <2>2. LogTypeOK'
        BY <2>1 DEF LogTypeOK
    <2>3. IndexesDrawnOnce' /\ TipsAreOlder'
        BY <2>1 DEF LogTypeOK, IndexesDrawnOnce, TipsAreOlder, Drawn
    <2>4. PointsBack'
        BY <2>1 DEF PointsBack
    <2> QED BY <2>2, <2>3, <2>4
<1>2. ASSUME NEW c \in Code, ReadTip(c) PROVE LogInv'
    <2>1. PICK t \in Prev : IsTip(t) /\ tip' = [tip EXCEPT ![c] = t]
        BY <1>2 DEF ReadTip
    <2>2. t # Genesis => t \in log
        BY <2>1 DEF IsTip
    <2>3. LogTypeOK'
        BY <1>2, <2>1 DEF ReadTip, LogTypeOK
    <2>4. c \notin log /\ c \notin Drawn /\ Drawn' = Drawn
        BY <1>2 DEF ReadTip, LogTypeOK, IndexesDrawnOnce, Drawn
    <2>5. IndexesDrawnOnce'
        BY <1>2, <2>4 DEF ReadTip, LogTypeOK, IndexesDrawnOnce
    <2>6. TipsAreOlder'
        BY <1>2, <2>1, <2>2, <2>4 DEF ReadTip, LogTypeOK, TipsAreOlder
    <2>7. PointsBack'
        BY <1>2, <2>1, <2>4 DEF ReadTip, LogTypeOK, PointsBack
    <2> QED BY <2>3, <2>5, <2>6, <2>7
<1>3. ASSUME NEW c \in Code, Insert(c) PROVE LogInv'
    <2>1. LogTypeOK'
        BY <1>3 DEF Insert, LogTypeOK
    <2>2. c \notin log /\ c \notin Drawn /\ Drawn' = Drawn \cup {c}
        BY <1>3 DEF Insert, LogTypeOK, IndexesDrawnOnce, Drawn
    <2>3. log \subseteq Drawn
        BY DEF Drawn
    <2>4. IndexesDrawnOnce'
        BY <1>3, <2>2 DEF Insert, LogTypeOK, IndexesDrawnOnce, Drawn
    <2>5. TipsAreOlder'
        BY <1>3, <2>2, <2>3 DEF Insert, LogTypeOK, IndexesDrawnOnce, TipsAreOlder
    <2>6. PointsBack'
        BY <1>3, <2>2 DEF Insert, LogTypeOK, PointsBack
    <2> QED BY <2>1, <2>4, <2>5, <2>6
<1>4. ASSUME NEW c \in Code, Commit(c) PROVE LogInv'
    <2>1. LogTypeOK'
        BY <1>4 DEF Commit, LogTypeOK
    <2>2. c \in Drawn /\ Drawn' = Drawn /\ log' = log \cup {c}
        BY <1>4 DEF Commit, LogTypeOK, IndexesDrawnOnce, Drawn
    <2>3. IndexesDrawnOnce'
        BY <1>4, <2>2 DEF Commit, LogTypeOK, IndexesDrawnOnce
    <2>4. TipsAreOlder'
        BY <1>4, <2>2 DEF Commit, LogTypeOK, TipsAreOlder
    <2>5. log \subseteq Drawn
        BY DEF Drawn
    <2>6. PointsBack'
        BY <1>4, <2>2, <2>5 DEF Commit, LogTypeOK, PointsBack, IndexesDrawnOnce, TipsAreOlder
    <2> QED BY <2>1, <2>3, <2>4, <2>6
<1>5. CASE UNCHANGED logVars
    BY <1>5 DEF logVars, LogTypeOK, IndexesDrawnOnce, TipsAreOlder, PointsBack, Drawn
<1> QED BY <1>1, <1>2, <1>3, <1>4, <1>5 DEF LogNext

\* Nothing is drawn or committed at the start.
LEMMA LogStart == LogInit => LogInv
    BY DEF LogInit, LogInv, LogTypeOK, IndexesDrawnOnce, TipsAreOlder, PointsBack, Drawn,
       Prev, Appending

\* Entries of the issuance log have distinct indexes and point at committed
\* entries before them, whatever the number of concurrent issuances and
\* whichever of them fail.
THEOREM LogPointsBack == LogSpec => [](LogTypeOK /\ PointsBack)
<1>1. LogInv /\ [LogNext]_logVars => LogInv'
    BY LogStep
<1>2. LogInv => LogTypeOK /\ PointsBack
    BY DEF LogInv
<1> QED BY <1>1, <1>2, LogStart, PTL DEF LogSpec

\* A pair that is adjacent in the grown log was adjacent before.
LEMMA AdjacentShrinks ==
    ASSUME NEW c, NEW d, log \subseteq log', index' = index, Adjacent(c, d)'
    PROVE  Adjacent(c, d)
    BY DEF Adjacent

\* Each action keeps what an issuance that did not race may rely on.
LEMMA LinkStep == LinkInv /\ [LogNext]_logVars => LinkInv'
<1> SUFFICES ASSUME LinkInv, [LogNext]_logVars PROVE LinkInv'
    OBVIOUS
<1>0. LogInv /\ LogInv' /\ LogTypeOK /\ IndexesDrawnOnce /\ UnracedHoldsTip /\ UnlinkedOnlyByRace
    BY LogStep DEF LinkInv, LogInv
<1>1. ASSUME NEW c \in Code, Persist(c) \/ AppendFails(c) PROVE UnracedHoldsTip' /\ UnlinkedOnlyByRace'
    <2>1. PICK n \in {"read", "refused", "done"} :
             pc' = [pc EXCEPT ![c] = n] /\ UNCHANGED <<tip, index, log, nextIndex, raced>>
        BY <1>1 DEF Persist, AppendFails
    <2>2. \A d \in Code : pc'[d] \in {"insert", "commit"} => pc'[d] = pc[d]
        BY <1>0, <2>1 DEF LogTypeOK
    <2>3. UnracedHoldsTip'
        BY <1>0, <2>1, <2>2 DEF UnracedHoldsTip, IsTip
    <2> QED BY <1>0, <2>1, <2>3 DEF UnlinkedOnlyByRace, Adjacent
<1>2. ASSUME NEW c \in Code, ReadTip(c) PROVE UnracedHoldsTip' /\ UnlinkedOnlyByRace'
    <2>1. PICK t \in Prev : IsTip(t) /\ tip' = [tip EXCEPT ![c] = t]
        BY <1>2 DEF ReadTip
    <2>2. /\ pc' = [pc EXCEPT ![c] = "insert"] /\ UNCHANGED <<index, log, nextIndex>>
          /\ raced \subseteq raced' /\ pc[c] = "read"
        BY <1>2 DEF ReadTip
    <2>3. c \notin log
        BY <1>0, <2>2 DEF IndexesDrawnOnce
    <2>4. UnlinkedOnlyByRace'
        BY <1>0, <2>1, <2>2, <2>3 DEF UnlinkedOnlyByRace, Adjacent, LogTypeOK
    <2>5. CASE \E d \in Code : pc[d] \in {"insert", "commit"}
        <3>1. \A d \in Code : pc'[d] \in {"insert", "commit"} => d \in raced'
            BY <1>0, <1>2, <2>2, <2>5 DEF ReadTip, LogTypeOK
        <3> QED BY <2>4, <3>1 DEF UnracedHoldsTip
    <2>6. CASE ~\E d \in Code : pc[d] \in {"insert", "commit"}
        <3>1. \A d \in Code : pc'[d] \in {"insert", "commit"} => d = c /\ pc'[c] = "insert" /\ tip'[c] = t
            BY <1>0, <2>1, <2>2, <2>6 DEF LogTypeOK
        <3>2. IsTip(t)'
            BY <2>1, <2>2 DEF IsTip
        <3> QED BY <2>4, <3>1, <3>2 DEF UnracedHoldsTip, IsTip
    <2> QED BY <2>5, <2>6
<1>3. ASSUME NEW c \in Code, Insert(c) PROVE UnracedHoldsTip' /\ UnlinkedOnlyByRace'
    <2>1. c \notin log /\ log \subseteq Drawn /\ log \subseteq Code
        BY <1>0, <1>3 DEF Insert, IndexesDrawnOnce, Drawn, LogTypeOK
    <2>2. /\ \A d \in log : index'[d] = index[d] /\ index[d] < index'[c]
          /\ pc[c] = "insert" /\ pc' = [pc EXCEPT ![c] = "commit"]
          /\ UNCHANGED <<tip, log, raced>>
        BY <1>0, <1>3, <2>1 DEF Insert, IndexesDrawnOnce, LogTypeOK
    <2>3. UnlinkedOnlyByRace'
        BY <1>0, <2>1, <2>2 DEF UnlinkedOnlyByRace, Adjacent
    <2>4. \A t : IsTip(t) => IsTip(t)'
        BY <2>2 DEF IsTip
    <2>5. \A d \in Code : pc'[d] \in {"insert", "commit"} <=> pc[d] \in {"insert", "commit"}
        BY <1>0, <2>2 DEF LogTypeOK
    <2>6. ASSUME NEW x \in Code, pc'[x] \in {"insert", "commit"}, x \notin raced'
          PROVE  /\ \A d \in Code \ {x} : pc'[d] \notin {"insert", "commit"}
                 /\ IsTip(tip[x])'
                 /\ pc'[x] = "commit" => \A d \in log' : index'[d] < index'[x]
        <3>1. x = c
            BY <1>0, <2>2, <2>5, <2>6 DEF UnracedHoldsTip
        <3>2. IsTip(tip[x]) /\ tip'[x] = tip[x]
            BY <1>0, <2>2, <2>5, <2>6 DEF UnracedHoldsTip
        <3>3. IsTip(tip[x])'
            BY <2>2, <3>2 DEF IsTip
        <3> QED BY <1>0, <2>2, <2>5, <2>6, <3>1, <3>3 DEF UnracedHoldsTip
    <2> QED BY <2>3, <2>6 DEF UnracedHoldsTip
<1>4. ASSUME NEW c \in Code, Commit(c) PROVE UnracedHoldsTip' /\ UnlinkedOnlyByRace'
    <2>1. /\ pc[c] = "commit" /\ pc' = [pc EXCEPT ![c] = "done"] /\ log' = log \cup {c}
          /\ UNCHANGED <<tip, index, nextIndex, raced>>
        BY <1>4 DEF Commit
    <2>2. \A d \in Code : pc'[d] \in {"insert", "commit"} => d # c /\ pc'[d] = pc[d]
        BY <1>0, <2>1 DEF LogTypeOK
    <2>3. UnracedHoldsTip'
        BY <1>0, <2>1, <2>2 DEF UnracedHoldsTip
    <2>4. ASSUME NEW a \in log', NEW b \in log', Adjacent(a, b)', tip'[b] # a, b \notin raced, a \notin raced
          PROVE  FALSE
        <3>1. Adjacent(a, b) /\ index[a] < index[b] /\ tip[b] # a
            BY <2>1, <2>4, AdjacentShrinks DEF Adjacent
        <3>2. a # b /\ log \subseteq Code /\ index \in [Code -> Nat] /\ a \in Code /\ b \in Code
            BY <1>0, <2>1, <3>1 DEF LogTypeOK
        <3>3. CASE a # c /\ b # c
            BY <1>0, <2>1, <2>4, <3>1, <3>3 DEF UnlinkedOnlyByRace
        <3>4. CASE a = c
            <4>1. index[b] < index[a]
                BY <1>0, <2>1, <2>4, <3>2, <3>4 DEF UnracedHoldsTip
            <4> QED BY <3>1, <3>2, <4>1
        <3>5. CASE b = c
            <4>1. IsTip(tip[b]) /\ \A e \in log : index[e] < index[b]
                BY <1>0, <2>1, <2>4, <3>5 DEF UnracedHoldsTip
            <4>2. a \in log /\ tip[b] \in log /\ index[a] <= index[tip[b]]
                BY <2>1, <2>4, <3>2, <3>5, <4>1 DEF IsTip
            <4>3. index[a] # index[tip[b]]
                BY <1>0, <3>1, <4>2 DEF IndexesDrawnOnce, Drawn
            <4> QED BY <3>1, <3>2, <4>1, <4>2, <4>3 DEF Adjacent
        <3> QED BY <3>3, <3>4, <3>5
    <2>5. UnlinkedOnlyByRace'
        BY <2>1, <2>4 DEF UnlinkedOnlyByRace
    <2> QED BY <2>3, <2>5
<1>5. CASE UNCHANGED logVars
    BY <1>0, <1>5 DEF logVars, LinkInv, UnracedHoldsTip, UnlinkedOnlyByRace, Adjacent, IsTip
<1> QED BY <1>0, <1>1, <1>2, <1>3, <1>4, <1>5 DEF LogNext, LinkInv

\* For any number of concurrent issuances: two neighbours of the log that are
\* not linked are there because one of them overlapped another append.
THEOREM LogLinked == LogSpec => []UnlinkedOnlyByRace
<1>1. LogInit => LinkInv
    BY LogStart DEF LogInit, LinkInv, UnracedHoldsTip, UnlinkedOnlyByRace
<1>2. LinkInv => UnlinkedOnlyByRace
    BY DEF LinkInv
<1> QED BY <1>1, <1>2, LinkStep, PTL DEF LogSpec

-----------------------------------------------------------------------------
(***************************************************************************)
(* Bulk imports and exports, for any number of jobs, starters, workers     *)
(* and rows.                                                               *)
(***************************************************************************)

\* Numbers of jobs are no absent ones.
LEMMA JobNumbers == NoJob \notin Job /\ Job \subseteq Nat
    BY BulkAssumption DEF Job

\* Parts of the type invariant, as the steps need them.
LEMMA BulkTypes ==
    ASSUME BulkInv
    PROVE  /\ kind \in {"IMPORT", "EXPORT"}
           /\ dryRun \in BOOLEAN
           /\ starter \in [Starter -> StarterCall]
           /\ bulkQueue \in SUBSET Job
           /\ bulkJob \in [Job -> BulkJobRow]
           /\ worker \in [BulkWorker -> WorkerRun]
           /\ sweep \in SweepRun
           /\ issued \in [Job -> [BulkRow -> 0..2]]
    BY DEF BulkInv, BulkTypeOK

\* A step that issues nothing keeps the invariant when it changes the row of
\* one job only, takes no job back into the queue, makes nobody an owner, and
\* leaves whole what is or will be SUCCEEDED.
LEMMA JobFollows ==
    ASSUME BulkInv, BulkTypeOK', NamesJob', kind' = kind, issued' = issued, NEW j \in Job,
           \A i \in Job : i # j => bulkJob'[i] = bulkJob[i],
           bulkJob'[j].st \in {"none", "QUEUED"} => bulkJob[j].st \in {"none", "QUEUED"},
           bulkJob'[j].st = "SUCCEEDED" => Whole(j)',
           \A w \in BulkWorker : Owns(w)' => Owns(w) /\ worker'[w].j = worker[w].j,
           \A w \in BulkWorker :
               Owns(w)' /\ worker'[w].j = j => bulkJob'[j].st \in {"RUNNING", "FAILED", "deleted"},
           \A w \in BulkWorker : worker'[w].pc \in {"check", "work"} =>
               worker[w].pc \in {"check", "work"} /\ worker'[w].done = worker[w].done,
           \A w \in BulkWorker :
               worker'[w].pc = "finish" /\ bulkJob'[worker'[w].j].st # "deleted" =>
                   \/ Whole(worker[w].j)'
                   \/ worker'[w].j # j /\ worker[w].pc = "finish",
           \A i \in sweep'.ids : bulkJob'[i].swept
    PROVE  BulkInv'
<1>1. NamesJob /\ OneOwner /\ IssuedIsDone /\ RecordedIsWhole /\ IssuedAtMostOnce /\ SucceededIsWhole
    BY DEF BulkInv
<1>2. \A w \in BulkWorker : Owns(w)' => worker'[w].j \in Job
    BY DEF NamesJob, Owns
<1>3. OneOwner'
    <2>1. \A w \in BulkWorker :
             Owns(w)' => bulkJob'[worker'[w].j].st \in {"RUNNING", "FAILED", "deleted"}
        BY <1>1, <1>2 DEF OneOwner
    <2>2. \A v, w \in BulkWorker : Owns(v)' /\ Owns(w)' /\ worker'[v].j = worker'[w].j => v = w
        BY <1>1 DEF OneOwner
    <2> QED BY <2>1, <2>2 DEF OneOwner, Owns
<1>4. IssuedIsDone'
    <2>1. \A i \in Job, r \in BulkRow : bulkJob'[i].st \in {"none", "QUEUED"} => issued'[i][r] = 0
        BY <1>1 DEF IssuedIsDone
    <2>2. \A w \in BulkWorker, r \in BulkRow :
             worker'[w].pc \in {"check", "work"} /\ r \notin worker'[w].done =>
                 issued'[worker'[w].j][r] = 0
        BY <1>1 DEF IssuedIsDone, Owns
    <2> QED BY <2>1, <2>2 DEF IssuedIsDone
<1>5. RecordedIsWhole'
    <2>1. ASSUME NEW w \in BulkWorker, worker'[w].pc = "finish",
                 bulkJob'[worker'[w].j].st # "deleted",
                 worker'[w].j # j, worker[w].pc = "finish"
          PROVE  Whole(worker[w].j)'
        <3>1. worker'[w].j = worker[w].j /\ worker'[w].j \in Job
            BY <1>2, <2>1 DEF Owns
        <3>2. bulkJob'[worker'[w].j] = bulkJob[worker[w].j]
            BY <3>1, <2>1
        <3>3. Whole(worker[w].j)
            BY <1>1, <2>1, <3>1, <3>2 DEF RecordedIsWhole
        <3> QED BY <3>1, <3>2, <3>3 DEF Whole
    <2> QED BY <2>1 DEF RecordedIsWhole
<1>6. IssuedAtMostOnce'
    BY <1>1 DEF IssuedAtMostOnce
<1>7. SucceededIsWhole'
    <2> SUFFICES ASSUME NEW i \in Job, bulkJob'[i].st = "SUCCEEDED" PROVE Whole(i)'
        BY DEF SucceededIsWhole
    <2>1. CASE i # j
        BY <1>1, <2>1 DEF SucceededIsWhole, Whole
    <2> QED BY <2>1
<1> QED BY <1>3, <1>4, <1>5, <1>6, <1>7 DEF BulkInv

-----------------------------------------------------------------------------
(* What the helpers of the steps write *)

\* The next state of a request that starts a job.
LEMMA StarterWrites ==
    ASSUME BulkInv, NEW c \in Starter, NEW j \in Job \cup {NoJob},
           NEW to \in {"idle", "create", "enqueue", "unqueued", "drop"},
           StarterGoes(c, to, j), to \in {"enqueue", "unqueued", "drop"} => j \in Job
    PROVE  /\ starter' \in [Starter -> StarterCall]
           /\ \A d \in Starter :
                starter'[d].pc \in {"enqueue", "unqueued", "drop"} => starter'[d].j \in Job
<1>1. [pc |-> to, j |-> j] \in StarterCall
    BY DEF StarterCall
<1>2. PICK r \in StarterCall : r = [pc |-> to, j |-> j] /\ r.pc = to /\ r.j = j
    BY <1>1
<1>3. starter' = [starter EXCEPT ![c] = r]
    BY <1>2 DEF StarterGoes
<1>4. \A d \in Starter : starter'[d] = IF d = c THEN r ELSE starter[d]
    BY <1>3, BulkTypes
<1> QED BY <1>2, <1>3, <1>4, BulkTypes DEF BulkInv, NamesJob

\* The next state of a worker that goes on with its job.
LEMMA WorkerMoves ==
    ASSUME BulkInv, NEW w \in BulkWorker, worker[w].pc # "idle",
           NEW to \in {"claim", "check", "work", "finish", "unlink", "rescue", "fail"},
           WorkerGoes(w, to)
    PROVE  /\ worker' \in [BulkWorker -> WorkerRun]
           /\ worker'[w].pc = to /\ worker'[w].j = worker[w].j /\ worker'[w].done = worker[w].done
           /\ \A v \in BulkWorker : v # w => worker'[v] = worker[v]
           /\ \A v \in BulkWorker : worker'[v].pc # "idle" => worker'[v].j \in Job
<1>1. worker[w] \in WorkerRun /\ worker \in [BulkWorker -> WorkerRun]
    BY BulkTypes
<1>2. PICK x : x = [worker[w] EXCEPT !.pc = to]
    OBVIOUS
<1>3. x \in WorkerRun /\ x.pc = to /\ x.j = worker[w].j /\ x.done = worker[w].done
    BY <1>1, <1>2 DEF WorkerRun
<1>4. worker' = [worker EXCEPT ![w] = x]
    BY <1>1, <1>2 DEF WorkerGoes
<1> QED BY <1>1, <1>3, <1>4 DEF BulkInv, NamesJob

\* A worker that is done is idle.
LEMMA WorkerStops ==
    ASSUME BulkInv, NEW w \in BulkWorker, WorkerEnds(w)
    PROVE  /\ worker' \in [BulkWorker -> WorkerRun]
           /\ worker'[w].pc = "idle"
           /\ \A v \in BulkWorker : v # w => worker'[v] = worker[v]
           /\ \A v \in BulkWorker : worker'[v].pc # "idle" => worker'[v].j \in Job
<1>1. IdleWorker \in WorkerRun /\ IdleWorker.pc = "idle"
    BY DEF IdleWorker, WorkerRun
<1>2. worker' = [worker EXCEPT ![w] = IdleWorker] /\ worker \in [BulkWorker -> WorkerRun]
    BY BulkTypes DEF WorkerEnds
<1> QED BY <1>1, <1>2 DEF BulkInv, NamesJob

\* finishBulkJob changes the status of an active job and nothing else.
LEMMA FinishedRow ==
    ASSUME BulkInv, NEW j \in Job, NEW st \in {"SUCCEEDED", "FAILED"}, bulkJob' = Finished(j, st)
    PROVE  /\ bulkJob' \in [Job -> BulkJobRow]
           /\ \A i \in Job : i # j => bulkJob'[i] = bulkJob[i]
           /\ bulkJob'[j].st = IF bulkJob[j].st \in ActiveStatus THEN st ELSE bulkJob[j].st
           /\ bulkJob'[j].results = bulkJob[j].results
           /\ bulkJob'[j].file = bulkJob[j].file
           /\ bulkJob'[j].swept = bulkJob[j].swept
<1>1. bulkJob \in [Job -> BulkJobRow] /\ bulkJob[j] \in BulkJobRow
    BY BulkTypes
<1>2. PICK b : b = [bulkJob[j] EXCEPT !.st = st]
    OBVIOUS
<1>3. /\ b \in BulkJobRow /\ b.st = st /\ b.results = bulkJob[j].results
      /\ b.file = bulkJob[j].file /\ b.swept = bulkJob[j].swept
    BY <1>1, <1>2 DEF BulkJobRow
<1>4. CASE bulkJob[j].st \in ActiveStatus
    <2>1. bulkJob' = [bulkJob EXCEPT ![j] = b]
        BY <1>1, <1>2, <1>4 DEF Finished
    <2> QED BY <1>1, <1>3, <1>4, <2>1
<1>5. CASE bulkJob[j].st \notin ActiveStatus
    BY <1>1, <1>5 DEF Finished
<1> QED BY <1>4, <1>5

\* A save of the progress changes the results (and updatedAt) only.
LEMMA ProgressedRow ==
    ASSUME BulkInv, NEW w \in BulkWorker, worker[w].j \in Job
    PROVE  LET j == worker[w].j
               rows == Progressed(w)
           IN  /\ rows \in [Job -> BulkJobRow]
               /\ \A i \in Job : i # j => rows[i] = bulkJob[i]
               /\ rows[j].st = bulkJob[j].st
               /\ rows[j].results = worker[w].done
               /\ rows[j].file = bulkJob[j].file
               /\ rows[j].swept = bulkJob[j].swept
<1>0. PICK j \in Job : j = worker[w].j
    OBVIOUS
<1>1. bulkJob \in [Job -> BulkJobRow] /\ bulkJob[j] \in BulkJobRow /\ worker[w].done \subseteq BulkRow
    BY BulkTypes DEF WorkerRun
<1>2. PICK b : b = [bulkJob[j] EXCEPT !.results = worker[w].done, !.stale = FALSE]
    OBVIOUS
<1>3. /\ b \in BulkJobRow /\ b.st = bulkJob[j].st /\ b.results = worker[w].done
      /\ b.file = bulkJob[j].file /\ b.swept = bulkJob[j].swept
    BY <1>1, <1>2 DEF BulkJobRow
<1>4. Progressed(w) = [bulkJob EXCEPT ![j] = b]
    BY <1>0, <1>1, <1>2 DEF Progressed
<1> QED BY <1>0, <1>1, <1>3, <1>4

\* A write of the file changes nothing else.
LEMMA FileRow ==
    ASSUME BulkInv, NEW rows \in [Job -> BulkJobRow], NEW j \in Job,
           NEW f \in {"none", "part", "zip"}, bulkJob' = [rows EXCEPT ![j].file = f]
    PROVE  /\ bulkJob' \in [Job -> BulkJobRow]
           /\ \A i \in Job : i # j => bulkJob'[i] = rows[i]
           /\ bulkJob'[j].file = f
           /\ bulkJob'[j].st = rows[j].st
           /\ bulkJob'[j].results = rows[j].results
           /\ bulkJob'[j].swept = rows[j].swept
<1>1. rows[j] \in BulkJobRow
    OBVIOUS
<1>2. PICK b : b = [rows[j] EXCEPT !.file = f]
    OBVIOUS
<1>3. /\ b \in BulkJobRow /\ b.st = rows[j].st /\ b.results = rows[j].results
      /\ b.file = f /\ b.swept = rows[j].swept
    BY <1>1, <1>2 DEF BulkJobRow
<1>4. bulkJob' = [rows EXCEPT ![j] = b]
    BY <1>2
<1> QED BY <1>3, <1>4

-----------------------------------------------------------------------------
(* The steps *)

\* A row that a step rewrites while every worker stands still keeps the
\* invariant when the step neither requeues it nor makes it SUCCEEDED.
LEMMA RowStep ==
    ASSUME BulkInv, NEW j \in Job, bulkJob' \in [Job -> BulkJobRow],
           \A i \in Job : i # j => bulkJob'[i] = bulkJob[i],
           starter' \in [Starter -> StarterCall],
           \A c \in Starter : starter'[c].pc \in {"enqueue", "unqueued", "drop"} => starter'[c].j \in Job,
           sweep' \in SweepRun, \A i \in sweep'.ids : bulkJob'[i].swept,
           UNCHANGED <<kind, dryRun, bulkQueue, worker, issued>>,
           bulkJob'[j].st \in {"none", "QUEUED"} => bulkJob[j].st \in {"none", "QUEUED"},
           bulkJob'[j].st = "SUCCEEDED" => Whole(j)',
           bulkJob[j].st \in {"RUNNING", "FAILED", "deleted"} =>
               bulkJob'[j].st \in {"RUNNING", "FAILED", "deleted"},
           \A w \in BulkWorker :
               worker[w].pc = "finish" /\ worker[w].j = j /\ bulkJob'[j].st # "deleted" => Whole(j)'
    PROVE  BulkInv'
<1>1. BulkTypeOK'
    BY BulkTypes DEF BulkTypeOK
<1>2. NamesJob'
    BY DEF BulkInv, NamesJob
<1>3. \A w \in BulkWorker : Owns(w)' => Owns(w) /\ worker'[w].j = worker[w].j
    BY DEF Owns
<1>4. \A w \in BulkWorker :
         Owns(w)' /\ worker'[w].j = j => bulkJob'[j].st \in {"RUNNING", "FAILED", "deleted"}
    BY <1>3 DEF BulkInv, OneOwner
<1>5. ASSUME NEW w \in BulkWorker, worker'[w].pc = "finish", bulkJob'[worker'[w].j].st # "deleted"
      PROVE  \/ Whole(worker[w].j)'
             \/ worker'[w].j # j /\ worker[w].pc = "finish"
    <2>1. CASE worker[w].j = j
        <3>1. Whole(j)'
            BY <1>5, <2>1
        <3> QED BY <2>1, <3>1 DEF Whole
    <2> QED BY <1>5, <2>1
<1> QED BY <1>1, <1>2, <1>3, <1>4, <1>5, JobFollows

\* finishBulkJob by somebody who is not the owner fails the job, or does
\* nothing.
LEMMA FinishStep ==
    ASSUME BulkInv, NEW j \in Job, bulkJob' = Finished(j, "FAILED"),
           starter' \in [Starter -> StarterCall],
           \A c \in Starter : starter'[c].pc \in {"enqueue", "unqueued", "drop"} => starter'[c].j \in Job,
           \/ sweep' = sweep
           \/ sweep' = IdleSweep,
           UNCHANGED <<kind, dryRun, bulkQueue, worker, issued>>
    PROVE  BulkInv'
<1>1. /\ bulkJob' \in [Job -> BulkJobRow]
      /\ \A i \in Job : i # j => bulkJob'[i] = bulkJob[i]
      /\ bulkJob'[j].st = IF bulkJob[j].st \in ActiveStatus THEN "FAILED" ELSE bulkJob[j].st
      /\ bulkJob'[j].results = bulkJob[j].results
      /\ bulkJob'[j].file = bulkJob[j].file
      /\ bulkJob'[j].swept = bulkJob[j].swept
    BY FinishedRow
<1>2. Whole(j)' = Whole(j)
    BY <1>1 DEF Whole
<1>3. sweep' \in SweepRun /\ (\A i \in sweep'.ids : bulkJob'[i].swept)
    BY <1>1, BulkTypes DEF BulkInv, RecordedIsWhole, SweepRun, IdleSweep
<1>4. bulkJob'[j].st = "SUCCEEDED" => Whole(j)'
    BY <1>1, <1>2 DEF BulkInv, SucceededIsWhole, ActiveStatus
<1>5. \A w \in BulkWorker :
         worker[w].pc = "finish" /\ worker[w].j = j /\ bulkJob'[j].st # "deleted" => Whole(j)'
    BY <1>1, <1>2 DEF BulkInv, RecordedIsWhole, ActiveStatus
<1> QED BY <1>1, <1>3, <1>4, <1>5, RowStep DEF ActiveStatus

\* The request that starts a job.
LEMMA StarterStep ==
    ASSUME BulkInv, NEW c \in Starter,
           \/ CommitLoad(c) \/ EnqueueJob(c) \/ StartGivesUp(c) \/ DropDryRun(c)
           \/ \E j \in Job : createBulkJob(c, j)
    PROVE  BulkInv'
<1>0. starter[c].pc \in {"enqueue", "unqueued", "drop"} => starter[c].j \in Job
    BY DEF BulkInv, NamesJob
<1>1. ASSUME UNCHANGED <<kind, bulkJob, worker, sweep, issued>>, dryRun' \in BOOLEAN,
             bulkQueue' \in SUBSET Job, starter' \in [Starter -> StarterCall],
             \A d \in Starter :
                 starter'[d].pc \in {"enqueue", "unqueued", "drop"} => starter'[d].j \in Job
      PROVE  BulkInv'
    <2>1. BulkTypeOK'
        BY <1>1, BulkTypes DEF BulkTypeOK
    <2>2. NamesJob'
        BY <1>1 DEF BulkInv, NamesJob
    <2> QED BY <1>1, <2>1, <2>2 DEF BulkInv, OneOwner, Owns, IssuedIsDone, RecordedIsWhole, Whole,
                                    IssuedAtMostOnce, SucceededIsWhole
<1>2. CASE CommitLoad(c)
    BY <1>1, <1>2, StarterWrites, BulkTypes DEF CommitLoad
<1>3. CASE EnqueueJob(c)
    <2>1. starter[c].j \in Job
        BY <1>0, <1>3 DEF EnqueueJob
    <2>2. StarterGoes(c, "drop", starter[c].j) \/ StarterGoes(c, "unqueued", starter[c].j)
        BY <1>3 DEF EnqueueJob
    <2>3. bulkQueue' \in SUBSET Job
        BY <1>3, <2>1, BulkTypes DEF EnqueueJob
    <2>4. /\ starter' \in [Starter -> StarterCall]
          /\ \A d \in Starter :
                 starter'[d].pc \in {"enqueue", "unqueued", "drop"} => starter'[d].j \in Job
        BY <2>1, <2>2, StarterWrites
    <2> QED BY <1>1, <1>3, <2>3, <2>4, BulkTypes DEF EnqueueJob
<1>4. CASE DropDryRun(c)
    <2>1. dryRun' \in BOOLEAN
        BY <1>4, BulkTypes DEF DropDryRun
    <2> QED BY <1>1, <1>4, <2>1, StarterWrites, BulkTypes DEF DropDryRun
<1>5. CASE StartGivesUp(c)
    <2>1. PICK j \in Job : j = starter[c].j
        BY <1>0, <1>5 DEF StartGivesUp
    <2>2. bulkJob' = Finished(j, "FAILED") /\ UNCHANGED <<kind, dryRun, bulkQueue, worker, sweep, issued>>
        BY <1>5, <2>1 DEF StartGivesUp
    <2>3. /\ starter' \in [Starter -> StarterCall]
          /\ \A d \in Starter :
                 starter'[d].pc \in {"enqueue", "unqueued", "drop"} => starter'[d].j \in Job
        BY <1>5, StarterWrites DEF StartGivesUp
    <2> QED BY <2>2, <2>3, FinishStep
<1>6. ASSUME NEW j \in Job, createBulkJob(c, j) PROVE BulkInv'
    <2>1. CASE \E i \in Job : bulkJob[i].st \in ActiveStatus
        BY <1>1, <1>6, <2>1, StarterWrites, BulkTypes DEF createBulkJob
    <2>2. CASE ~\E i \in Job : bulkJob[i].st \in ActiveStatus
        <3>1. bulkJob[j].st = "none" /\ StarterGoes(c, "enqueue", j)
              /\ bulkJob' = [bulkJob EXCEPT ![j].st = "QUEUED"]
              /\ UNCHANGED <<kind, dryRun, bulkQueue, worker, sweep, issued>>
            BY <1>6, <2>2 DEF createBulkJob
        <3>2. /\ starter' \in [Starter -> StarterCall]
              /\ \A d \in Starter :
                     starter'[d].pc \in {"enqueue", "unqueued", "drop"} => starter'[d].j \in Job
            BY <3>1, StarterWrites
        <3>3. PICK b : b = [bulkJob[j] EXCEPT !.st = "QUEUED"]
            OBVIOUS
        <3>4. b \in BulkJobRow /\ b.st = "QUEUED" /\ b.swept = bulkJob[j].swept
            BY <3>3, BulkTypes DEF BulkJobRow, ActiveStatus
        <3>5. /\ bulkJob' \in [Job -> BulkJobRow] /\ bulkJob'[j] = b
              /\ \A i \in Job : i # j => bulkJob'[i] = bulkJob[i]
            BY <3>1, <3>3, <3>4, BulkTypes
        <3>6. \A i \in sweep'.ids : bulkJob'[i].swept
            BY <3>1, <3>4, <3>5, BulkTypes DEF BulkInv, RecordedIsWhole, SweepRun
        <3>7. \A w \in BulkWorker : worker[w].pc = "finish" => worker[w].j # j
            BY <3>1 DEF BulkInv, OneOwner, Owns
        <3> QED BY <3>1, <3>2, <3>4, <3>5, <3>6, <3>7, BulkTypes, RowStep
    <2> QED BY <2>1, <2>2
<1> QED BY <1>2, <1>3, <1>4, <1>5, <1>6

\* The sweep removes the file of a job it took for interrupted and fails it.
LEMMA SweepStep ==
    ASSUME BulkInv, NEW j \in Job, SweepRemove(j) \/ SweepFinish(j)
    PROVE  BulkInv'
<1>1. bulkJob[j].swept /\ \A i \in sweep.ids : i \in Job /\ bulkJob[i].swept
    BY BulkTypes DEF SweepRemove, SweepFinish, BulkInv, RecordedIsWhole, SweepRun
<1>2. /\ starter \in [Starter -> StarterCall]
      /\ \A c \in Starter : starter[c].pc \in {"enqueue", "unqueued", "drop"} => starter[c].j \in Job
    BY BulkTypes DEF BulkInv, NamesJob
<1>3. CASE SweepRemove(j)
    <2>1. /\ bulkJob' = [bulkJob EXCEPT ![j].file = "none"] /\ bulkJob \in [Job -> BulkJobRow]
          /\ UNCHANGED <<kind, dryRun, starter, bulkQueue, worker, issued>>
        BY <1>1, <1>3, BulkTypes DEF SweepRemove
    <2>2. /\ bulkJob' \in [Job -> BulkJobRow]
          /\ \A i \in Job : i # j => bulkJob'[i] = bulkJob[i]
          /\ bulkJob'[j].st = bulkJob[j].st
          /\ bulkJob'[j].results = bulkJob[j].results
          /\ bulkJob'[j].swept = bulkJob[j].swept
        BY <2>1, FileRow
    <2>3. sweep' \in SweepRun /\ sweep'.ids = sweep.ids
        BY <1>1, <1>3, BulkTypes DEF SweepRemove, SweepRun
    <2>4. Whole(j) => Whole(j)'
        BY <1>1, <2>1, <2>2 DEF Whole
    <2>5. bulkJob'[j].st = "SUCCEEDED" => Whole(j)'
        BY <2>2, <2>4 DEF BulkInv, SucceededIsWhole
    <2>6. \A w \in BulkWorker :
             worker[w].pc = "finish" /\ worker[w].j = j /\ bulkJob'[j].st # "deleted" => Whole(j)'
        BY <2>2, <2>4 DEF BulkInv, RecordedIsWhole
    <2> QED BY <1>1, <1>2, <2>1, <2>2, <2>3, <2>5, <2>6, RowStep
<1>4. CASE SweepFinish(j)
    <2>1. sweep' = IdleSweep /\ bulkJob' = Finished(j, "FAILED")
          /\ UNCHANGED <<kind, dryRun, starter, bulkQueue, worker, issued>>
        BY <1>1, <1>4 DEF SweepFinish
    <2> QED BY <1>2, <2>1, FinishStep
<1> QED BY <1>3, <1>4

\* The end of a job's retention changes any number of rows at once: it takes
\* note of them, removes their files once it has, and deletes them; or the
\* sweep stops.  Nobody's row is revived by that, and what stays is as whole
\* as it was.
LEMMA ExpireStep ==
    ASSUME BulkInv, ExpireRead \/ ExpireDelete \/ SweepFails \/ \E j \in Job : ExpireRemove(j)
    PROVE  BulkInv'
<1>1. /\ bulkJob \in [Job -> BulkJobRow] /\ sweep \in SweepRun /\ sweep.ids \subseteq Job
      /\ \A i \in sweep.ids : bulkJob[i].swept
      /\ UNCHANGED <<kind, dryRun, starter, bulkQueue, worker, issued>>
    BY BulkTypes DEF BulkInv, RecordedIsWhole, SweepRun, ExpireRead, ExpireDelete, SweepFails, ExpireRemove
<1>2. /\ bulkJob' \in [Job -> BulkJobRow]
      /\ \A i \in Job : \/ bulkJob'[i].st = "deleted"
                         \/ /\ bulkJob'[i].st = bulkJob[i].st
                            /\ bulkJob'[i].results = bulkJob[i].results
                            /\ bulkJob'[i].file = bulkJob[i].file \/ bulkJob'[i].swept
      /\ \A i \in Job : bulkJob[i].swept => bulkJob'[i].swept
      /\ sweep' \in SweepRun
      /\ \A i \in sweep'.ids : bulkJob'[i].swept
    <2>1. CASE SweepFails
        BY <1>1, <2>1 DEF SweepFails, IdleSweep, SweepRun
    <2>2. CASE ExpireRead
        <3>1. PICK ids \in SUBSET Job :
                 /\ sweep' = [pc |-> "expire", ids |-> ids]
                 /\ bulkJob' = [j \in Job |-> [bulkJob[j] EXCEPT !.swept = @ \/ j \in ids]]
            BY <2>2 DEF ExpireRead, EndedJobs
        <3>2. ASSUME NEW i \in Job
              PROVE  /\ bulkJob'[i] \in BulkJobRow /\ bulkJob'[i].st = bulkJob[i].st
                     /\ bulkJob'[i].results = bulkJob[i].results
                     /\ bulkJob'[i].file = bulkJob[i].file
                     /\ bulkJob[i].swept \/ i \in ids => bulkJob'[i].swept
            <4>1. PICK b : b = [bulkJob[i] EXCEPT !.swept = bulkJob[i].swept \/ i \in ids]
                OBVIOUS
            <4>2. /\ b \in BulkJobRow /\ b.st = bulkJob[i].st /\ b.results = bulkJob[i].results
                  /\ b.file = bulkJob[i].file /\ b.swept = (bulkJob[i].swept \/ i \in ids)
                BY <1>1, <4>1 DEF BulkJobRow
            <4>3. bulkJob'[i] = b
                BY <3>1, <4>1
            <4> QED BY <4>2, <4>3
        <3>3. bulkJob' \in [Job -> BulkJobRow]
            <4>1. bulkJob' = [j \in Job |-> bulkJob'[j]]
                BY <3>1
            <4> QED BY <3>2, <4>1
        <3>4. sweep' \in SweepRun /\ sweep'.ids = ids
            BY <3>1 DEF SweepRun
        <3> QED BY <3>2, <3>3, <3>4
    <2>3. CASE ExpireDelete
        <3>1. /\ bulkJob' = [j \in Job |-> IF j \in sweep.ids
                                          THEN [bulkJob[j] EXCEPT !.st = "deleted", !.results = {}]
                                          ELSE bulkJob[j]]
              /\ sweep' = IdleSweep
            BY <2>3 DEF ExpireDelete
        <3>2. ASSUME NEW i \in Job
              PROVE  /\ bulkJob'[i] \in BulkJobRow /\ bulkJob'[i].swept = bulkJob[i].swept
                     /\ bulkJob'[i].st = "deleted" \/ bulkJob'[i] = bulkJob[i]
            <4>1. PICK b : b = [bulkJob[i] EXCEPT !.st = "deleted", !.results = {}]
                OBVIOUS
            <4>2. b \in BulkJobRow /\ b.st = "deleted" /\ b.swept = bulkJob[i].swept
                BY <1>1, <4>1 DEF BulkJobRow
            <4>3. bulkJob'[i] = IF i \in sweep.ids THEN b ELSE bulkJob[i]
                BY <3>1, <4>1
            <4> QED BY <1>1, <4>2, <4>3
        <3>3. bulkJob' \in [Job -> BulkJobRow]
            <4>1. bulkJob' = [j \in Job |-> bulkJob'[j]]
                BY <3>1
            <4> QED BY <3>2, <4>1
        <3>4. sweep' \in SweepRun /\ sweep'.ids = {}
            BY <3>1 DEF SweepRun, IdleSweep
        <3> QED BY <3>2, <3>3, <3>4
    <2>4. ASSUME NEW j \in Job, ExpireRemove(j) PROVE <1>2
        <3>1. /\ bulkJob' = [bulkJob EXCEPT ![j].file = "none"] /\ sweep' = sweep
              /\ bulkJob[j].swept
            BY <1>1, <2>4 DEF ExpireRemove
        <3>2. /\ bulkJob' \in [Job -> BulkJobRow]
              /\ \A i \in Job : i # j => bulkJob'[i] = bulkJob[i]
              /\ bulkJob'[j].st = bulkJob[j].st
              /\ bulkJob'[j].results = bulkJob[j].results
              /\ bulkJob'[j].swept = bulkJob[j].swept
            BY <1>1, <3>1, FileRow
        <3> QED BY <1>1, <3>1, <3>2
    <2> QED BY <2>1, <2>2, <2>3, <2>4
<1>3. \A i \in Job : bulkJob'[i].st # "deleted" /\ Whole(i) => Whole(i)'
    BY <1>1, <1>2 DEF Whole
<1>4. BulkTypeOK' /\ NamesJob'
    BY <1>1, <1>2, BulkTypes DEF BulkTypeOK, BulkInv, NamesJob
<1>5. OneOwner' /\ IssuedIsDone' /\ IssuedAtMostOnce'
    <2>1. OneOwner'
        BY <1>1, <1>2 DEF BulkInv, NamesJob, OneOwner, Owns
    <2>2. IssuedIsDone' /\ IssuedAtMostOnce'
        BY <1>1, <1>2 DEF BulkInv, IssuedIsDone, IssuedAtMostOnce
    <2> QED BY <2>1, <2>2
<1>6. SucceededIsWhole'
    BY <1>2, <1>3 DEF BulkInv, SucceededIsWhole
<1>7. RecordedIsWhole'
    <2>1. ASSUME NEW w \in BulkWorker, worker[w].pc = "finish", bulkJob'[worker[w].j].st # "deleted"
          PROVE  Whole(worker[w].j)'
        <3>1. PICK i \in Job : i = worker[w].j
            BY <2>1 DEF BulkInv, NamesJob
        <3>2. Whole(i)
            BY <1>2, <2>1, <3>1 DEF BulkInv, RecordedIsWhole
        <3>3. Whole(i)'
            BY <1>3, <2>1, <3>1, <3>2
        <3> QED BY <1>1, <3>1, <3>3 DEF Whole
    <2> QED BY <1>1, <1>2, <2>1 DEF RecordedIsWhole, Whole
<1> QED BY <1>4, <1>5, <1>6, <1>7 DEF BulkInv

\* What becomes of a row without its worker: it goes stale, is picked up by
\* the sweep as interrupted, and a file without a job is removed.
LEMMA JobRowStep ==
    ASSUME BulkInv, NEW j \in Job, GoesStale(j) \/ SweepRead(j) \/ RemoveOrphan(j)
    PROVE  BulkInv'
<1>1. /\ starter' \in [Starter -> StarterCall] /\ UNCHANGED <<kind, dryRun, bulkQueue, worker, issued>>
      /\ \A c \in Starter : starter'[c].pc \in {"enqueue", "unqueued", "drop"} => starter'[c].j \in Job
    BY BulkTypes DEF GoesStale, SweepRead, RemoveOrphan, BulkInv, NamesJob
<1>2. bulkJob \in [Job -> BulkJobRow] /\ bulkJob[j] \in BulkJobRow /\ sweep \in SweepRun
    BY BulkTypes
<1>3. \A i \in sweep.ids : i \in Job /\ bulkJob[i].swept
    BY BulkTypes DEF BulkInv, RecordedIsWhole, SweepRun
<1>4. /\ bulkJob[j].st = "SUCCEEDED" => Whole(j)
      /\ \A w \in BulkWorker :
             worker[w].pc = "finish" /\ worker[w].j = j /\ bulkJob[j].st # "deleted" => Whole(j)
    BY DEF BulkInv, SucceededIsWhole, RecordedIsWhole
<1>5. CASE GoesStale(j)
    <2>1. PICK b : b = [bulkJob[j] EXCEPT !.stale = TRUE]
        OBVIOUS
    <2>2. /\ b \in BulkJobRow /\ b.st = bulkJob[j].st /\ b.results = bulkJob[j].results
          /\ b.file = bulkJob[j].file /\ b.swept = bulkJob[j].swept
        BY <1>2, <2>1 DEF BulkJobRow
    <2>3. bulkJob' = [bulkJob EXCEPT ![j] = b] /\ sweep' = sweep
        BY <1>2, <1>5, <2>1 DEF GoesStale
    <2>4. /\ bulkJob' \in [Job -> BulkJobRow] /\ bulkJob'[j] = b
          /\ \A i \in Job : i # j => bulkJob'[i] = bulkJob[i]
        BY <1>2, <2>2, <2>3
    <2>5. Whole(j) => Whole(j)'
        BY <1>1, <2>2, <2>4 DEF Whole
    <2>6. \A i \in sweep'.ids : bulkJob'[i].swept
        BY <1>3, <2>2, <2>3, <2>4
    <2> QED BY <1>1, <1>2, <1>4, <2>2, <2>3, <2>4, <2>5, <2>6, RowStep
<1>6. CASE SweepRead(j)
    <2>1. PICK b : b = [bulkJob[j] EXCEPT !.swept = TRUE]
        OBVIOUS
    <2>2. /\ b \in BulkJobRow /\ b.st = bulkJob[j].st /\ b.results = bulkJob[j].results
          /\ b.file = bulkJob[j].file /\ b.swept
        BY <1>2, <2>1 DEF BulkJobRow
    <2>3. bulkJob' = [bulkJob EXCEPT ![j] = b]
        BY <1>2, <1>6, <2>1 DEF SweepRead
    <2>4. /\ bulkJob' \in [Job -> BulkJobRow] /\ bulkJob'[j] = b
          /\ \A i \in Job : i # j => bulkJob'[i] = bulkJob[i]
        BY <1>2, <2>2, <2>3
    <2>5. Whole(j) => Whole(j)'
        BY <1>1, <2>2, <2>4 DEF Whole
    <2>6. sweep' \in SweepRun /\ sweep'.ids = {j}
        BY <1>6 DEF SweepRead, SweepRun
    <2> QED BY <1>1, <1>2, <1>4, <2>2, <2>4, <2>5, <2>6, RowStep
<1>8. CASE RemoveOrphan(j)
    <2>1. /\ bulkJob' = [bulkJob EXCEPT ![j].file = "none"] /\ sweep' = sweep
          /\ bulkJob[j].st = "deleted"
        BY <1>8 DEF RemoveOrphan
    <2>2. /\ bulkJob' \in [Job -> BulkJobRow]
          /\ \A i \in Job : i # j => bulkJob'[i] = bulkJob[i]
          /\ bulkJob'[j].st = "deleted"
          /\ bulkJob'[j].swept = bulkJob[j].swept
        BY <1>2, <2>1, FileRow
    <2>3. \A i \in sweep'.ids : bulkJob'[i].swept
        BY <1>3, <2>1, <2>2
    <2> QED BY <1>1, <1>2, <2>1, <2>2, <2>3, RowStep
<1> QED BY <1>5, <1>6, <1>8

\* What an owner knows of its job.
LEMMA OwnerKnows ==
    ASSUME BulkInv, NEW w \in BulkWorker, Owns(w)
    PROVE  /\ worker[w].j \in Job
           /\ bulkJob[worker[w].j].st \in {"RUNNING", "FAILED", "deleted"}
           /\ \A v \in BulkWorker : v # w /\ Owns(v) => worker[v].j # worker[w].j
    BY DEF BulkInv, NamesJob, OneOwner, Owns

\* A step of the owner: it writes its own row and goes on, or is through.
LEMMA OwnerStep ==
    ASSUME BulkInv, NEW w \in BulkWorker, Owns(w), NEW j \in Job, j = worker[w].j,
           UNCHANGED <<kind, dryRun, starter, bulkQueue, sweep, issued>>,
           bulkJob' \in [Job -> BulkJobRow],
           \A i \in Job : i # j => bulkJob'[i] = bulkJob[i],
           bulkJob'[j].swept = bulkJob[j].swept,
           worker' \in [BulkWorker -> WorkerRun],
           \A v \in BulkWorker : v # w => worker'[v] = worker[v],
           \/ worker'[w].pc = "idle"
           \/ /\ worker'[w].j = j /\ worker'[w].done = worker[w].done
              /\ worker'[w].pc \in {"check", "work"} => worker[w].pc \in {"check", "work"}
              /\ worker'[w].pc = "finish" => Whole(j)',
           \/ bulkJob'[j].st = bulkJob[j].st
           \/ bulkJob'[j].st = "FAILED"
           \/ bulkJob'[j].st = "SUCCEEDED" /\ Whole(j)' /\ worker'[w].pc = "idle"
    PROVE  BulkInv'
<1>1. /\ bulkJob[j].st \in {"RUNNING", "FAILED", "deleted"}
      /\ \A v \in BulkWorker : v # w /\ Owns(v) => worker[v].j # j
    BY OwnerKnows
<1>2. BulkTypeOK'
    BY BulkTypes DEF BulkTypeOK
<1>3. NamesJob'
    BY DEF BulkInv, NamesJob
<1>4. \A v \in BulkWorker : Owns(v)' => Owns(v) /\ worker'[v].j = worker[v].j
    BY DEF Owns
<1>5. \A v \in BulkWorker :
         Owns(v)' /\ worker'[v].j = j => bulkJob'[j].st \in {"RUNNING", "FAILED", "deleted"}
    BY <1>1, <1>4 DEF Owns
<1>6. \A v \in BulkWorker : worker'[v].pc \in {"check", "work"} =>
         worker[v].pc \in {"check", "work"} /\ worker'[v].done = worker[v].done
    OBVIOUS
<1>7. ASSUME NEW v \in BulkWorker, worker'[v].pc = "finish", bulkJob'[worker'[v].j].st # "deleted"
      PROVE  \/ Whole(worker[v].j)'
             \/ worker'[v].j # j /\ worker[v].pc = "finish"
    <2>1. CASE v = w
        <3>1. Whole(j)' /\ worker'[v].j = j
            BY <1>7, <2>1
        <3> QED BY <3>1 DEF Whole
    <2>2. CASE v # w
        BY <1>1, <1>7, <2>2 DEF Owns
    <2> QED BY <2>1, <2>2
<1>8. \A i \in sweep'.ids : bulkJob'[i].swept
    BY BulkTypes DEF BulkInv, RecordedIsWhole, SweepRun
<1>9. bulkJob'[j].st \in {"none", "QUEUED"} => bulkJob[j].st \in {"none", "QUEUED"}
    OBVIOUS
<1>10. bulkJob'[j].st = "SUCCEEDED" => Whole(j)'
    BY <1>1
<1> QED BY <1>2, <1>3, <1>4, <1>5, <1>6, <1>7, <1>8, <1>9, <1>10, JobFollows

\* A worker that stops, or takes an id from the queue, owns nothing.
LEMMA IdleStep ==
    ASSUME BulkInv, NEW w \in BulkWorker, UNCHANGED <<kind, dryRun, starter, bulkJob, sweep, issued>>,
           bulkQueue' \in SUBSET Job, worker' \in [BulkWorker -> WorkerRun],
           \A v \in BulkWorker : v # w => worker'[v] = worker[v],
           \/ worker'[w].pc = "idle"
           \/ worker'[w].pc = "claim" /\ worker'[w].j \in Job
    PROVE  BulkInv'
<1>1. BulkTypeOK'
    BY BulkTypes DEF BulkTypeOK
<1>2. NamesJob'
    BY DEF BulkInv, NamesJob
<1>3. \A v \in BulkWorker : Owns(v)' => v # w
    BY DEF Owns
<1>4. OneOwner'
    BY <1>3 DEF BulkInv, OneOwner, Owns
<1>5. IssuedIsDone'
    BY DEF BulkInv, IssuedIsDone
<1>6. RecordedIsWhole'
    BY DEF BulkInv, RecordedIsWhole, Whole
<1> QED BY <1>1, <1>2, <1>4, <1>5, <1>6 DEF BulkInv, IssuedAtMostOnce, SucceededIsWhole, Whole

\* The claim makes its worker the owner of a job nothing was issued for.
LEMMA ClaimStep ==
    ASSUME BulkInv, NEW w \in BulkWorker, claimJob(w)
    PROVE  BulkInv'
<1>1. PICK j \in Job : j = worker[w].j
    BY DEF claimJob, BulkInv, NamesJob
<1>2. CASE ~ClaimableJob(j)
    <2>1. WorkerEnds(w) /\ UNCHANGED <<kind, dryRun, starter, bulkQueue, bulkJob, sweep, issued>>
        BY <1>1, <1>2 DEF claimJob
    <2>2. bulkQueue' \in SUBSET Job
        BY <2>1, BulkTypes
    <2> QED BY <2>1, <2>2, WorkerStops, IdleStep
<1>3. CASE ClaimableJob(j)
    <2>1. /\ worker[w].pc = "claim" /\ bulkJob[j].st = "QUEUED" /\ WorkerGoes(w, "check")
          /\ bulkJob' = [bulkJob EXCEPT ![j].st = "RUNNING", ![j].stale = FALSE]
          /\ UNCHANGED <<kind, dryRun, starter, bulkQueue, sweep, issued>>
        BY <1>1, <1>3 DEF claimJob, ClaimableJob
    <2>2. /\ worker' \in [BulkWorker -> WorkerRun]
          /\ worker'[w].pc = "check" /\ worker'[w].j = j
          /\ \A v \in BulkWorker : v # w => worker'[v] = worker[v]
          /\ \A v \in BulkWorker : worker'[v].pc # "idle" => worker'[v].j \in Job
        BY <1>1, <2>1, WorkerMoves
    <2>3. PICK b : b = [bulkJob[j] EXCEPT !.st = "RUNNING", !.stale = FALSE]
        OBVIOUS
    <2>4. b \in BulkJobRow /\ b.st = "RUNNING" /\ b.swept = bulkJob[j].swept
        BY <2>3, BulkTypes DEF BulkJobRow, ActiveStatus
    <2>5. bulkJob' = [bulkJob EXCEPT ![j] = b] /\ bulkJob \in [Job -> BulkJobRow]
        BY <2>1, <2>3, BulkTypes
    <2>6. /\ bulkJob' \in [Job -> BulkJobRow] /\ bulkJob'[j] = b
          /\ \A i \in Job : i # j => bulkJob'[i] = bulkJob[i]
        BY <2>4, <2>5
    <2>7. \A v \in BulkWorker : Owns(v) => worker[v].j # j /\ worker[v].j \in Job /\ v # w
        BY <2>1, OwnerKnows DEF Owns
    <2>8. \A v \in BulkWorker :
             Owns(v)' => \/ v = w
                         \/ /\ v # w /\ Owns(v) /\ worker'[v] = worker[v]
                            /\ worker[v].j # j /\ worker[v].j \in Job
        BY <2>2, <2>7 DEF Owns
    <2>9. BulkTypeOK'
        BY <2>1, <2>2, <2>6, BulkTypes DEF BulkTypeOK
    <2>10. NamesJob'
        BY <2>1, <2>2 DEF BulkInv, NamesJob
    <2>11. OneOwner'
        BY <2>2, <2>4, <2>6, <2>8 DEF BulkInv, OneOwner
    <2>12. IssuedIsDone'
        <3>1. \A r \in BulkRow : issued[j][r] = 0
            BY <2>1 DEF BulkInv, IssuedIsDone
        <3>2. \A i \in Job, r \in BulkRow : bulkJob'[i].st \in {"none", "QUEUED"} => issued'[i][r] = 0
            BY <2>1, <2>4, <2>6 DEF BulkInv, IssuedIsDone
        <3>3. \A v \in BulkWorker, r \in BulkRow :
                 worker'[v].pc \in {"check", "work"} /\ r \notin worker'[v].done =>
                     issued'[worker'[v].j][r] = 0
            BY <2>1, <2>2, <3>1 DEF BulkInv, IssuedIsDone
        <3> QED BY <3>2, <3>3 DEF IssuedIsDone
    <2>13. RecordedIsWhole'
        <3>1. ASSUME NEW v \in BulkWorker, worker'[v].pc = "finish",
                     bulkJob'[worker'[v].j].st # "deleted"
              PROVE  Whole(worker[v].j)'
            <4>1. v # w /\ worker'[v] = worker[v] /\ worker[v].j # j /\ worker[v].j \in Job
                BY <2>2, <2>8, <3>1 DEF Owns
            <4>2. bulkJob'[worker'[v].j] = bulkJob[worker[v].j] /\ kind' = kind
                BY <2>1, <2>6, <4>1
            <4>3. Whole(worker[v].j)
                BY <3>1, <4>1, <4>2 DEF BulkInv, RecordedIsWhole
            <4> QED BY <4>1, <4>2, <4>3 DEF Whole
        <3>2. \A i \in sweep'.ids : bulkJob'[i].swept
            BY <2>1, <2>4, <2>6, BulkTypes DEF BulkInv, RecordedIsWhole, SweepRun
        <3> QED BY <3>1, <3>2 DEF RecordedIsWhole
    <2>14. SucceededIsWhole'
        BY <2>1, <2>4, <2>6 DEF BulkInv, SucceededIsWhole, Whole
    <2>15. IssuedAtMostOnce'
        BY <2>1 DEF BulkInv, IssuedAtMostOnce
    <2> QED BY <2>9, <2>10, <2>11, <2>12, <2>13, <2>14, <2>15 DEF BulkInv
<1> QED BY <1>2, <1>3

\* The owner works a row that nothing was issued for.
LEMMA WorkRowStep ==
    ASSUME BulkInv, NEW w \in BulkWorker, NEW r \in BulkRow, WorkRow(w, r)
    PROVE  BulkInv'
<1>1. Owns(w) /\ worker[w].pc = "work" /\ r \notin worker[w].done
      /\ UNCHANGED <<kind, dryRun, starter, bulkQueue, bulkJob, sweep>>
    BY DEF WorkRow, Owns
<1>2. PICK j \in Job : j = worker[w].j
    BY <1>1, OwnerKnows
<1>3. /\ bulkJob[j].st \in {"RUNNING", "FAILED", "deleted"}
      /\ \A v \in BulkWorker : v # w /\ Owns(v) => worker[v].j # j
    BY <1>1, <1>2, OwnerKnows
<1>4. PICK x : x = [worker[w] EXCEPT !.done = @ \cup {r}]
    OBVIOUS
<1>5. x \in WorkerRun /\ x.pc = "work" /\ x.j = j /\ x.done = worker[w].done \cup {r}
    BY <1>1, <1>2, <1>4, BulkTypes DEF WorkerRun
<1>6. worker' = [worker EXCEPT ![w] = x] /\ worker \in [BulkWorker -> WorkerRun]
    BY <1>4, BulkTypes DEF WorkRow
<1>7. /\ worker' \in [BulkWorker -> WorkerRun] /\ worker'[w] = x
      /\ \A v \in BulkWorker : v # w => worker'[v] = worker[v]
    BY <1>5, <1>6
<1>8. issued[j][r] = 0 /\ issued \in [Job -> [BulkRow -> 0..2]] /\ issued[j] \in [BulkRow -> 0..2]
    BY <1>1, <1>2, BulkTypes DEF BulkInv, IssuedIsDone
<1>9. /\ issued' \in [Job -> [BulkRow -> 0..2]]
      /\ issued'[j][r] \in 0..1
      /\ \A i \in Job, q \in BulkRow : i # j \/ q # r => issued'[i][q] = issued[i][q]
    <2>1. CASE issued' = issued
        BY <1>8, <2>1
    <2>2. CASE issued' = [issued EXCEPT ![j][r] = IF kind = "IMPORT" /\ @ < 2 THEN @ + 1 ELSE @]
        <3>1. PICK n : n = IF kind = "IMPORT" /\ issued[j][r] < 2 THEN issued[j][r] + 1 ELSE issued[j][r]
            OBVIOUS
        <3>2. n \in 0..1
            BY <1>8, <3>1
        <3>3. issued' = [issued EXCEPT ![j] = [issued[j] EXCEPT ![r] = n]]
            BY <2>2, <3>1, <1>8
        <3>4. [issued[j] EXCEPT ![r] = n] \in [BulkRow -> 0..2]
            BY <1>8, <3>2
        <3> QED BY <1>8, <3>2, <3>3, <3>4
    <2> QED BY <1>2, <2>1, <2>2 DEF WorkRow
<1>10. BulkTypeOK'
    BY <1>1, <1>7, <1>9, BulkTypes DEF BulkTypeOK
<1>11. NamesJob'
    BY <1>1, <1>5, <1>7 DEF BulkInv, NamesJob
<1>12. \A v \in BulkWorker : /\ worker'[v].pc = worker[v].pc
                             /\ worker'[v].j = worker[v].j
    BY <1>1, <1>2, <1>5, <1>7
<1>13. OneOwner'
    BY <1>1, <1>12 DEF BulkInv, OneOwner, Owns
<1>14. IssuedIsDone'
    <2>1. \A i \in Job, q \in BulkRow : bulkJob'[i].st \in {"none", "QUEUED"} => issued'[i][q] = 0
        BY <1>1, <1>3, <1>9 DEF BulkInv, IssuedIsDone
    <2>2. ASSUME NEW v \in BulkWorker, NEW q \in BulkRow, worker'[v].pc \in {"check", "work"},
                 q \notin worker'[v].done
          PROVE  issued'[worker'[v].j][q] = 0
        <3>1. CASE v = w
            BY <1>1, <1>2, <1>5, <1>7, <1>9, <2>2, <3>1 DEF BulkInv, IssuedIsDone
        <3>2. CASE v # w
            <4>1. Owns(v) /\ worker'[v] = worker[v]
                BY <1>7, <2>2, <3>2 DEF Owns
            <4>2. worker[v].j \in Job /\ worker[v].j # j
                BY <1>3, <3>2, <4>1, OwnerKnows
            <4> QED BY <1>9, <2>2, <4>1, <4>2 DEF BulkInv, IssuedIsDone
        <3> QED BY <3>1, <3>2
    <2> QED BY <2>1, <2>2 DEF IssuedIsDone
<1>15. RecordedIsWhole'
    BY <1>1, <1>12 DEF BulkInv, RecordedIsWhole, Whole
<1>16. IssuedAtMostOnce'
    BY <1>9 DEF BulkInv, IssuedAtMostOnce
<1>17. SucceededIsWhole'
    BY <1>1 DEF BulkInv, SucceededIsWhole, Whole
<1> QED BY <1>10, <1>11, <1>13, <1>14, <1>15, <1>16, <1>17 DEF BulkInv

\* The remaining steps of the owner write its row.
LEMMA OwnerWrites ==
    ASSUME BulkInv, NEW w \in BulkWorker,
           \/ StarterCheck(w) \/ SaveProgress(w) \/ Record(w) \/ WorkFails(w)
           \/ WorkerFinish(w) \/ Unlink(w) \/ Rescue(w) \/ WorkerFail(w)
    PROVE  BulkInv'
<1>1. /\ Owns(w) /\ worker[w].pc # "idle" /\ worker \in [BulkWorker -> WorkerRun]
      /\ UNCHANGED <<kind, dryRun, starter, bulkQueue, sweep, issued>>
    BY BulkTypes DEF StarterCheck, SaveProgress, Record, WorkFails, WorkerFinish, Unlink, Rescue,
                     WorkerFail, Owns
<1>2. PICK j \in Job : j = worker[w].j
    BY <1>1, OwnerKnows
<1>3. bulkJob \in [Job -> BulkJobRow] /\ bulkJob[j].st \in {"RUNNING", "FAILED", "deleted"}
    BY <1>1, <1>2, OwnerKnows, BulkTypes
<1>4. CASE StarterCheck(w)
    <2>1. CASE bulkJob' = bulkJob
        <3>1. worker[w].pc = "check" /\ (WorkerGoes(w, "fail") \/ WorkerGoes(w, "work"))
            BY <1>4 DEF StarterCheck
        <3>2. /\ worker' \in [BulkWorker -> WorkerRun]
              /\ worker'[w].pc \in {"fail", "work"}
              /\ worker'[w].j = j /\ worker'[w].done = worker[w].done
              /\ \A v \in BulkWorker : v # w => worker'[v] = worker[v]
            BY <1>1, <1>2, <3>1, WorkerMoves
        <3> QED BY <1>1, <1>2, <1>3, <2>1, <3>1, <3>2, OwnerStep
    <2>2. CASE bulkJob' # bulkJob
        <3>1. WorkerGoes(w, "work") /\ bulkJob' = [bulkJob EXCEPT ![j].file = "part"]
            BY <1>2, <1>4, <2>2 DEF StarterCheck
        <3>2. /\ worker' \in [BulkWorker -> WorkerRun]
              /\ worker'[w].pc = "work" /\ worker[w].pc = "check"
              /\ worker'[w].j = j /\ worker'[w].done = worker[w].done
              /\ \A v \in BulkWorker : v # w => worker'[v] = worker[v]
            BY <1>1, <1>2, <1>4, <3>1, WorkerMoves DEF StarterCheck
        <3>3. /\ bulkJob' \in [Job -> BulkJobRow]
              /\ \A i \in Job : i # j => bulkJob'[i] = bulkJob[i]
              /\ bulkJob'[j].st = bulkJob[j].st /\ bulkJob'[j].swept = bulkJob[j].swept
            BY <1>3, <3>1, FileRow
        <3> QED BY <1>1, <1>2, <3>2, <3>3, OwnerStep
    <2> QED BY <2>1, <2>2
<1>5. CASE SaveProgress(w)
    <2>1. /\ bulkJob' \in [Job -> BulkJobRow]
          /\ \A i \in Job : i # j => bulkJob'[i] = bulkJob[i]
          /\ bulkJob'[j].st = bulkJob[j].st /\ bulkJob'[j].swept = bulkJob[j].swept
        BY <1>2, <1>5, ProgressedRow DEF SaveProgress
    <2> QED BY <1>1, <1>2, <1>5, <2>1, OwnerStep DEF SaveProgress
<1>6. CASE Record(w)
    <2>1. /\ worker' \in [BulkWorker -> WorkerRun]
          /\ worker'[w].pc = "finish" /\ worker[w].done = BulkRow
          /\ worker'[w].j = j /\ worker'[w].done = worker[w].done
          /\ \A v \in BulkWorker : v # w => worker'[v] = worker[v]
        BY <1>1, <1>2, <1>6, WorkerMoves DEF Record
    <2>2. PICK rows : rows = Progressed(w)
        OBVIOUS
    <2>3. /\ rows \in [Job -> BulkJobRow]
          /\ \A i \in Job : i # j => rows[i] = bulkJob[i]
          /\ rows[j].st = bulkJob[j].st
          /\ rows[j].results = BulkRow
          /\ rows[j].swept = bulkJob[j].swept
        BY <1>2, <2>1, <2>2, ProgressedRow
    <2>4. CASE kind = "IMPORT"
        <3>1. bulkJob' = rows
            BY <1>6, <2>2, <2>4 DEF Record, Recorded
        <3>2. Whole(j)'
            BY <1>1, <2>3, <2>4, <3>1 DEF Whole
        <3> QED BY <1>1, <1>2, <2>1, <2>3, <3>1, <3>2, OwnerStep
    <2>5. CASE kind # "IMPORT"
        <3>1. bulkJob' = [rows EXCEPT ![j].file = "zip"]
            BY <1>2, <1>6, <2>2, <2>5 DEF Record, Recorded
        <3>2. /\ bulkJob' \in [Job -> BulkJobRow]
              /\ \A i \in Job : i # j => bulkJob'[i] = rows[i]
              /\ bulkJob'[j].file = "zip"
              /\ bulkJob'[j].st = rows[j].st
              /\ bulkJob'[j].swept = rows[j].swept
            BY <2>3, <3>1, FileRow
        <3>3. Whole(j)'
            BY <1>1, <2>5, <3>2 DEF Whole
        <3> QED BY <1>1, <1>2, <2>1, <2>3, <3>2, <3>3, OwnerStep
    <2> QED BY <2>4, <2>5
<1>7. CASE WorkFails(w)
    <2>1. /\ worker' \in [BulkWorker -> WorkerRun]
          /\ worker'[w].pc = "rescue"
          /\ worker'[w].j = j /\ worker'[w].done = worker[w].done
          /\ \A v \in BulkWorker : v # w => worker'[v] = worker[v]
        BY <1>1, <1>2, <1>7, WorkerMoves DEF WorkFails
    <2> QED BY <1>1, <1>2, <1>3, <1>7, <2>1, OwnerStep DEF WorkFails
<1>8. CASE WorkerFinish(w)
    <2>1. /\ bulkJob' \in [Job -> BulkJobRow]
          /\ \A i \in Job : i # j => bulkJob'[i] = bulkJob[i]
          /\ bulkJob'[j].st = IF bulkJob[j].st \in ActiveStatus THEN "SUCCEEDED" ELSE bulkJob[j].st
          /\ bulkJob'[j].results = bulkJob[j].results
          /\ bulkJob'[j].file = bulkJob[j].file
          /\ bulkJob'[j].swept = bulkJob[j].swept
        BY <1>2, <1>8, FinishedRow DEF WorkerFinish
    <2>2. bulkJob[j].st # "deleted" => Whole(j)'
        BY <1>1, <1>2, <1>8, <2>1 DEF WorkerFinish, BulkInv, RecordedIsWhole, Whole
    <2>3. CASE WorkerEnds(w)
        BY <1>1, <1>2, <1>3, <2>1, <2>2, <2>3, WorkerStops, OwnerStep DEF ActiveStatus
    <2>4. CASE ~WorkerEnds(w)
        <3>1. WorkerGoes(w, "unlink") /\ bulkJob[j].st \notin ActiveStatus
            BY <1>2, <1>8, <2>4 DEF WorkerFinish
        <3>2. /\ worker' \in [BulkWorker -> WorkerRun]
              /\ worker'[w].pc = "unlink"
              /\ worker'[w].j = j /\ worker'[w].done = worker[w].done
              /\ \A v \in BulkWorker : v # w => worker'[v] = worker[v]
            BY <1>1, <1>2, <3>1, WorkerMoves
        <3> QED BY <1>1, <1>2, <2>1, <3>1, <3>2, OwnerStep
    <2> QED BY <2>3, <2>4
<1>9. CASE Unlink(w)
    <2>1. /\ bulkJob' \in [Job -> BulkJobRow]
          /\ \A i \in Job : i # j => bulkJob'[i] = bulkJob[i]
          /\ bulkJob'[j].st = bulkJob[j].st /\ bulkJob'[j].swept = bulkJob[j].swept
        <3>1. bulkJob' = [bulkJob EXCEPT ![j].file = "none"]
            BY <1>2, <1>9 DEF Unlink
        <3> QED BY <1>3, <3>1, FileRow
    <2>2. WorkerEnds(w)
        BY <1>9 DEF Unlink
    <2> QED BY <1>1, <1>2, <2>1, <2>2, WorkerStops, OwnerStep
<1>10. CASE Rescue(w)
    <2>1. /\ worker' \in [BulkWorker -> WorkerRun]
          /\ worker'[w].pc = "fail"
          /\ worker'[w].j = j /\ worker'[w].done = worker[w].done
          /\ \A v \in BulkWorker : v # w => worker'[v] = worker[v]
        BY <1>1, <1>2, <1>10, WorkerMoves DEF Rescue
    <2>2. \/ bulkJob' = bulkJob
          \/ bulkJob' = Progressed(w)
          \/ bulkJob' = [bulkJob EXCEPT ![j].file = "none"]
        BY <1>2, <1>10 DEF Rescue
    <2>3. /\ bulkJob' \in [Job -> BulkJobRow]
          /\ \A i \in Job : i # j => bulkJob'[i] = bulkJob[i]
          /\ bulkJob'[j].st = bulkJob[j].st /\ bulkJob'[j].swept = bulkJob[j].swept
        <3>1. CASE bulkJob' = bulkJob
            BY <1>3, <3>1
        <3>2. CASE bulkJob' = Progressed(w)
            BY <1>2, <3>2, ProgressedRow
        <3>3. CASE bulkJob' = [bulkJob EXCEPT ![j].file = "none"]
            BY <1>3, <3>3, FileRow
        <3> QED BY <2>2, <3>1, <3>2, <3>3
    <2> QED BY <1>1, <1>2, <2>1, <2>3, OwnerStep
<1>11. CASE WorkerFail(w)
    <2>1. /\ bulkJob' \in [Job -> BulkJobRow]
          /\ \A i \in Job : i # j => bulkJob'[i] = bulkJob[i]
          /\ bulkJob'[j].st = IF bulkJob[j].st \in ActiveStatus THEN "FAILED" ELSE bulkJob[j].st
          /\ bulkJob'[j].swept = bulkJob[j].swept
        BY <1>2, <1>11, FinishedRow DEF WorkerFail
    <2>2. WorkerEnds(w)
        BY <1>11 DEF WorkerFail
    <2> QED BY <1>1, <1>2, <2>1, <2>2, WorkerStops, OwnerStep
<1> QED BY <1>4, <1>5, <1>6, <1>7, <1>8, <1>9, <1>10, <1>11

\* The steps of a worker.
LEMMA WorkerStep ==
    ASSUME BulkInv, NEW w \in BulkWorker,
           \/ claimJob(w) \/ StarterCheck(w) \/ SaveProgress(w) \/ Record(w) \/ WorkFails(w)
           \/ WorkerFinish(w) \/ Unlink(w) \/ Rescue(w) \/ WorkerFail(w) \/ WorkerCrash(w)
           \/ (\E j \in Job : Deliver(w, j)) \/ (\E r \in BulkRow : WorkRow(w, r))
    PROVE  BulkInv'
<1>1. CASE WorkerCrash(w)
    <2>1. worker[w].j \in Job
        BY <1>1 DEF WorkerCrash, BulkInv, NamesJob
    <2>2. bulkQueue' \in SUBSET Job /\ WorkerEnds(w)
        BY <1>1, <2>1, BulkTypes DEF WorkerCrash
    <2> QED BY <1>1, <2>2, WorkerStops, IdleStep DEF WorkerCrash
<1>2. ASSUME NEW j \in Job, Deliver(w, j) PROVE BulkInv'
    <2>1. worker' = [worker EXCEPT ![w].pc = "claim", ![w].j = j] /\ worker \in [BulkWorker -> WorkerRun]
        BY <1>2, BulkTypes DEF Deliver
    <2>2. PICK x : x = [worker[w] EXCEPT !.pc = "claim", !.j = j]
        OBVIOUS
    <2>3. x \in WorkerRun /\ x.pc = "claim" /\ x.j = j
        BY <2>1, <2>2 DEF WorkerRun
    <2>4. worker' = [worker EXCEPT ![w] = x]
        BY <2>1, <2>2
    <2>5. bulkQueue' \in SUBSET Job
        BY <1>2, BulkTypes DEF Deliver
    <2>6. /\ worker' \in [BulkWorker -> WorkerRun] /\ worker'[w] = x
          /\ \A v \in BulkWorker : v # w => worker'[v] = worker[v]
        BY <2>1, <2>3, <2>4
    <2>7. UNCHANGED <<kind, dryRun, starter, bulkJob, sweep, issued>>
        BY <1>2 DEF Deliver
    <2> QED BY <2>3, <2>5, <2>6, <2>7, IdleStep
<1> QED BY <1>1, <1>2, ClaimStep, OwnerWrites, WorkRowStep

\* The inductive step.
LEMMA BulkStep == BulkInv /\ [BulkNext]_bulkVars => BulkInv'
<1> SUFFICES ASSUME BulkInv, [BulkNext]_bulkVars PROVE BulkInv'
    OBVIOUS
<1>1. CASE UNCHANGED bulkVars
    BY <1>1 DEF bulkVars, BulkInv, BulkTypeOK, NamesJob, OneOwner, Owns, IssuedIsDone,
                RecordedIsWhole, Whole, IssuedAtMostOnce, SucceededIsWhole
<1>2. CASE BulkNext
    BY <1>2, SweepStep, ExpireStep, JobRowStep, StarterStep, WorkerStep DEF BulkNext
<1> QED BY <1>1, <1>2

\* The inductive invariant holds at the start.
LEMMA BulkStart == BulkInit => BulkInv
<1> SUFFICES ASSUME BulkInit PROVE BulkInv
    OBVIOUS
<1>1. BulkTypeOK
    <2>1. [pc |-> "idle", j |-> NoJob] \in StarterCall /\ IdleSweep \in SweepRun
          /\ IdleWorker \in WorkerRun
        BY DEF StarterCall, SweepRun, WorkerRun, IdleWorker, IdleSweep
    <2>2. [st |-> "none", stale |-> FALSE, results |-> {}, file |-> "none", swept |-> FALSE] \in BulkJobRow
        BY DEF BulkJobRow
    <2>3. issued \in [Job -> [BulkRow -> 0..2]]
        BY DEF BulkInit
    <2> QED BY <2>1, <2>2, <2>3 DEF BulkInit, BulkTypeOK
<1>2. \A w \in BulkWorker : worker[w].pc = "idle"
    BY DEF BulkInit, IdleWorker
<1>3. \A j \in Job : bulkJob[j].st = "none"
    BY DEF BulkInit
<1>4. NamesJob /\ OneOwner /\ RecordedIsWhole
    BY <1>2 DEF BulkInit, NamesJob, OneOwner, RecordedIsWhole, Owns, IdleSweep
<1>5. \A j \in Job, r \in BulkRow : issued[j][r] = 0
    BY DEF BulkInit
<1>6. IssuedIsDone /\ IssuedAtMostOnce
    BY <1>2, <1>5 DEF IssuedIsDone, IssuedAtMostOnce
<1> QED BY <1>1, <1>3, <1>4, <1>6 DEF BulkInv, SucceededIsWhole

\* However often the queue hands a job out, whoever crashes, sweeps or gives
\* up on it in between: an import issues no row of a job twice.
THEOREM BulkIssuesOnce == BulkSpec => []IssuedAtMostOnce
<1>1. BulkInv => IssuedAtMostOnce
    BY DEF BulkInv
<1> QED BY <1>1, BulkStart, BulkStep, PTL DEF BulkSpec

\* A job that finishBulkJob made SUCCEEDED lists every row of an import, and
\* an export's ZIP is in place unless the sweep has picked the job up, as
\* interrupted or as past its day.
THEOREM BulkSucceedsWhole == BulkSpec => []SucceededIsWhole
<1>1. BulkInv => SucceededIsWhole
    BY DEF BulkInv
<1> QED BY <1>1, BulkStart, BulkStep, PTL DEF BulkSpec

\* What the steps of the workers do to a row that has ended: the status
\* stands, and nobody owns a job that succeeded.
LEMMA EndedByWorker ==
    ASSUME BulkInv, NEW j \in Job, NEW w \in BulkWorker, bulkJob[j].st \in {"SUCCEEDED", "FAILED"},
           \/ claimJob(w) \/ StarterCheck(w) \/ SaveProgress(w) \/ Record(w)
           \/ WorkerFinish(w) \/ Unlink(w) \/ Rescue(w) \/ WorkerFail(w)
    PROVE  /\ bulkJob'[j].st = bulkJob[j].st
           /\ bulkJob[j].st = "SUCCEEDED" => bulkJob'[j] = bulkJob[j]
<1>0. bulkJob \in [Job -> BulkJobRow]
    BY BulkTypes
<1>1. CASE claimJob(w)
    BY <1>0, <1>1 DEF claimJob, ClaimableJob
<1>2. ASSUME ~claimJob(w) PROVE Owns(w)
    BY <1>2 DEF StarterCheck, SaveProgress, Record, WorkerFinish, Unlink, Rescue, WorkerFail, Owns
<1>3. ASSUME Owns(w)
      PROVE  /\ worker[w].j \in Job
             /\ bulkJob[worker[w].j].st \in {"RUNNING", "FAILED", "deleted"}
             /\ bulkJob[j].st = "SUCCEEDED" => j # worker[w].j
    BY <1>3, OwnerKnows
<1>4. ASSUME Owns(w), StarterCheck(w) \/ Unlink(w) \/ Rescue(w),
             NEW f \in {"none", "part", "zip"}, bulkJob' = [bulkJob EXCEPT ![worker[w].j].file = f]
      PROVE  /\ bulkJob'[j].st = bulkJob[j].st
             /\ bulkJob[j].st = "SUCCEEDED" => bulkJob'[j] = bulkJob[j]
    BY <1>0, <1>3, <1>4, FileRow
<1>5. ASSUME Owns(w), bulkJob' = Progressed(w)
      PROVE  /\ bulkJob'[j].st = bulkJob[j].st
             /\ bulkJob[j].st = "SUCCEEDED" => bulkJob'[j] = bulkJob[j]
    BY <1>0, <1>3, <1>5, ProgressedRow
<1>6. ASSUME Owns(w), NEW st \in {"SUCCEEDED", "FAILED"}, bulkJob' = Finished(worker[w].j, st)
      PROVE  /\ bulkJob'[j].st = bulkJob[j].st
             /\ bulkJob[j].st = "SUCCEEDED" => bulkJob'[j] = bulkJob[j]
    BY <1>0, <1>3, <1>6, FinishedRow DEF ActiveStatus
<1>7. ASSUME Owns(w), bulkJob' = [Progressed(w) EXCEPT ![worker[w].j].file = "zip"]
      PROVE  /\ bulkJob'[j].st = bulkJob[j].st
             /\ bulkJob[j].st = "SUCCEEDED" => bulkJob'[j] = bulkJob[j]
    <2>1. PICK rows : rows = Progressed(w)
        OBVIOUS
    <2>2. PICK i \in Job : i = worker[w].j
        BY <1>3, <1>7
    <2>3. /\ rows \in [Job -> BulkJobRow] /\ rows[i].st = bulkJob[i].st
          /\ \A x \in Job : x # i => rows[x] = bulkJob[x]
        BY <2>1, <2>2, ProgressedRow
    <2>4. /\ bulkJob'[i].st = rows[i].st
          /\ \A x \in Job : x # i => bulkJob'[x] = rows[x]
        BY <1>7, <2>1, <2>2, <2>3, FileRow
    <2> QED BY <1>3, <1>7, <2>2, <2>3, <2>4
<1>8. ASSUME Owns(w)
      PROVE  \/ bulkJob' = bulkJob \/ bulkJob' = Progressed(w)
             \/ bulkJob' = [Progressed(w) EXCEPT ![worker[w].j].file = "zip"]
             \/ \E st \in {"SUCCEEDED", "FAILED"} : bulkJob' = Finished(worker[w].j, st)
             \/ /\ StarterCheck(w) \/ Unlink(w) \/ Rescue(w)
                /\ \E f \in {"none", "part", "zip"} :
                      bulkJob' = [bulkJob EXCEPT ![worker[w].j].file = f]
    BY <1>8 DEF claimJob, StarterCheck, SaveProgress, Record, Recorded, WorkerFinish, Unlink, Rescue,
                WorkerFail, Owns
<1> QED BY <1>1, <1>2, <1>4, <1>5, <1>6, <1>7, <1>8

\* What any step does to it.
LEMMA EndedStays ==
    ASSUME BulkInv, [BulkNext]_bulkVars, NEW j \in Job, bulkJob[j].st \in {"SUCCEEDED", "FAILED"}
    PROVE  /\ bulkJob'[j].st \in {bulkJob[j].st, "deleted"}
           /\ bulkJob[j].st = "SUCCEEDED" /\ bulkJob'[j].st = "SUCCEEDED" =>
                bulkJob'[j].results = bulkJob[j].results
<1>0. bulkJob \in [Job -> BulkJobRow] /\ bulkJob[j] \in BulkJobRow
    BY BulkTypes
<1>1. CASE UNCHANGED bulkJob
    BY <1>1
<1>2. ASSUME NEW w \in BulkWorker,
             \/ claimJob(w) \/ StarterCheck(w) \/ SaveProgress(w) \/ Record(w)
             \/ WorkerFinish(w) \/ Unlink(w) \/ Rescue(w) \/ WorkerFail(w)
      PROVE  /\ bulkJob'[j].st = bulkJob[j].st
             /\ bulkJob[j].st = "SUCCEEDED" => bulkJob'[j] = bulkJob[j]
    BY <1>2, EndedByWorker
<1>3. ASSUME NEW i \in Job, bulkJob' = Finished(i, "FAILED") PROVE bulkJob'[j] = bulkJob[j]
    BY <1>0, <1>3, FinishedRow DEF Finished, ActiveStatus
<1>4. ASSUME NEW i \in Job, SweepFinish(i) PROVE bulkJob'[j] = bulkJob[j]
    BY <1>3, <1>4 DEF SweepFinish
<1>5. ASSUME NEW i \in Job, SweepRemove(i) \/ ExpireRemove(i)
      PROVE  bulkJob'[j].st = bulkJob[j].st /\ bulkJob'[j].results = bulkJob[j].results
    <2>1. bulkJob' = [bulkJob EXCEPT ![i].file = "none"]
        BY <1>5 DEF SweepRemove, ExpireRemove
    <2> QED BY <1>0, <2>1, FileRow
<1>6. ASSUME NEW c \in Starter, StartGivesUp(c) PROVE bulkJob'[j] = bulkJob[j]
    BY <1>3, <1>6 DEF StartGivesUp, BulkInv, NamesJob
<1>7. ASSUME NEW c \in Starter, NEW i \in Job, createBulkJob(c, i) PROVE bulkJob'[j] = bulkJob[j]
    BY <1>0, <1>7 DEF createBulkJob
<1>8. ASSUME NEW i \in Job, GoesStale(i) \/ SweepRead(i) PROVE bulkJob'[j] = bulkJob[j]
    BY <1>0, <1>8 DEF GoesStale, SweepRead, Interrupted, ActiveStatus
<1>9. ASSUME NEW i \in Job, RemoveOrphan(i) PROVE bulkJob'[j] = bulkJob[j]
    BY <1>0, <1>9 DEF RemoveOrphan
<1>10. CASE ExpireRead
    <2>1. PICK ids : bulkJob' = [i \in Job |-> [bulkJob[i] EXCEPT !.swept = @ \/ i \in ids]]
        BY <1>10 DEF ExpireRead
    <2>2. bulkJob'[j] = [bulkJob[j] EXCEPT !.swept = bulkJob[j].swept \/ j \in ids]
        BY <2>1
    <2> QED BY <1>0, <2>2 DEF BulkJobRow
<1>11. CASE ExpireDelete
    <2>1. \/ bulkJob'[j] = bulkJob[j]
          \/ bulkJob'[j] = [bulkJob[j] EXCEPT !.st = "deleted", !.results = {}]
        BY <1>11 DEF ExpireDelete
    <2> QED BY <1>0, <2>1 DEF BulkJobRow
<1> QED BY <1>1, <1>2, <1>4, <1>5, <1>6, <1>7, <1>8, <1>9, <1>10, <1>11 DEF BulkNext, bulkVars, CommitLoad,
           SweepFails, EnqueueJob, DropDryRun, WorkFails, WorkerCrash, Deliver, WorkRow

\* A job ends once (finishBulkJob's condition on the status), and the results
\* of one that succeeded stand, for any number of jobs, workers and starts.
THEOREM BulkOutcomeFinal == BulkSpec => OutcomeIsFinal
<1>1. BulkInv /\ [BulkNext]_bulkVars =>
        [\A j \in Job :
           /\ bulkJob[j].st \in {"SUCCEEDED", "FAILED"} => bulkJob'[j].st \in {bulkJob[j].st, "deleted"}
           /\ bulkJob[j].st = "SUCCEEDED" /\ bulkJob'[j].st = "SUCCEEDED" =>
                bulkJob'[j].results = bulkJob[j].results]_bulkVars
    BY EndedStays
<1> QED BY <1>1, BulkStart, BulkStep, PTL DEF BulkSpec, OutcomeIsFinal

-----------------------------------------------------------------------------
(***************************************************************************)
(* Webhook deliveries, for any number of deliveries and attempts and any   *)
(* rate limit.                                                             *)
(***************************************************************************)

\* A step rewrites one delivery's row and job; it keeps the invariant when the
\* two records it leaves do.
LEMMA OneHook ==
    ASSUME HooksInv, NEW h \in Hook, NEW r \in HookRow, NEW j \in HookJob,
           hook' = [hook EXCEPT ![h] = r], hookJob' = [hookJob EXCEPT ![h] = j],
           hits' \in 0..(RateLimit + 1),
           j.pc \notin {"done", "exhausted"} => j.made < HookAttempts,
           j.pc \in {"done", "exhausted"} => r.delivered \/ r.failed \/ j.cut
    PROVE  HooksInv'
<1> USE DEF HooksInv
<1>1. HooksTypeOK'
    BY DEF HooksTypeOK
<1>2. \A g \in Hook : /\ hook'[g] = IF g = h THEN r ELSE hook[g]
                      /\ hookJob'[g] = IF g = h THEN j ELSE hookJob[g]
    BY DEF HooksTypeOK
<1>3. AttemptsLeft'
    BY <1>2 DEF AttemptsLeft
<1>4. UnsettledOnlyWhenCut'
    BY <1>2 DEF UnsettledOnlyWhenCut
<1> QED BY <1>1, <1>3, <1>4

\* What an attempt that throws leaves of its job.
LEMMA ThrowLeaves ==
    ASSUME HooksInv, NEW h \in Hook, NEW cut \in BOOLEAN, Throw(h, cut),
           hookJob[h].pc \in {"check", "send", "accepted"}
    PROVE  \E j \in HookJob :
             /\ hookJob' = [hookJob EXCEPT ![h] = j]
             /\ j.cut = cut
             /\ j.pc \in {"waiting", "exhausted"}
             /\ j.pc = "waiting" => j.made < HookAttempts
             /\ j.pc = "exhausted" => hookJob[h].made + 1 >= HookAttempts
<1>0. hookJob \in [Hook -> HookJob] /\ hookJob[h] \in HookJob /\ hookJob[h].made < HookAttempts
    BY DEF HooksInv, HooksTypeOK, AttemptsLeft
<1>1. hookJob[h].made \in Nat /\ hookJob[h].made + 1 \in 0..HookAttempts
    BY <1>0, HookAssumption DEF HookJob
<1>2. PICK to \in {"waiting", "exhausted"} :
         to = IF hookJob[h].made + 1 < HookAttempts THEN "waiting" ELSE "exhausted"
    OBVIOUS
<1>3. PICK j : j = [hookJob[h] EXCEPT !.made = hookJob[h].made + 1, !.cut = cut, !.pc = to]
    OBVIOUS
<1>4. j \in HookJob /\ j.made = hookJob[h].made + 1 /\ j.cut = cut /\ j.pc = to
    BY <1>0, <1>1, <1>3 DEF HookJob
<1>5. hookJob' = [hookJob EXCEPT ![h] = j]
    BY <1>0, <1>2, <1>3 DEF Throw
<1>6. j.pc = "waiting" => j.made < HookAttempts
    BY <1>2, <1>4
<1>7. j.pc = "exhausted" => hookJob[h].made + 1 >= HookAttempts
    BY <1>1, <1>2, <1>4, HookAssumption
<1> QED BY <1>2, <1>4, <1>5, <1>6, <1>7

\* The steps of a job keep the invariant.
LEMMA HookStep ==
    ASSUME HooksInv, [HooksNext]_hookVars
    PROVE  HooksInv'
<1>0. /\ hook \in [Hook -> HookRow] /\ hookJob \in [Hook -> HookJob]
      /\ hits \in 0..(RateLimit + 1) /\ RateLimit \in Nat /\ HookAttempts \in Nat
    BY HookAssumption DEF HooksInv, HooksTypeOK
<1>1. ASSUME NEW h \in Hook, NEW r \in HookRow, NEW to,
             to \in {"waiting", "check", "send", "accepted", "done"},
             hook' = [hook EXCEPT ![h] = r], JobGoes(h, to), hits' \in 0..(RateLimit + 1),
             hookJob[h].pc \notin {"done", "exhausted"},
             to = "done" => r.delivered \/ r.failed
      PROVE  HooksInv'
    <2>1. hookJob[h] \in HookJob
        BY <1>0
    <2>2. PICK j : j = [hookJob[h] EXCEPT !.pc = to]
        OBVIOUS
    <2>3. j \in HookJob /\ j.pc = to /\ j.made = hookJob[h].made
        BY <1>1, <2>1, <2>2 DEF HookJob
    <2>4. hookJob' = [hookJob EXCEPT ![h] = j]
        BY <1>0, <1>1, <2>2 DEF JobGoes
    <2>5. hookJob[h].made < HookAttempts
        BY <1>1 DEF HooksInv, AttemptsLeft
    <2> QED BY <1>1, <2>3, <2>4, <2>5, OneHook
<1>2. ASSUME NEW h \in Hook PROVE hook[h] \in HookRow /\ hook = [hook EXCEPT ![h] = hook[h]]
    BY <1>0
<1>3. ASSUME NEW h \in Hook, EmitRow(h) PROVE HooksInv'
    <2>1. PICK r : r = [hook[h] EXCEPT !.st = "open"]
        OBVIOUS
    <2>2. r \in HookRow /\ r.delivered = hook[h].delivered /\ r.failed = hook[h].failed
        BY <1>0, <2>1 DEF HookRow
    <2>3. hook' = [hook EXCEPT ![h] = r] /\ hookJob' = [hookJob EXCEPT ![h] = hookJob[h]]
          /\ hits' = hits /\ hookJob[h] \in HookJob
        BY <1>0, <1>3, <2>1 DEF EmitRow
    <2>4. /\ hookJob[h].pc \notin {"done", "exhausted"} => hookJob[h].made < HookAttempts
          /\ hookJob[h].pc \in {"done", "exhausted"} => r.delivered \/ r.failed \/ hookJob[h].cut
        BY <2>2 DEF HooksInv, AttemptsLeft, UnsettledOnlyWhenCut
    <2> QED BY <1>0, <2>2, <2>3, <2>4, OneHook
<1>4. ASSUME NEW h \in Hook, EmitJob(h) \/ StartAttempt(h) PROVE HooksInv'
    <2>1. hook' = [hook EXCEPT ![h] = hook[h]] /\ hits' = hits /\ hook[h] \in HookRow
        BY <1>2, <1>4 DEF EmitJob, StartAttempt
    <2>2. \/ JobGoes(h, "waiting") /\ hookJob[h].pc = "none"
          \/ JobGoes(h, "check") /\ hookJob[h].pc = "waiting"
        BY <1>4 DEF EmitJob, StartAttempt, JobGoes
    <2> QED BY <1>0, <1>1, <2>1, <2>2
<1>5. ASSUME NEW h \in Hook, RateCheck(h) PROVE HooksInv'
    <2>0. hits' = hits \/ hits' = IF hits <= RateLimit THEN hits + 1 ELSE hits
        BY <1>5 DEF RateCheck, CountedHit
    <2>1. hits' \in 0..(RateLimit + 1) /\ hook' = [hook EXCEPT ![h] = hook[h]]
            /\ hook[h] \in HookRow
        <3>1. hits' \in 0..(RateLimit + 1)
            BY <1>0, <2>0
        <3> QED BY <1>2, <1>5, <3>1 DEF RateCheck
    <2>2. CASE JobGoes(h, "send")
        BY <1>1, <1>2, <1>5, <2>1, <2>2 DEF RateCheck
    <2>3. CASE Throw(h, TRUE)
        <3>1. PICK j \in HookJob :
                 /\ hookJob' = [hookJob EXCEPT ![h] = j]
                 /\ j.cut
                 /\ j.pc \in {"waiting", "exhausted"}
                 /\ j.pc = "waiting" => j.made < HookAttempts
            BY <1>5, <2>3, ThrowLeaves DEF RateCheck
        <3> QED BY <2>1, <3>1, OneHook
    <2> QED BY <1>5, <2>2, <2>3 DEF RateCheck
<1>6. CASE WindowPasses
    BY <1>0, <1>6 DEF WindowPasses, HooksInv, HooksTypeOK, AttemptsLeft, UnsettledOnlyWhenCut
<1>7. ASSUME NEW h \in Hook, PostAccepted(h) \/ PostBlocked(h) \/ MarkDelivered(h) PROVE HooksInv'
    <2>1. ASSUME PostAccepted(h) PROVE HooksInv'
        <3>1. PICK r : r = [hook[h] EXCEPT !.accepted = TRUE]
            OBVIOUS
        <3>2. r \in HookRow /\ hook' = [hook EXCEPT ![h] = r]
            BY <1>0, <2>1, <3>1 DEF HookRow, PostAccepted
        <3> QED BY <1>0, <1>1, <2>1, <3>2 DEF PostAccepted
    <2>2. ASSUME PostBlocked(h) PROVE HooksInv'
        <3>1. PICK r : r = [hook[h] EXCEPT !.failed = TRUE]
            OBVIOUS
        <3>2. r \in HookRow /\ hook' = [hook EXCEPT ![h] = r] /\ r.failed
            BY <1>0, <2>2, <3>1 DEF HookRow, PostBlocked
        <3> QED BY <1>0, <1>1, <2>2, <3>2 DEF PostBlocked
    <2>3. ASSUME MarkDelivered(h) PROVE HooksInv'
        <3>1. PICK r : r = [hook[h] EXCEPT !.delivered = TRUE]
            OBVIOUS
        <3>2. r \in HookRow /\ hook' = [hook EXCEPT ![h] = r] /\ r.delivered
            BY <1>0, <2>3, <3>1 DEF HookRow, MarkDelivered
        <3> QED BY <1>0, <1>1, <2>3, <3>2 DEF MarkDelivered
    <2> QED BY <1>7, <2>1, <2>2, <2>3
<1>8. ASSUME NEW h \in Hook, PostFails(h) \/ MarkFails(h) PROVE HooksInv'
    <2>1. PICK last \in BOOLEAN : last = IsLastAttempt(h)
        <3>1. IsLastAttempt(h) \in BOOLEAN
            BY DEF IsLastAttempt
        <3> QED BY <3>1
    <2>2. \E r \in HookRow : hook' = [hook EXCEPT ![h] = r] /\ (last => r.failed)
        <3>1. PICK f \in BOOLEAN : f = (hook[h].failed \/ last)
            BY <1>0 DEF HookRow
        <3>2. PICK r1, r2 : r1 = [hook[h] EXCEPT !.failed = f]
                            /\ r2 = [hook[h] EXCEPT !.failed = f, !.accepted = TRUE]
            OBVIOUS
        <3>3. r1 \in HookRow /\ r2 \in HookRow /\ (last => r1.failed /\ r2.failed)
            BY <1>0, <3>1, <3>2 DEF HookRow
        <3>4. FailureNoted(h) = [hook EXCEPT ![h] = r1]
            BY <1>0, <2>1, <3>1, <3>2 DEF FailureNoted
        <3>5. [FailureNoted(h) EXCEPT ![h].accepted = TRUE] = [hook EXCEPT ![h] = r2]
            BY <1>0, <3>2, <3>4 DEF HookRow
        <3> QED BY <1>8, <3>3, <3>4, <3>5 DEF PostFails, MarkFails
    <2>3. Throw(h, FALSE) /\ hits' = hits /\ hookJob[h].pc \in {"send", "accepted"}
        BY <1>8 DEF PostFails, MarkFails
    <2>4. PICK j \in HookJob :
             /\ hookJob' = [hookJob EXCEPT ![h] = j]
             /\ j.pc \in {"waiting", "exhausted"}
             /\ j.pc = "waiting" => j.made < HookAttempts
             /\ j.pc = "exhausted" => last
        BY <2>1, <2>3, ThrowLeaves DEF IsLastAttempt
    <2> QED BY <1>0, <2>2, <2>3, <2>4, OneHook
<1>9. ASSUME NEW h \in Hook, Stall(h) PROVE HooksInv'
    <2>1. PICK to \in {"waiting", "exhausted"} :
             to = IF hookJob[h].stalled THEN "exhausted" ELSE "waiting"
        OBVIOUS
    <2>2. PICK j : j = [hookJob[h] EXCEPT !.stalled = TRUE, !.cut = TRUE, !.pc = to]
        OBVIOUS
    <2>3. j \in HookJob /\ j.cut /\ j.pc = to /\ j.made = hookJob[h].made
        BY <1>0, <2>1, <2>2 DEF HookJob
    <2>4. hookJob' = [hookJob EXCEPT ![h] = j] /\ hook' = [hook EXCEPT ![h] = hook[h]]
        BY <1>0, <1>9, <2>1, <2>2 DEF Stall
    <2>5. hookJob[h].made < HookAttempts /\ hits' = hits
        BY <1>9 DEF Stall, HooksInv, AttemptsLeft
    <2> QED BY <1>0, <1>2, <2>1, <2>3, <2>4, <2>5, OneHook
<1>10. ASSUME NEW h \in Hook, NoteFails(h) PROVE HooksInv'
    <2>1. \E r \in HookRow : hook' = [hook EXCEPT ![h] = r]
        <3>1. PICK r : r = [hook[h] EXCEPT !.accepted = TRUE]
            OBVIOUS
        <3>2. r \in HookRow /\ [hook EXCEPT ![h].accepted = TRUE] = [hook EXCEPT ![h] = r]
            BY <1>0, <3>1 DEF HookRow
        <3> QED BY <1>2, <1>10, <3>2 DEF NoteFails
    <2>2. PICK j \in HookJob :
             /\ hookJob' = [hookJob EXCEPT ![h] = j]
             /\ j.cut
             /\ j.pc \in {"waiting", "exhausted"}
             /\ j.pc = "waiting" => j.made < HookAttempts
        BY <1>10, ThrowLeaves DEF NoteFails
    <2> QED BY <1>0, <1>10, <2>1, <2>2, OneHook DEF NoteFails
<1>11. CASE UNCHANGED hookVars
    BY <1>11 DEF hookVars, HooksInv, HooksTypeOK, AttemptsLeft, UnsettledOnlyWhenCut
<1> QED BY <1>3, <1>4, <1>5, <1>6, <1>7, <1>8, <1>9, <1>10, <1>11 DEF HooksNext

\* A delivery the queue is done with is settled in its row unless its last
\* attempt met the rate limit, stopped or could not write its outcome (the
\* webhook worker of workers/index.ts).
THEOREM HooksSettle == HooksSpec => []UnsettledOnlyWhenCut
<1>1. HooksInit => HooksInv
    BY HookAssumption DEF HooksInit, HooksInv, HooksTypeOK, HookRow, HookJob, AttemptsLeft,
                          UnsettledOnlyWhenCut
<1>2. HooksInv => UnsettledOnlyWhenCut
    BY DEF HooksInv
<1> QED BY <1>1, <1>2, HookStep, PTL DEF HooksSpec

=============================================================================
