-------------------------- MODULE RenderSemaphore --------------------------
(***************************************************************************)
(* The in-process limiter for image rendering (packages/api/src/lib/       *)
(* semaphore.ts): limit slots, two lanes of waiters of which issue is      *)
(* served first, refusal of a full lane, a timeout and an abort signal.    *)
(* JavaScript runs acquire, release and each timer or abort callback to    *)
(* its end, so each is one action.                                         *)
(***************************************************************************)
EXTENDS Naturals, FiniteSets, Sequences, SequencesExt

CONSTANTS
    Task,       \* callers of run(), each once
    Limit,      \* options.limit
    MaxQueue    \* options.maxQueue

ASSUME SemaphoreAssumption ==
    /\ Limit \in Nat \ {0}
    /\ MaxQueue \in Nat

VARIABLES
    active,     \* this.active
    lanes,      \* this.lanes
    state       \* where each caller is

semVars == <<active, lanes, state>>

-----------------------------------------------------------------------------

Lane == {"issue", "export"}

SemTypeOK ==
    /\ active \in Nat
    /\ lanes \in [Lane -> Seq(Task)]
    /\ state \in [Task -> {"new", "waiting", "running", "done", "full", "timeout", "aborted"}]

SemInit ==
    /\ active = 0
    /\ lanes = [l \in Lane |-> <<>>]
    /\ state = [t \in Task |-> "new"]

Queued == Len(lanes["issue"]) + Len(lanes["export"])

\* acquire, its first branch: a slot for a caller that overtakes nobody.
FreeSlot == active < Limit /\ Queued = 0
Enter(t) ==
    /\ state[t] = "new"
    /\ FreeSlot
    /\ active' = active + 1
    /\ state' = [state EXCEPT ![t] = "running"]
    /\ UNCHANGED lanes

\* acquire: the caller waits at the end of its lane, or is refused.
LaneFull(l) == Len(lanes[l]) >= MaxQueue
Wait(t, l) ==
    /\ state[t] = "new"
    /\ ~FreeSlot
    /\ ~LaneFull(l)
    /\ lanes' = [lanes EXCEPT ![l] = Append(@, t)]
    /\ state' = [state EXCEPT ![t] = "waiting"]
    /\ UNCHANGED active
Refuse(t, l) ==
    /\ state[t] = "new"
    /\ ~FreeSlot
    /\ LaneFull(l)
    /\ state' = [state EXCEPT ![t] = "full"]
    /\ UNCHANGED <<active, lanes>>

\* An already aborted signal is refused before anything else.
AbortedEarly(t) ==
    /\ state[t] = "new"
    /\ state' = [state EXCEPT ![t] = "aborted"]
    /\ UNCHANGED <<active, lanes>>

\* The timer or the abort signal of a waiter: it leaves its lane.
Cancel(t, why) ==
    /\ state[t] = "waiting"
    /\ \E l \in Lane : \E at \in 1 .. Len(lanes[l]) :
         lanes[l][at] = t /\ lanes' = [lanes EXCEPT ![l] = RemoveAt(@, at)]
    /\ state' = [state EXCEPT ![t] = why]
    /\ UNCHANGED active
TimeOut(t) == Cancel(t, "timeout")
Abort(t)   == Cancel(t, "aborted")

\* The task settles, with a result or an error, and release() hands the
\* slot to the first issue waiter, else to the first export waiter.
NextLane ==
    IF lanes["issue"] # <<>> THEN {"issue"}
    ELSE {l \in {"export"} : lanes[l] # <<>>}
FinishForgets(t) ==  \* mutant
    /\ state[t] = "running"
    /\ active' = active - 1
    /\ state' = [state EXCEPT ![t] = "done"]
    /\ UNCHANGED lanes
Settle(t) ==
    /\ state[t] = "running"
    /\ IF NextLane = {}
       THEN /\ active' = active - 1
            /\ state' = [state EXCEPT ![t] = "done"]
            /\ UNCHANGED lanes
       ELSE \E l \in NextLane :
            /\ lanes' = [lanes EXCEPT ![l] = Tail(@)]
            /\ state' = [state EXCEPT ![t] = "done", ![Head(lanes[l])] = "running"]
            /\ UNCHANGED active

SemNext ==
    \E t \in Task :
        \/ Enter(t) \/ AbortedEarly(t) \/ TimeOut(t) \/ Abort(t) \/ Settle(t)
        \/ \E l \in Lane : Wait(t, l) \/ Refuse(t, l)

SemSpec == SemInit /\ [][SemNext]_semVars

\* Rendering a task ends, with a result or an error.
SemFairness == \A t \in Task : WF_semVars(Settle(t))

SemFairSpec == SemSpec /\ SemFairness

-----------------------------------------------------------------------------
(* Properties *)

\* Who holds a slot.
Rendering == {t \in Task : state[t] = "running"}

\* The slots balance through every grant, timeout and abort, also when they
\* come in the same turn: active is the number of tasks rendering and never
\* above the limit, the lanes hold exactly the callers that wait, and nobody
\* waits while a slot is free (with FreeSlot: nobody overtakes either).
SlotsBalance ==
    /\ active = Cardinality(Rendering)
    /\ active <= Limit
    /\ \A t \in Task : state[t] = "waiting" <=> \E l \in Lane : t \in ToSet(lanes[l])
    /\ Queued > 0 => active = Limit

\* Every caller in the issue lane gets its answer: a slot, a timeout or an
\* abort.
IssueLaneDrains ==
    \A t \in Task : t \in ToSet(lanes["issue"]) ~> t \notin ToSet(lanes["issue"])

-----------------------------------------------------------------------------
(* The inductive invariant.                                                *)

\* A waiter is in one lane, at one place, so that a cancelled one is gone.
OnePlace ==
    \A l, m \in Lane : \A i \in 1 .. Len(lanes[l]), j \in 1 .. Len(lanes[m]) :
        lanes[l][i] = lanes[m][j] => l = m /\ i = j

SemInv == SemTypeOK /\ IsFiniteSet(Rendering) /\ OnePlace /\ SlotsBalance

=============================================================================
