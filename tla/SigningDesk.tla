---------------------------- MODULE SigningDesk ----------------------------
(***************************************************************************)
(* What the batch signer promises its callers.  A payload is accepted once *)
(* while the desk is open and answered once, together with its whole       *)
(* batch; who is told yes finds that batch stored.  After closing, what    *)
(* was accepted is still answered and everything else is refused.  How     *)
(* payloads are collected, timed and queued behind one another is hidden.  *)
(***************************************************************************)
CONSTANT Item     \* payloads to be signed

VARIABLES
    open,         \* payloads are accepted
    pending,      \* accepted and not answered
    stored,       \* the batches in the table
    yes,          \* told that their batch is signed
    no            \* told that it is not

deskVars == <<open, pending, stored, yes, no>>

DeskInit == open = TRUE /\ pending = {} /\ stored = {} /\ yes = {} /\ no = {}

Fresh(i) == i \notin pending \cup yes \cup no

Accept(i) ==
    /\ open /\ Fresh(i)
    /\ pending' = pending \cup {i}
    /\ UNCHANGED <<open, stored, yes, no>>
Refuse(i) ==
    /\ ~open /\ Fresh(i)
    /\ no' = no \cup {i}
    /\ UNCHANGED <<open, pending, stored, yes>>

\* A batch of pending payloads is stored and granted as a whole ...
GrantBatch(b) ==
    /\ pending' = pending \ b
    /\ stored' = stored \cup {b}
    /\ yes' = yes \cup b
    /\ UNCHANGED <<open, no>>
\* ... or declined as a whole, whether or not its row got stored.
DeclineBatch(b) ==
    /\ pending' = pending \ b
    /\ stored' \in {stored, stored \cup {b}}
    /\ no' = no \cup b
    /\ UNCHANGED <<open, yes>>

CloseDesk ==
    /\ open
    /\ open' = FALSE
    /\ UNCHANGED <<pending, stored, yes, no>>

DeskNext ==
    \/ \E i \in Item : Accept(i) \/ Refuse(i)
    \/ \E b \in SUBSET pending : b # {} /\ (GrantBatch(b) \/ DeclineBatch(b))
    \/ CloseDesk

DeskSpec == DeskInit /\ [][DeskNext]_deskVars

=============================================================================
