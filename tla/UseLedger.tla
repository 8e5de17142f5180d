----------------------------- MODULE UseLedger -----------------------------
(***************************************************************************)
(* What an ephemeral session promises its creator: a budget of maxUses,    *)
(* handed out one use at a time.  The n-th successful claim is told that   *)
(* it is the n-th, the last one closes the session, and a closed session   *)
(* never hands out another use.                                            *)
(***************************************************************************)
EXTENDS Naturals, Sequences

CONSTANT Device         \* who may claim (NoDevice among them: no fingerprint)

VARIABLES
    budget,             \* the uses granted at creation
    open,               \* claims may still succeed
    uses                \* the successful claims so far, in order

ledgerVars == <<budget, open, uses>>

Use == [dev : Device, n : Nat]

LedgerInit == budget = 0 /\ open = FALSE /\ uses = <<>>

Grant ==
    /\ budget = 0
    /\ budget' \in Nat \ {0}
    /\ open' = TRUE
    /\ uses' = <<>>

Spend(d) ==
    /\ open
    /\ Len(uses) < budget
    /\ uses' = Append(uses, [dev |-> d, n |-> Len(uses) + 1])
    /\ open' = (Len(uses) + 1 < budget)
    /\ UNCHANGED budget

Close ==
    /\ open
    /\ open' = FALSE
    /\ UNCHANGED <<budget, uses>>

LedgerNext == Grant \/ Close \/ \E d \in Device : Spend(d)

LedgerSpec == LedgerInit /\ [][LedgerNext]_ledgerVars

=============================================================================
