----------------------------- MODULE MCIssuing -----------------------------
(***************************************************************************)
(* The two queues an issuance passes in one process, side by side: the     *)
(* batch signer and the render limiter.  They share no state; a behaviour  *)
(* is a behaviour of one of the two, the other stays in its initial state, *)
(* in which none of its fair actions is enabled.                           *)
(***************************************************************************)
EXTENDS BatchSigner, RenderSemaphore

VARIABLE focus    \* the component this behaviour is about

IssuingInit == focus \in {"signer", "render"} /\ SignerInit /\ SemInit

IssuingNext ==
    /\ UNCHANGED focus
    /\ \/ focus = "signer" /\ SignerNext /\ UNCHANGED semVars
       \/ focus = "render" /\ SemNext /\ UNCHANGED signerVars

IssuingSpec ==
    IssuingInit /\ [][IssuingNext]_<<focus, signerVars, semVars>> /\ SignerFairness /\ SemFairness

=============================================================================
