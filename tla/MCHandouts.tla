----------------------------- MODULE MCHandouts -----------------------------
(***************************************************************************)
(* Components that hand something out once, side by side: ephemeral        *)
(* sessions, memberships, sign-ins at the OpenID provider, the issuance    *)
(* log and webhook deliveries.  They share no state; a behaviour is a      *)
(* behaviour of one of them, the others stay in their initial states (of   *)
(* Membership's many, the one with owners only).  Requests and devices of  *)
(* the ephemeral session are interchangeable.                              *)
(***************************************************************************)
EXTENDS EphemeralSession, Membership, IssuanceLog, OidcLogin, WebhookDelivery, TLC

VARIABLE focus    \* the component this behaviour is about

HandoutsInit ==
    /\ focus \in {"ephemeral", "members", "log", "login", "hooks"}
    /\ Init /\ MemberInit /\ LogInit /\ LoginInit /\ HooksInit
    /\ focus # "members" => \A u \in User : role[u] = "OWNER"

HandoutsNext ==
    /\ UNCHANGED focus
    /\ \/ /\ focus = "ephemeral" /\ Next
          /\ UNCHANGED <<memberVars, logVars, loginVars, hookVars>>
       \/ /\ focus = "members" /\ MemberNext
          /\ UNCHANGED <<vars, logVars, loginVars, hookVars>>
       \/ /\ focus = "log" /\ LogNext
          /\ UNCHANGED <<vars, memberVars, loginVars, hookVars>>
       \/ /\ focus = "login" /\ LoginNext
          /\ UNCHANGED <<vars, memberVars, logVars, hookVars>>
       \/ /\ focus = "hooks" /\ HooksNext
          /\ UNCHANGED <<vars, memberVars, logVars, loginVars>>

HandoutsSpec ==
    HandoutsInit /\ [][HandoutsNext]_<<focus, vars, memberVars, logVars, loginVars, hookVars>>

Symmetry == Permutations(Req) \cup Permutations(Device)

=============================================================================
