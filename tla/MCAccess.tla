------------------------------ MODULE MCAccess ------------------------------
(***************************************************************************)
(* Standing access and its withdrawal, side by side: the key of a CLI      *)
(* session under membership changes, and the tokens of an OpenID grant     *)
(* under rotation, replay and revocation.  They share no state; a          *)
(* behaviour is a behaviour of one of the two, the other stays in its      *)
(* initial state.  Users and exchange requests are interchangeable.        *)
(***************************************************************************)
EXTENDS CliExchange, OidcGrant, TLC

VARIABLE focus    \* the component this behaviour is about

AccessInit ==
    /\ focus \in {"cli", "grant"}
    /\ CliInit /\ GrantInit
    /\ focus # "cli" => \A u \in User : role[u] = "OWNER"

AccessNext ==
    /\ UNCHANGED focus
    /\ \/ focus = "cli" /\ CliNext /\ UNCHANGED grantVars
       \/ focus = "grant" /\ GrantNext /\ UNCHANGED allVars

AccessSpec == AccessInit /\ [][AccessNext]_<<focus, allVars, grantVars>>

Symmetry == Permutations(User) \cup Permutations(Xreq)

=============================================================================
