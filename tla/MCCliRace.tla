----------------------------- MODULE MCCliRace -----------------------------
(***************************************************************************)
(* What waits for the approval of a session, side by side: the exchange    *)
(* of a CLI session for its key, and the event streams.  Both are built on *)
(* AuthSession; a behaviour has either exchanges and membership changes or *)
(* streams.  Users and requests are interchangeable.                       *)
(***************************************************************************)
EXTENDS CliExchange, AuthStream, TLC

VARIABLE focus    \* what this behaviour has on top of the sessions

RaceInit ==
    /\ focus \in {"exchange", "stream"}
    /\ CliInit /\ StreamInit
    /\ focus = "stream" => \A u \in User : role[u] = "OWNER"

RaceNext ==
    /\ UNCHANGED focus
    /\ \/ focus = "exchange" /\ CliNext /\ UNCHANGED streamVars
       \/ focus = "stream" /\ StreamNext /\ UNCHANGED <<role, invite, erasing, keyVars>>

RaceSpec == RaceInit /\ [][RaceNext]_<<focus, allVars, streamVars>>

Symmetry ==
    Permutations(User) \cup Permutations(Req) \cup Permutations(Xreq) \cup Permutations(Proc)

=============================================================================
