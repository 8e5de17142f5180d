------------------------- MODULE MCSessionsAndJobs -------------------------
(***************************************************************************)
(* Sign-in sessions and bulk jobs, side by side: two tables whose rows     *)
(* must reach an end although the requests and workers that own them may   *)
(* stop.  They share no state; a behaviour is a behaviour of one of the    *)
(* two, the other stays in its initial state, in which none of its fair    *)
(* actions is enabled.                                                     *)
(***************************************************************************)
EXTENDS AuthSession, BulkJobs

VARIABLE focus    \* the component this behaviour is about

BothInit ==
    /\ focus \in {"sessions", "jobs"}
    /\ Init /\ BulkInit
    /\ focus # "jobs" => kind = "IMPORT"

BothNext ==
    /\ UNCHANGED focus
    /\ \/ focus = "sessions" /\ Next /\ UNCHANGED bulkVars
       \/ focus = "jobs" /\ BulkNext /\ UNCHANGED vars

BothSpec ==
    BothInit /\ [][BothNext]_<<focus, vars, bulkVars>> /\ BulkFairness

=============================================================================
