----------------------------- MODULE AuthStream -----------------------------
(***************************************************************************)
(* The event streams of GET /auth-sessions/:id/sse on top of AuthSession.  *)
(* The handler reads the row, and only after that await registers its      *)
(* callback in the subscriber map of its process; notifySubscribers runs   *)
(* in another request, some time after that request's write and only when  *)
(* the calls in between succeed, and finds the callbacks of its own        *)
(* process.  Every step of AuthSession is a step here: its Notify calls    *)
(* the callbacks registered for the session at that moment, and a request  *)
(* that fails before it tells nobody.                                      *)
(*                                                                         *)
(* A stream is the connection's id; the verifier of a PKCE session is one  *)
(* flag (it matches the challenge or not).  Heartbeats change nothing.     *)
(* Which process serves a request matters only when it notifies, so it is  *)
(* chosen there.                                                           *)
(***************************************************************************)
EXTENDS AuthSession

CONSTANTS
    Conn,          \* event-stream connections
    PublicPkce,    \* sessions a public client created with a code challenge
    Proc           \* API server processes

ASSUME StreamAssumption ==
    /\ PublicPkce \subseteq Session
    /\ None \notin Conn

VARIABLES
    stream,     \* each connection's handler
    listening   \* subscribers: the connections registered per session, all processes'

streamVars == <<stream, listening>>
streamAll == <<row, past, claimed, gone, req, approvals, reopened, stream, listening>>

Stream == [pc : {"new", "read", "open", "ended"}, s : Session \cup {None},
           home : Proc \cup {None}, saw : Status \cup {None},
           told : Resolved \cup {None}, late : BOOLEAN, missed : BOOLEAN]

StreamTypeOK ==
    /\ stream \in [Conn -> Stream]
    /\ listening \in [Session -> SUBSET Conn]

StreamInit ==
    /\ Init
    /\ stream = [c \in Conn |-> [pc |-> "new", s |-> None, home |-> None,
                                 saw |-> None, told |-> None,
                                 late |-> FALSE, missed |-> FALSE]]
    /\ listening = [s \in Session |-> {}]

-----------------------------------------------------------------------------

\* A public client must present the verifier of its PKCE session before
\* anything is streamed; the handler answers 403 otherwise.
MayStream(s, verifier) == s \notin PublicPkce \/ verifier

\* GET /:id/sse up to the row it reads (getSession, which first expires a
\* lapsed row: that is AuthSession's Poll, and the stream then sees it).
StreamRead(c, s) ==
    /\ stream[c].pc = "new"
    /\ Exists(s)
    /\ ~Lapsed(s)
    /\ \E verifier \in BOOLEAN, p \in Proc :
          stream' = IF MayStream(s, verifier)
                    THEN [stream EXCEPT ![c].pc = "read", ![c].s = s, ![c].home = p,
                                        ![c].saw = row[s].status]
                    ELSE [stream EXCEPT ![c].pc = "ended", ![c].s = s]
    /\ UNCHANGED <<vars, listening>>

\* The same continuation answers: a row read as resolved ends the stream
\* with its final event, any other registers the callback.  late records
\* that the row was already resolved, and its event delivered, by now.
Announcing(s) ==
    \E r \in Req : req[r].pc = "notify" /\ req[r].s = s /\ req[r].ev \in Resolved
Subscription(c, s) == [listening EXCEPT ![s] = @ \cup {c}]
StreamSubscribe(c) ==
    LET s == stream[c].s IN
    /\ stream[c].pc = "read"
    /\ IF stream[c].saw \in Resolved
       THEN /\ stream' = [stream EXCEPT ![c].pc = "ended", ![c].told = stream[c].saw]
            /\ UNCHANGED listening
       ELSE /\ stream' = [stream EXCEPT ![c].pc = "open",
                             ![c].late = row[s].status \notin Open /\ ~Announcing(s)]
            /\ listening' = Subscription(c, s)
    /\ UNCHANGED vars

\* The client goes away (the close handler unsubscribes) or the stream's
\* process stops, and its subscriber map with it.
StreamClose(c) ==
    /\ stream[c].pc = "open"
    /\ stream' = [stream EXCEPT ![c].pc = "ended"]
    /\ listening' = [listening EXCEPT ![stream[c].s] = @ \ {c}]
    /\ UNCHANGED vars

\* The event of a resolving request reaches the callbacks in reached: each
\* writes it, and a terminal event also ends the response, whose close
\* handler then removes the callback.  missed records that an event for the
\* session went out, or was lost, without reaching this registered stream.
Called(w, ev) == [w EXCEPT !.pc = "ended", !.told = ev]
DeliveredApprovals(s, ev, reached) ==  \* mutant
    IF ev # "APPROVED" THEN stream
    ELSE [c \in Conn |-> IF c \in reached THEN Called(stream[c], ev)
                         ELSE [stream[c] EXCEPT !.missed = @ \/ c \in listening[s]]]
Delivered(s, ev, reached) ==
    IF ev \notin Resolved THEN stream
    ELSE [c \in Conn |-> IF c \in reached THEN Called(stream[c], ev)
                         ELSE [stream[c] EXCEPT !.missed = @ \/ c \in listening[s]]]
Announce(r, reached) ==
    LET s == req[r].s
        ev == req[r].ev
    IN
    /\ stream' = Delivered(s, ev, reached)
    /\ listening' = IF ev \in Resolved THEN [listening EXCEPT ![s] = @ \ reached] ELSE listening

\* notifySubscribers in process p calls the callbacks of that process.
StreamNotify(r, p) ==
    /\ Notify(r)
    /\ Announce(r, {c \in listening[req[r].s] : stream[c].home = p})

\* The request fails between its write and notifySubscribers.
StreamNotifyLost(r) ==
    /\ req[r].pc = "notify"
    /\ RequestFails(r)
    /\ Announce(r, {})

\* Any other step of the session leaves the streams alone.
SessionStep ==
    /\ Next
    /\ \A r \in Req : req[r].pc = "notify" => req'[r].pc = "notify"
    /\ UNCHANGED streamVars

StreamNext ==
    \/ SessionStep
    \/ \E r \in Req, p \in Proc : StreamNotify(r, p)
    \/ \E r \in Req : StreamNotifyLost(r)
    \/ \E c \in Conn, s \in Session : StreamRead(c, s)
    \/ \E c \in Conn : StreamSubscribe(c) \/ StreamClose(c)

StreamSpec == StreamInit /\ [][StreamNext]_streamAll

-----------------------------------------------------------------------------
(* Properties *)

\* An open stream of a resolved session is silent for one of three reasons
\* only: the resolving request has not come to notifySubscribers yet; the
\* stream read the row before the resolving write and registered after its
\* notification (late); or that notification was lost to a failing call
\* after the write, or ran in another process (missed).  A session opened
\* again by a late scan is announced again, and a claimed account's
\* approval, which ClaimAccount expires without an event, was announced when
\* it was given.
SilenceExplained ==
    \A c \in Conn :
        stream[c].pc = "open" /\ row[stream[c].s].status \in Resolved =>
            Announcing(stream[c].s) \/ stream[c].late \/ stream[c].missed

-----------------------------------------------------------------------------
(* The inductive invariant behind SilenceExplained *)

\* A stream past its read names its session, and an open one is registered
\* there, so that the next notification of the session reaches it.
OpenIsRegistered ==
    \A c \in Conn :
        /\ stream[c].pc \in {"read", "open"} => stream[c].s \in Session
        /\ stream[c].pc = "open" => c \in listening[stream[c].s]

StreamInv == IInv /\ StreamTypeOK /\ OpenIsRegistered /\ SilenceExplained

=============================================================================
