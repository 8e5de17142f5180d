---------------------------- MODULE LoginWidget ----------------------------
(***************************************************************************)
(* The <qrauth-login> element in button mode (packages/web-components).    *)
(* Everything runs on the page's event loop, and every await - generating  *)
(* the PKCE verifier, creating the session, polling it - lets the user     *)
(* close and reopen the modal meanwhile.  A poll loop belongs to one       *)
(* session, but the status, the session id, the verifier and the timer     *)
(* handles are fields of the element that all loops share.                 *)
(*                                                                         *)
(* An attempt is one call of _startAuth; its verifier and the session it   *)
(* creates carry its number.  The API side of the session is what          *)
(* routes/auth-sessions.ts answers (AuthSession models it in full).        *)
(***************************************************************************)
EXTENDS Naturals

CONSTANTS
    MaxAttempts,   \* how often the page starts a sign-in
    Absent         \* null

ASSUME WidgetAssumption ==
    /\ MaxAttempts \in Nat \ {0}
    /\ Absent \notin Nat

Attempt == 1..MaxAttempts

VARIABLES
    api,        \* the status of each attempt's session at the API
    lapsed,     \* sessions whose expiresAt has passed
    widget,     \* status, session id, verifier, modal visibility, pending auto-close
    starting,   \* how far each _startAuth call has come
    loop,       \* each session's poll loop
    pollTimer,  \* _pollTimeout: the loop whose pending timer the element can clear
    countdown,  \* _timerInterval: the running countdown it can clear
    nameless    \* history: a qrauth:authenticated event was emitted without a user

widgetVars == <<api, lapsed, widget, starting, loop, pollTimer, countdown, nameless>>

WidgetFinal == {"APPROVED", "DENIED", "EXPIRED"}
ApiStatus == {"NONE", "PENDING", "SCANNED"} \cup WidgetFinal
\* "undefined" is data.status of an answer without a status (403, 404, 429).
Shown == {"idle", "loading", "pending", "PENDING", "SCANNED", "error", "undefined"} \cup WidgetFinal
Answer == [st : ApiStatus \cup {"undefined"}, user : BOOLEAN]
Loop == [at : {"none", "timer", "sent", "answered", "ended"}, last : ApiStatus \cup {"undefined"},
         ver : Attempt \cup {Absent}, answer : Answer \cup {Absent}]

WidgetTypeOK ==
    /\ api \in [Attempt -> ApiStatus]
    /\ lapsed \in SUBSET Attempt
    /\ widget \in [status : Shown, sid : Attempt \cup {Absent}, ver : Attempt \cup {Absent},
                   shown : BOOLEAN, closing : BOOLEAN]
    /\ starting \in [Attempt -> {"unused", "verifier", "create", "done"}]
    /\ loop \in [Attempt -> Loop]
    /\ pollTimer \in Attempt \cup {Absent}
    /\ countdown \in BOOLEAN
    /\ nameless \in BOOLEAN

NoLoop == [at |-> "none", last |-> "PENDING", ver |-> Absent, answer |-> Absent]
EndedLoop == [NoLoop EXCEPT !.at = "ended"]
ClosedWidget(closing) ==
    [status |-> "idle", sid |-> Absent, ver |-> Absent, shown |-> FALSE, closing |-> closing]

WidgetInit ==
    /\ api = [k \in Attempt |-> "NONE"]
    /\ lapsed = {}
    /\ widget = ClosedWidget(FALSE)
    /\ starting = [k \in Attempt |-> "unused"]
    /\ loop = [k \in Attempt |-> NoLoop]
    /\ pollTimer = Absent
    /\ countdown = FALSE
    /\ nameless = FALSE

-----------------------------------------------------------------------------
(* Shared helpers of the element *)

\* _clearTimers: the timer the element still holds a handle of never fires.
ClearTimers(l) ==
    IF pollTimer # Absent
    THEN [l EXCEPT ![pollTimer] = EndedLoop] ELSE l

NextAttempt(k) == starting[k] = "unused" /\ \A j \in Attempt : j < k => starting[j] # "unused"

\* _handleStatusChange for a final status, with the loops l: timers are
\* cleared; an approval without the user is an error as long as the element
\* holds a verifier, and otherwise it is announced and the modal closes
\* 2.2 s later by a timeout nothing cancels.
Reported(st, user) == st = "APPROVED" /\ ~(widget.ver # Absent /\ ~user)
HandleFinal(st, user, l) ==
    /\ loop' = ClearTimers(l)
    /\ pollTimer' = Absent
    /\ countdown' = FALSE
    /\ nameless' = (nameless \/ (Reported(st, user) /\ ~user))
    /\ widget' = [widget EXCEPT
                    !.status = IF st = "APPROVED" /\ ~Reported(st, user) THEN "error" ELSE st,
                    !.closing = @ \/ Reported(st, user)]

-----------------------------------------------------------------------------
(* The user and the page *)

\* The open button: _openModal, then _startAuth up to its first await.
OpenModal(k) ==
    /\ ~widget.shown
    /\ NextAttempt(k)
    /\ widget' = [widget EXCEPT !.shown = TRUE, !.status = "loading"]
    /\ starting' = [starting EXCEPT ![k] = "verifier"]
    /\ UNCHANGED <<api, lapsed, loop, pollTimer, countdown, nameless>>

\* The retry button of a failed sign-in: _retry resets the element and
\* starts again.
RetryClick(k) ==
    /\ widget.shown
    /\ widget.status \in {"DENIED", "EXPIRED", "error"}
    /\ NextAttempt(k)
    /\ loop' = ClearTimers(loop)
    /\ pollTimer' = Absent
    /\ countdown' = FALSE
    /\ widget' = [ClosedWidget(widget.closing) EXCEPT !.shown = TRUE, !.status = "loading"]
    /\ starting' = [starting EXCEPT ![k] = "verifier"]
    /\ UNCHANGED <<api, lapsed, nameless>>

\* _closeModal: the timers held are cleared and the fields reset.
ResetWidget(closing) ==
    /\ widget' = ClosedWidget(closing)
    /\ loop' = ClearTimers(loop)
    /\ pollTimer' = Absent
    /\ countdown' = FALSE
    /\ UNCHANGED <<api, lapsed, starting, nameless>>
CloseModal == widget.shown /\ ResetWidget(widget.closing)

\* The timeout of a reported approval closes whatever is open by then.
AutoClose == widget.closing /\ ResetWidget(FALSE)

\* _startAuth: the verifier is generated and kept in the element ...
VerifierReady(k) ==
    /\ starting[k] = "verifier"
    /\ widget' = [widget EXCEPT !.ver = k]
    /\ starting' = [starting EXCEPT ![k] = "create"]
    /\ UNCHANGED <<api, lapsed, loop, pollTimer, countdown, nameless>>

\* ... and the created session is shown, counted down and polled, whatever
\* has become of the modal since.
SessionCreated(k) ==
    /\ starting[k] = "create"
    /\ starting' = [starting EXCEPT ![k] = "done"]
    /\ api' = [api EXCEPT ![k] = "PENDING"]
    /\ widget' = [widget EXCEPT !.sid = k, !.status = "pending"]
    /\ countdown' = TRUE
    /\ loop' = [loop EXCEPT ![k] = [NoLoop EXCEPT !.at = "timer"]]
    /\ pollTimer' = k
    /\ UNCHANGED <<lapsed, nameless>>

\* The creation is refused or the network fails.
StartFails(k) ==
    /\ starting[k] = "create"
    /\ starting' = [starting EXCEPT ![k] = "done"]
    /\ widget' = [widget EXCEPT !.status = "error"]
    /\ UNCHANGED <<api, lapsed, loop, pollTimer, countdown, nameless>>

\* The countdown of the shown session reaches zero.
CountdownEnds ==
    /\ countdown
    /\ widget.sid \in lapsed
    /\ IF widget.status \in {"pending", "SCANNED"}
       THEN HandleFinal("EXPIRED", FALSE, loop)
       ELSE countdown' = FALSE /\ UNCHANGED <<widget, loop, pollTimer, nameless>>
    /\ UNCHANGED <<api, lapsed, starting>>

-----------------------------------------------------------------------------
(* Poll loops *)

\* poll(): a loop notices a reset element, and only then.
PollSend(k) ==
    /\ loop[k].at = "timer"
    /\ loop' = IF widget.sid = Absent THEN [loop EXCEPT ![k] = EndedLoop]
               ELSE [loop EXCEPT ![k].at = "sent", ![k].ver = widget.ver]
    /\ pollTimer' = IF pollTimer = k THEN Absent ELSE pollTimer
    /\ UNCHANGED <<api, lapsed, widget, starting, countdown, nameless>>

\* GET /auth-sessions/:id for a public client: a lapsed PENDING row expires
\* on the way; an approval shows its user only to the right verifier, and a
\* wrong one is refused.  An approver erased by then leaves the session
\* APPROVED without a user.
Settled(k) == IF api[k] = "PENDING" /\ k \in lapsed THEN "EXPIRED" ELSE api[k]
Answers(k, ver) ==
    LET plain == [st |-> Settled(k), user |-> FALSE] IN
    IF Settled(k) # "APPROVED" \/ ver = Absent THEN {plain}
    ELSE {plain, IF ver = k THEN [plain EXCEPT !.user = TRUE] ELSE [plain EXCEPT !.st = "undefined"]}
PollAnswer(k) ==
    /\ loop[k].at = "sent"
    /\ \E a \in Answers(k, loop[k].ver) :
          loop' = [loop EXCEPT ![k].at = "answered", ![k].answer = a]
    /\ api' = [api EXCEPT ![k] = Settled(k)]
    /\ UNCHANGED <<lapsed, widget, starting, pollTimer, countdown, nameless>>

\* An answer is applied to the element: a status the loop has not seen is
\* handled, a final one ends the loop, anything else sets the next timer.
ApplyAnswer(k, st, user) ==
    LET l == [loop EXCEPT ![k] = [NoLoop EXCEPT !.at = "timer", !.last = st]] IN
    /\ IF st # loop[k].last /\ st \in WidgetFinal
       THEN HandleFinal(st, user, [l EXCEPT ![k] = EndedLoop])
       ELSE /\ loop' = l
            /\ pollTimer' = k
            /\ widget' = IF st # loop[k].last THEN [widget EXCEPT !.status = st] ELSE widget
            /\ UNCHANGED <<countdown, nameless>>
    /\ UNCHANGED <<api, lapsed, starting>>
PollApply(k) ==
    loop[k].at = "answered" /\ ApplyAnswer(k, loop[k].answer.st, loop[k].answer.user)

\* The rate limiter of the route answers without a status.
PollLimited(k) == loop[k].at = "sent" /\ ApplyAnswer(k, "undefined", FALSE)

\* A network failure: the loop sets its next timer, or, when it was the
\* maxErrors-th in a row (the count is abstracted to a choice), gives up.
NextPollDropped(k) == [loop EXCEPT ![k] = EndedLoop]  \* mutant
NextPoll(k) == [loop EXCEPT ![k].at = "timer", ![k].ver = Absent]
PollFails(k) ==
    /\ loop[k].at = "sent"
    /\ loop' = NextPoll(k)
    /\ pollTimer' = k
    /\ UNCHANGED <<api, lapsed, widget, starting, countdown, nameless>>
PollGivesUp(k) ==
    /\ loop[k].at = "sent"
    /\ HandleFinal("EXPIRED", FALSE, [loop EXCEPT ![k] = EndedLoop])
    /\ UNCHANGED <<api, lapsed, starting>>

-----------------------------------------------------------------------------
(* The approver and the clock *)

\* The QR code of a session can be scanned while the modal shows it.
ScanShown(k) ==
    /\ widget.shown
    /\ widget.sid = k
    /\ widget.status \in {"pending", "PENDING"}
    /\ api[k] = "PENDING"
    /\ api' = [api EXCEPT ![k] = "SCANNED"]
    /\ UNCHANGED <<lapsed, widget, starting, loop, pollTimer, countdown, nameless>>

ResolveScanned(k, st) ==
    /\ api[k] = "SCANNED"
    /\ st = "DENIED" \/ k \notin lapsed
    /\ api' = [api EXCEPT ![k] = st]
    /\ UNCHANGED <<lapsed, widget, starting, loop, pollTimer, countdown, nameless>>

SessionLapses(k) ==
    /\ api[k] \in {"PENDING", "SCANNED"}
    /\ lapsed' = lapsed \cup {k}
    /\ UNCHANGED <<api, widget, starting, loop, pollTimer, countdown, nameless>>

PollStep(k) ==
    \/ PollSend(k) \/ PollAnswer(k) \/ PollApply(k) \/ PollLimited(k)
    \/ PollFails(k) \/ PollGivesUp(k)

WidgetNext ==
    \/ CloseModal \/ AutoClose \/ CountdownEnds
    \/ \E k \in Attempt :
          \/ OpenModal(k) \/ RetryClick(k) \/ VerifierReady(k) \/ SessionCreated(k)
          \/ StartFails(k) \/ PollStep(k) \/ ScanShown(k) \/ SessionLapses(k)
          \/ ResolveScanned(k, "APPROVED") \/ ResolveScanned(k, "DENIED")

WidgetSpec == WidgetInit /\ [][WidgetNext]_widgetVars

\* Timers fire and requests end, and of a loop that keeps polling some
\* request reaches the handler: outages and rate limit windows pass.
WidgetFairness ==
    \A k \in Attempt :
        /\ WF_widgetVars(PollStep(k))
        /\ SF_widgetVars(PollAnswer(k))

WidgetFairSpec == WidgetSpec /\ WidgetFairness

-----------------------------------------------------------------------------
(* Properties *)

AwaitsApproval(k) ==
    /\ widget.shown /\ widget.sid = k /\ widget.ver = k
    /\ api[k] = "APPROVED" /\ loop[k].at \notin {"none", "ended"}

\* The approval of the session on screen reaches the page: while the modal
\* shows session k with k's own verifier and k's loop is alive, an APPROVED
\* row is reported, or the loop was ended by a final status of its own or of
\* another loop, which the user sees; network failures, rate limits and the
\* answers of other loops in between do not silence it.
ApprovalReachesPage ==
    \A k \in Attempt :
        AwaitsApproval(k)
            ~> \/ widget.sid # k \/ widget.ver # k \/ ~widget.shown
               \/ widget.status \in WidgetFinal \cup {"error"}

\* What the comment on isApprovalWithoutIdentity says: an approval without
\* the user is never reported to the page as a sign-in.
IdentityHandedOver ==
    ~nameless

=============================================================================
