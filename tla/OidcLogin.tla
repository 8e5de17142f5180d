----------------------------- MODULE OidcLogin -----------------------------
(***************************************************************************)
(* Signing in to the OpenID provider, up to the authorization code         *)
(* (routes/oidc-login.ts, oidc-flow.ts handleAuthorize, oidc-consent-flow  *)
(* and oidc-session-end.ts; lib/oidc-session.ts, oidc-login-grant.ts,      *)
(* oidc-consent.ts).  One user and one client that needs consent.          *)
(*                                                                         *)
(* A browser asks /authorize for a relying party's request; it is sent to  *)
(* /login, which stores an attempt in Redis and shows a QR code; once the  *)
(* scan is approved, the page's poll of /login/status and the tab that     *)
(* lands on /login/resume race to turn the attempt into an OP session.     *)
(* Cookies are kept per browser; a Redis GETDEL (cacheTake) is one step.   *)
(* The OP session of an attempt carries its number.                        *)
(***************************************************************************)
EXTENDS Naturals, Sequences, FiniteSets

CONSTANTS
    Browser,      \* browsers of the user
    RpRequest,    \* authorization requests of the relying party
    LoginCall,    \* concurrent requests to the provider
    MaxLogins,    \* login attempts the model starts
    MaxPages,     \* consent pages the model renders
    Unset

ASSUME LoginAssumption ==
    /\ MaxLogins \in Nat \ {0}
    /\ MaxPages \in Nat \ {0}
    /\ Unset \notin Nat \cup Browser \cup RpRequest

Login == 1..MaxLogins
Page == 1..MaxPages

VARIABLES
    attempt,     \* oidc_login:<id> in Redis, and the scan behind it
    opSession,   \* the OP sessions
    loginGrant,  \* oidc_login_grant:<session> in Redis: the request it may answer
    opCookie,    \* the OP session cookie of each browser
    page,        \* oidc_consent:<id> in Redis: the pending consent pages
    consented,   \* the live consent
    lcall,       \* running requests
    minted,      \* history: OP sessions created per attempt
    answered,    \* history: the requests each OP session got a code for without prompt=none or max_age
    codes        \* authorization codes: unredeemed ones, issued with or without a race

loginVars == <<attempt, opSession, loginGrant, opCookie, page, consented, lcall, minted, answered, codes>>

Attempt0 == [stored |-> FALSE, scan |-> "none", browser |-> Unset, request |-> Unset]
IdleLogin == [pc |-> "idle", b |-> Unset, a |-> Unset, q |-> Unset, silent |-> FALSE, stale |-> FALSE]

LoginAttempt == [stored : BOOLEAN, scan : {"none", "open", "approved", "denied"},
                 browser : Browser \cup {Unset}, request : RpRequest \cup {Unset}]
ConsentPage == [st : {"none", "open", "taken"}, s : Login \cup {Unset}, q : RpRequest \cup {Unset},
                silent : BOOLEAN]
NoPage == [st |-> "none", s |-> Unset, q |-> Unset, silent |-> FALSE]
LoginRun == [pc : {"idle", "take", "mint", "consent", "code", "decide"},
             b : Browser \cup {Unset}, a : Login \cup {Unset}, q : RpRequest \cup {Unset},
             silent : BOOLEAN, stale : BOOLEAN]

LoginTypeOK ==
    /\ attempt \in [Login -> LoginAttempt]
    /\ opSession \in [Login -> {"none", "live", "dead"}]
    /\ loginGrant \in [Login -> RpRequest \cup {Unset}]
    /\ opCookie \in [Browser -> Login \cup {Unset}]
    /\ page \in [Page -> ConsentPage]
    /\ consented \in BOOLEAN
    /\ lcall \in [LoginCall -> LoginRun]
    /\ minted \in [Login -> 0..2]
    /\ answered \in [Login -> Seq(RpRequest \cup {Unset})]
    /\ codes \in SUBSET {"plain", "raced"}

LoginInit ==
    /\ attempt = [a \in Login |-> Attempt0]
    /\ opSession = [a \in Login |-> "none"]
    /\ loginGrant = [a \in Login |-> Unset]
    /\ opCookie = [b \in Browser |-> Unset]
    /\ page = [p \in Page |-> NoPage]
    /\ consented = FALSE
    /\ lcall = [c \in LoginCall |-> IdleLogin]
    /\ minted = [a \in Login |-> 0]
    /\ answered = [a \in Login |-> <<>>]
    /\ codes = {}

-----------------------------------------------------------------------------

UpTo2(n) == IF n < 2 THEN n + 1 ELSE n
LoginEnds(c) == lcall' = [lcall EXCEPT ![c] = IdleLogin]

\* GET /login for the request q: a new attempt bound to this browser by the
\* pre-login cookie, and the auth session whose QR code it shows.
OpenLogin(a, b, q) ==
    /\ attempt[a].scan = "none"
    /\ \A x \in Login : x < a => attempt[x].scan # "none"
    /\ attempt' = [attempt EXCEPT ![a] = [stored |-> TRUE, scan |-> "open", browser |-> b, request |-> q]]
    /\ UNCHANGED <<opSession, loginGrant, opCookie, page, consented, lcall, minted, answered, codes>>

\* The scan is answered on the phone.
AnswerScan(a, st) ==
    /\ attempt[a].scan = "open"
    /\ attempt' = [attempt EXCEPT ![a].scan = st]
    /\ UNCHANGED <<opSession, loginGrant, opCookie, page, consented, lcall, minted, answered, codes>>

\* The stored attempt lapses after ten minutes.
AttemptLapses(a) ==
    /\ attempt[a].stored
    /\ attempt' = [attempt EXCEPT ![a].stored = FALSE]
    /\ UNCHANGED <<opSession, loginGrant, opCookie, page, consented, lcall, minted, answered, codes>>

\* GET /login/status and /login/resume: the attempt and its auth session are
\* read; only the browser that opened /login gets past an approval.
IsSameBrowser(b, a) == attempt[a].browser = b
LoginStatus(c, b, a) ==
    /\ lcall[c].pc = "idle"
    /\ attempt[a].stored
    /\ attempt[a].scan = "approved"
    /\ IsSameBrowser(b, a)
    /\ lcall' = [lcall EXCEPT ![c].pc = "take", ![c].a = a, ![c].b = b]
    /\ UNCHANGED <<attempt, opSession, loginGrant, opCookie, page, consented, minted, answered, codes>>

\* completeLogin: the attempt is taken, then the session is created, its
\* login grant stored (for a request with a repeated parameter there is none)
\* and the cookie set.  When the grant cannot be stored the browser gets
\* neither the cookie nor an answer.
AttemptTaken(a) == [attempt EXCEPT ![a].stored = FALSE]
TakeAttempt(c) ==
    LET a == lcall[c].a IN
    /\ lcall[c].pc = "take"
    /\ IF attempt[a].stored THEN lcall' = [lcall EXCEPT ![c].pc = "mint"] ELSE LoginEnds(c)
    /\ attempt' = AttemptTaken(a)
    /\ UNCHANGED <<opSession, loginGrant, opCookie, page, consented, minted, answered, codes>>
MintOpSession(c) ==
    LET a == lcall[c].a IN
    /\ lcall[c].pc = "mint"
    /\ opSession' = [opSession EXCEPT ![a] = "live"]
    /\ loginGrant' \in {loginGrant, [loginGrant EXCEPT ![a] = attempt[a].request]}
    /\ opCookie' \in {opCookie, [opCookie EXCEPT ![lcall[c].b] = a]}
    /\ minted' = [minted EXCEPT ![a] = UpTo2(@)]
    /\ LoginEnds(c)
    /\ UNCHANGED <<attempt, page, consented, answered, codes>>

\* The session, or its grant, lapses.
OpSessionLapses(a) ==
    /\ opSession[a] = "live"
    /\ opSession' = [opSession EXCEPT ![a] = "dead"]
    /\ UNCHANGED <<attempt, loginGrant, opCookie, page, consented, lcall, minted, answered, codes>>
GrantLapses(a) ==
    /\ loginGrant[a] # Unset
    /\ loginGrant' = [loginGrant EXCEPT ![a] = Unset]
    /\ UNCHANGED <<attempt, opSession, opCookie, page, consented, lcall, minted, answered, codes>>

\* A database or Redis error ends a request with a 500; what it took stays
\* taken.
LoginFails(c) ==
    /\ lcall[c].pc # "idle"
    /\ LoginEnds(c)
    /\ UNCHANGED <<attempt, opSession, loginGrant, opCookie, page, consented, minted, answered, codes>>

-----------------------------------------------------------------------------
(* /authorize *)

\* takeLoginGrant removes the record whether it fits the request or not, and
\* says whether it was made for exactly this request.
AnyRequest(s, q) == loginGrant[s] # Unset  \* mutant
MadeFor(s, q) == loginGrant[s] = q
GrantTaken(s) == [loginGrant EXCEPT ![s] = Unset]

\* handleAuthorize with a live session: a silent request (prompt=none, or a
\* max_age the session satisfies) may use it, any other only as the return
\* from the scan that was made for it; otherwise the browser goes to /login.
Authorize(c, b, q, silent) ==
    LET s == opCookie[b] IN
    /\ lcall[c].pc = "idle"
    /\ s # Unset
    /\ opSession[s] = "live"
    /\ loginGrant' = IF silent THEN loginGrant ELSE GrantTaken(s)
    /\ IF silent \/ MadeFor(s, q)
       THEN lcall' = [lcall EXCEPT ![c] = [IdleLogin EXCEPT !.pc = "consent", !.b = b, !.a = s,
                                                            !.q = q, !.silent = silent]]
       ELSE UNCHANGED lcall
    /\ UNCHANGED <<attempt, opSession, opCookie, page, consented, minted, answered, codes>>

\* The consent lookup: a covered request gets its code; one with further
\* scopes or prompt=consent is shown a page stored for one answer
\* (prompt=none is refused instead).
ConsentLookup(c) ==
    /\ lcall[c].pc = "consent"
    /\ \/ consented /\ lcall' = [lcall EXCEPT ![c].pc = "code"] /\ UNCHANGED page
       \/ /\ LoginEnds(c)
          /\ \/ \E p \in Page :
                   /\ page[p].st = "none"
                   /\ \A x \in Page : x < p => page[x].st # "none"
                   /\ page' = [page EXCEPT ![p] = [st |-> "open", s |-> lcall[c].a, q |-> lcall[c].q,
                                                   silent |-> lcall[c].silent]]
             \/ lcall[c].silent /\ UNCHANGED page
    /\ UNCHANGED <<attempt, opSession, loginGrant, opCookie, consented, minted, answered, codes>>

\* issueAuthorizationCode.  stale: the consent was withdrawn since this
\* request looked.
IssueCode(c) ==
    /\ lcall[c].pc = "code"
    /\ codes' = codes \cup {IF lcall[c].stale THEN "raced" ELSE "plain"}
    /\ answered' = IF lcall[c].silent THEN answered
                   ELSE [answered EXCEPT ![lcall[c].a] = Append(@, lcall[c].q)]
    /\ LoginEnds(c)
    /\ UNCHANGED <<attempt, opSession, loginGrant, opCookie, page, consented, minted>>

\* POST /authorize/consent: the page's entry is taken with its answer; it
\* counts only with the session cookie it was rendered for, and may be a
\* denial.
PageTaken(p) == [page EXCEPT ![p].st = "taken"]
AnswerPage(c, b, p) ==
    /\ lcall[c].pc = "idle"
    /\ page[p].st = "open"
    /\ page' = PageTaken(p)
    /\ IF opCookie[b] = page[p].s /\ opSession[page[p].s] = "live"
       THEN \/ lcall' = [lcall EXCEPT ![c] = [IdleLogin EXCEPT !.pc = "decide", !.b = b,
                                                !.a = page[p].s, !.q = page[p].q, !.silent = page[p].silent]]
            \/ UNCHANGED lcall
       ELSE UNCHANGED lcall
    /\ UNCHANGED <<attempt, opSession, loginGrant, opCookie, consented, minted, answered, codes>>

\* grantConsent, then the code.
GrantConsent(c) ==
    /\ lcall[c].pc = "decide"
    /\ consented' = TRUE
    /\ lcall' = [lcall EXCEPT ![c].pc = "code", ![c].stale = FALSE]
    /\ UNCHANGED <<attempt, opSession, loginGrant, opCookie, page, minted, answered, codes>>

-----------------------------------------------------------------------------
(* Endings *)

LookedUp(cs) == [c \in LoginCall |-> IF cs[c].pc = "code" THEN [cs[c] EXCEPT !.stale = TRUE] ELSE cs[c]]

\* GET or POST /logout in a browser: the session is revoked, the cookie gone.
Logout(b) ==
    /\ opCookie[b] # Unset
    /\ opSession' = [opSession EXCEPT ![opCookie[b]] = "dead"]
    /\ opCookie' = [opCookie EXCEPT ![b] = Unset]
    /\ UNCHANGED <<attempt, loginGrant, page, consented, lcall, minted, answered, codes>>

\* DELETE /oidc-consents/:id marks the unredeemed codes used with the consent.
CodesLeft ==  \* mutant
    /\ consented
    /\ consented' = FALSE
    /\ lcall' = LookedUp(lcall)
    /\ UNCHANGED <<attempt, opSession, loginGrant, opCookie, page, minted, answered, codes>>
WithdrawConsent ==
    /\ consented
    /\ consented' = FALSE
    /\ codes' = {}
    /\ lcall' = LookedUp(lcall)
    /\ UNCHANGED <<attempt, opSession, loginGrant, opCookie, page, minted, answered>>

\* revokeOidcAccessForUser: password reset, sign-out everywhere, a revoked
\* device or a claimed account ends every session and unredeemed code.
EndUserSessions ==
    /\ \E a \in Login : opSession[a] = "live"
    /\ opSession' = [a \in Login |-> IF opSession[a] = "live" THEN "dead" ELSE opSession[a]]
    /\ codes' = {}
    /\ UNCHANGED <<attempt, loginGrant, opCookie, page, consented, lcall, minted, answered>>

LoginNext ==
    \/ WithdrawConsent \/ EndUserSessions
    \/ \E b \in Browser : Logout(b)
    \/ \E a \in Login : AttemptLapses(a) \/ OpSessionLapses(a) \/ GrantLapses(a)
                        \/ AnswerScan(a, "approved") \/ AnswerScan(a, "denied")
    \/ \E a \in Login, b \in Browser, q \in RpRequest : OpenLogin(a, b, q)
    \/ \E c \in LoginCall :
          \/ LoginFails(c) \/ TakeAttempt(c) \/ MintOpSession(c) \/ ConsentLookup(c) \/ IssueCode(c) \/ GrantConsent(c)
          \/ \E b \in Browser, a \in Login : LoginStatus(c, b, a)
          \/ \E b \in Browser, p \in Page : AnswerPage(c, b, p)
          \/ \E b \in Browser, q \in RpRequest, silent \in BOOLEAN : Authorize(c, b, q, silent)

LoginSpec == LoginInit /\ [][LoginNext]_loginVars

-----------------------------------------------------------------------------
(* Properties *)

\* One scan signs in once: however the poll and the resume tab race, an
\* attempt becomes at most one OP session, held by the browser that opened
\* it, and of the requests that did not ask for silent re-use that session
\* answers at most one, once: the one the scan was made for, straight away or
\* over a consent page (the attempt, the login grant and the page are each
\* taken with a single GETDEL, the grant is compared with the request).
OneAnswerPerScan ==
    \A a \in Login :
        /\ minted[a] <= 1
        /\ answered[a] \in {<<>>, <<attempt[a].request>>}
        /\ \A b \in Browser : opCookie[b] = a => attempt[a].browser = b

\* A code that can still be redeemed stands on a live consent, except when
\* the consent was withdrawn between the lookup and the insert of the code.
CodeStandsOnConsent ==
    "plain" \in codes => consented

-----------------------------------------------------------------------------
(* The inductive invariant.                                                *)

\* Requests, pages and cookies name attempts that were opened, and only the
\* browser that opened one signs in with it.
NamesLogin ==
    /\ \A c \in LoginCall : lcall[c].pc # "idle" => lcall[c].a \in Login
    /\ \A c \in LoginCall : lcall[c].pc \in {"take", "mint"} =>
         /\ lcall[c].b \in Browser
         /\ attempt[lcall[c].a].browser = lcall[c].b
         /\ attempt[lcall[c].a].scan # "none"
    /\ \A p \in Page : page[p].st = "open" => page[p].s \in Login
    /\ \A b \in Browser : opCookie[b] # Unset =>
         attempt[opCookie[b]].browser = b /\ attempt[opCookie[b]].scan # "none"

\* An attempt is stored, or being turned into a session by one request, or
\* used up.
OneMint ==
    /\ \A a \in Login : attempt[a].scan = "none" => ~attempt[a].stored /\ minted[a] = 0
    /\ \A a \in Login : attempt[a].stored => minted[a] = 0
    /\ \A c \in LoginCall : lcall[c].pc = "mint" =>
         ~attempt[lcall[c].a].stored /\ minted[lcall[c].a] = 0
    /\ \A c, d \in LoginCall :
         lcall[c].pc = "mint" /\ lcall[d].pc = "mint" /\ lcall[c].a = lcall[d].a => c = d

\* The right of a session to answer one request is in one place: its login
\* grant, a request, or an open page.  It is gone once it was used.
CarriesAnswer(c, a) ==
    lcall[c].pc \in {"consent", "code", "decide"} /\ ~lcall[c].silent /\ lcall[c].a = a
AsksFor(p, a) == page[p].st = "open" /\ ~page[p].silent /\ page[p].s = a
RightOf(a) ==
    /\ minted[a] = 0 => loginGrant[a] = Unset
    /\ minted[a] = 0 \/ loginGrant[a] # Unset =>
         /\ answered[a] = <<>>
         /\ \A c \in LoginCall : ~CarriesAnswer(c, a)
         /\ \A p \in Page : ~AsksFor(p, a)
    /\ \A c \in LoginCall : CarriesAnswer(c, a) =>
         /\ answered[a] = <<>>
         /\ \A p \in Page : ~AsksFor(p, a)
         /\ \A d \in LoginCall : CarriesAnswer(d, a) => c = d
    /\ \A p \in Page : AsksFor(p, a) =>
         /\ answered[a] = <<>>
         /\ \A x \in Page : AsksFor(x, a) => p = x
OneRight == \A a \in Login : RightOf(a)

\* Wherever that right is, it is for the request the scan was made for.
OwnRequest(a) ==
    /\ loginGrant[a] \in {Unset, attempt[a].request}
    /\ \A c \in LoginCall : CarriesAnswer(c, a) => lcall[c].q = attempt[a].request
    /\ \A p \in Page : AsksFor(p, a) => page[p].q = attempt[a].request
RightIsOwn == \A a \in Login : OwnRequest(a)

\* A request that looked the consent up and was not overtaken found it.
LookedUpConsent ==
    \A c \in LoginCall : lcall[c].pc = "code" /\ ~lcall[c].stale => consented

LoginInv ==
    /\ LoginTypeOK /\ NamesLogin /\ OneMint /\ OneRight /\ RightIsOwn /\ LookedUpConsent
    /\ OneAnswerPerScan /\ CodeStandsOnConsent

=============================================================================
