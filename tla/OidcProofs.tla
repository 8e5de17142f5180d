----------------------------- MODULE OidcProofs -----------------------------
(***************************************************************************)
(* The OpenID provider: a scan is answered once, a code stands on a        *)
(* consent, and what a grant ended with leaves no usable token behind.     *)
(***************************************************************************)
EXTENDS OidcLogin, OidcGrant, FiniteSetTheorems, TLAPS

-----------------------------------------------------------------------------
(***************************************************************************)
(* Sign-in and consent, for any attempts, browsers, relying parties and    *)
(* requests.                                                               *)
(***************************************************************************)

\* The parts of the invariant.
LEMMA LoginTypes ==
    ASSUME LoginInv
    PROVE  /\ attempt \in [Login -> LoginAttempt]
           /\ opSession \in [Login -> {"none", "live", "dead"}]
           /\ loginGrant \in [Login -> RpRequest \cup {Unset}]
           /\ opCookie \in [Browser -> Login \cup {Unset}]
           /\ page \in [Page -> ConsentPage]
           /\ consented \in BOOLEAN
           /\ lcall \in [LoginCall -> LoginRun]
           /\ minted \in [Login -> 0..2]
           /\ answered \in [Login -> Seq(RpRequest \cup {Unset})]
           /\ codes \in SUBSET {"plain", "raced"}
           /\ Unset \notin Login
<1>1. Unset \notin Login
    BY LoginAssumption DEF Login
<1> QED BY <1>1 DEF LoginInv, LoginTypeOK

\* One request moves.
LEMMA LoginCallMoves ==
    ASSUME LoginInv, NEW c \in LoginCall, NEW x \in LoginRun, lcall' = [lcall EXCEPT ![c] = x]
    PROVE  /\ lcall' \in [LoginCall -> LoginRun] /\ lcall'[c] = x
           /\ \A d \in LoginCall : d # c => lcall'[d] = lcall[d]
    BY LoginTypes

\* A request that ends is idle.
LEMMA LoginCallEnds ==
    ASSUME LoginInv, NEW c \in LoginCall, LoginEnds(c)
    PROVE  /\ lcall' \in [LoginCall -> LoginRun] /\ lcall'[c].pc = "idle"
           /\ \A d \in LoginCall : d # c => lcall'[d] = lcall[d]
<1>1. IdleLogin \in LoginRun /\ IdleLogin.pc = "idle"
    BY DEF IdleLogin, LoginRun
<1> QED BY <1>1, LoginCallMoves DEF LoginEnds

\* The right to an answer does not come from nowhere.
LEMMA RightStands ==
    ASSUME NEW a \in Login, RightOf(a), minted'[a] = minted[a], answered'[a] = answered[a],
           loginGrant'[a] \in {loginGrant[a], Unset},
           \A c \in LoginCall : CarriesAnswer(c, a)' => CarriesAnswer(c, a),
           \A p \in Page : AsksFor(p, a)' => AsksFor(p, a)
    PROVE  RightOf(a)'
    BY DEF RightOf

\* ... and stays that of the request it was for.
LEMMA OwnStands ==
    ASSUME NEW a \in Login, OwnRequest(a), attempt'[a].request = attempt[a].request,
           loginGrant'[a] \in {loginGrant[a], Unset},
           \A c \in LoginCall : CarriesAnswer(c, a)' => CarriesAnswer(c, a) /\ lcall'[c].q = lcall[c].q,
           \A p \in Page : AsksFor(p, a)' => AsksFor(p, a) /\ page'[p].q = page[p].q
    PROVE  OwnRequest(a)'
    BY DEF OwnRequest

\* The answers and sessions do not change, so the counts stay as they are.
LEMMA ScanStands ==
    ASSUME LoginInv, LoginTypeOK', NamesLogin', OneMint', OneRight', RightIsOwn', LookedUpConsent',
           \A a \in Login : minted'[a] <= 1 /\ answered'[a] \in {<<>>, <<attempt'[a].request>>},
           CodeStandsOnConsent'
    PROVE  LoginInv'
<1>1. OneAnswerPerScan'
    <2>1. \A a \in Login, b \in Browser : opCookie'[b] = a => attempt'[a].browser = b
        <3>1. Unset \notin Login
            BY LoginTypes
        <3> QED BY <3>1 DEF NamesLogin
    <2> QED BY <2>1 DEF OneAnswerPerScan
<1> QED BY <1>1 DEF LoginInv

\* The counts before the step.
LEMMA Counts ==
    ASSUME LoginInv
    PROVE  \A a \in Login : /\ minted[a] <= 1 /\ answered[a] \in {<<>>, <<attempt[a].request>>}
                            /\ RightOf(a) /\ OwnRequest(a)
    BY DEF LoginInv, OneAnswerPerScan, OneRight, RightIsOwn

\* A step on one attempt: it is opened, answered, lapses.
LEMMA AttemptStep ==
    ASSUME LoginInv, NEW a \in Login, NEW x \in LoginAttempt, attempt' = [attempt EXCEPT ![a] = x],
           UNCHANGED <<opSession, loginGrant, opCookie, page, consented, lcall, minted, answered, codes>>,
           x.scan # "none",
           attempt[a].scan # "none" => /\ x.browser = attempt[a].browser
                                       /\ x.request = attempt[a].request
                                       /\ x.stored => attempt[a].stored
    PROVE  LoginInv'
<1>1. /\ attempt' \in [Login -> LoginAttempt] /\ attempt'[a] = x
      /\ \A i \in Login : i # a => attempt'[i] = attempt[i]
    BY LoginTypes
<1>2. LoginTypeOK'
    BY <1>1, LoginTypes DEF LoginTypeOK
<1>3. NamesLogin'
    <2>1. \A c \in LoginCall : lcall[c].pc \in {"take", "mint"} => lcall[c].a \in Login
        BY DEF LoginInv, NamesLogin
    <2>2. \A b \in Browser : opCookie[b] # Unset => opCookie[b] \in Login
        BY LoginTypes
    <2> QED BY <1>1, <2>1, <2>2 DEF LoginInv, NamesLogin
<1>4. OneMint'
    <2>1. \A c \in LoginCall : lcall[c].pc = "mint" =>
             lcall[c].a \in Login /\ attempt[lcall[c].a].scan # "none"
        BY DEF LoginInv, NamesLogin
    <2> QED BY <1>1, <2>1 DEF LoginInv, OneMint
<1>5. OneRight'
    BY Counts, RightStands DEF OneRight, CarriesAnswer, AsksFor
<1>6. \A i \in Login : \/ attempt'[i].request = attempt[i].request
                       \/ /\ answered[i] = <<>> /\ loginGrant[i] = Unset
                          /\ \A c \in LoginCall : ~CarriesAnswer(c, i)
                          /\ \A p \in Page : ~AsksFor(p, i)
    BY <1>1, Counts DEF LoginInv, OneMint, RightOf
<1>7. RightIsOwn'
    <2> SUFFICES ASSUME NEW i \in Login PROVE OwnRequest(i)'
        BY DEF RightIsOwn
    <2>1. /\ \A c \in LoginCall : CarriesAnswer(c, i)' = CarriesAnswer(c, i)
          /\ \A p \in Page : AsksFor(p, i)' = AsksFor(p, i)
        BY DEF CarriesAnswer, AsksFor
    <2> QED BY <1>6, <2>1, Counts DEF OwnRequest
<1>8. \A i \in Login : minted'[i] <= 1 /\ answered'[i] \in {<<>>, <<attempt'[i].request>>}
    BY <1>6, Counts
<1> QED BY <1>2, <1>3, <1>4, <1>5, <1>7, <1>8, ScanStands DEF LoginInv, LookedUpConsent, CodeStandsOnConsent

\* The steps of an attempt.
LEMMA AttemptSteps ==
    ASSUME LoginInv, NEW a \in Login,
           \/ \E b \in Browser, q \in RpRequest : OpenLogin(a, b, q)
           \/ AnswerScan(a, "approved") \/ AnswerScan(a, "denied") \/ AttemptLapses(a)
    PROVE  LoginInv'
<1>0. attempt[a] \in LoginAttempt
    BY LoginTypes
<1>1. ASSUME NEW b \in Browser, NEW q \in RpRequest, OpenLogin(a, b, q) PROVE LoginInv'
    <2>1. PICK x : x = [stored |-> TRUE, scan |-> "open", browser |-> b, request |-> q]
        OBVIOUS
    <2>2. x \in LoginAttempt /\ x.scan = "open"
        BY <2>1 DEF LoginAttempt
    <2> QED BY <1>1, <2>1, <2>2, AttemptStep DEF OpenLogin
<1>2. ASSUME NEW st \in {"approved", "denied"}, AnswerScan(a, st) PROVE LoginInv'
    <2>1. PICK x : x = [attempt[a] EXCEPT !.scan = st]
        OBVIOUS
    <2>2. /\ x \in LoginAttempt /\ x.scan = st /\ x.browser = attempt[a].browser
          /\ x.stored = attempt[a].stored /\ x.request = attempt[a].request
        BY <1>0, <2>1 DEF LoginAttempt
    <2>3. attempt' = [attempt EXCEPT ![a] = x]
        BY <1>2, <2>1, LoginTypes DEF AnswerScan
    <2> QED BY <1>2, <2>2, <2>3, AttemptStep DEF AnswerScan
<1>3. CASE AttemptLapses(a)
    <2>1. PICK x : x = [attempt[a] EXCEPT !.stored = FALSE]
        OBVIOUS
    <2>2. /\ x \in LoginAttempt /\ x.scan = attempt[a].scan /\ x.browser = attempt[a].browser
          /\ ~x.stored /\ x.request = attempt[a].request
        BY <1>0, <2>1 DEF LoginAttempt
    <2>3. attempt' = [attempt EXCEPT ![a] = x]
        BY <1>3, <2>1, LoginTypes DEF AttemptLapses
    <2>4. attempt[a].scan # "none"
        BY <1>3 DEF AttemptLapses, LoginInv, OneMint
    <2> QED BY <1>3, <2>2, <2>3, <2>4, AttemptStep DEF AttemptLapses
<1> QED BY <1>1, <1>2, <1>3

\* Sessions end, cookies go.
LEMMA EndingSteps ==
    ASSUME LoginInv,
           \/ EndUserSessions
           \/ \E b \in Browser : Logout(b)
           \/ \E a \in Login : OpSessionLapses(a) \/ GrantLapses(a)
    PROVE  LoginInv'
<1>1. /\ opSession' \in [Login -> {"none", "live", "dead"}]
      /\ \A b \in Browser : opCookie'[b] \in {opCookie[b], Unset}
      /\ opCookie' \in [Browser -> Login \cup {Unset}]
      /\ codes' \in {codes, {}}
      /\ loginGrant' \in [Login -> RpRequest \cup {Unset}]
      /\ \A a \in Login : loginGrant'[a] \in {loginGrant[a], Unset}
      /\ UNCHANGED <<attempt, page, consented, lcall, minted, answered>>
    BY LoginTypes DEF EndUserSessions, Logout, OpSessionLapses, GrantLapses
<1>2. LoginTypeOK'
    BY <1>1, LoginTypes DEF LoginTypeOK
<1>3. NamesLogin'
    BY <1>1 DEF LoginInv, NamesLogin
<1>4. OneMint'
    BY <1>1 DEF LoginInv, OneMint
<1>5. OneRight'
    BY <1>1, Counts, RightStands DEF OneRight, CarriesAnswer, AsksFor
<1>6. RightIsOwn'
    BY <1>1, Counts, OwnStands DEF RightIsOwn, CarriesAnswer, AsksFor
<1>7. LookedUpConsent' /\ CodeStandsOnConsent'
    BY <1>1 DEF LoginInv, LookedUpConsent, CodeStandsOnConsent
<1> QED BY <1>1, <1>2, <1>3, <1>4, <1>5, <1>6, <1>7, Counts, ScanStands

\* A request that mints nothing moves: its own right is shown separately.
LEMMA CallFollows ==
    ASSUME LoginInv, NEW c \in LoginCall, NEW x \in LoginRun, lcall' = [lcall EXCEPT ![c] = x],
           UNCHANGED <<attempt, opSession, opCookie, minted>>,
           loginGrant' \in [Login -> RpRequest \cup {Unset}],
           page' \in [Page -> ConsentPage],
           \A p \in Page : page'[p].st = "open" => page'[p].s \in Login,
           consented' \in BOOLEAN, codes' \in SUBSET {"plain", "raced"},
           answered' \in [Login -> Seq(RpRequest \cup {Unset})], \A a \in Login : answered'[a] \in {<<>>, <<attempt[a].request>>},
           x.pc \in {"idle", "take", "consent", "code", "decide"},
           x.pc # "idle" => x.a \in Login,
           x.pc = "take" => /\ x.b \in Browser
                            /\ attempt[x.a].browser = x.b /\ attempt[x.a].scan # "none",
           OneRight', RightIsOwn', LookedUpConsent', CodeStandsOnConsent'
    PROVE  LoginInv'
<1>1. /\ lcall' \in [LoginCall -> LoginRun] /\ lcall'[c] = x
      /\ \A d \in LoginCall : d # c => lcall'[d] = lcall[d]
    BY LoginCallMoves
<1>2. LoginTypeOK'
    BY <1>1, LoginTypes DEF LoginTypeOK
<1>3. NamesLogin'
    BY <1>1 DEF LoginInv, NamesLogin
<1>4. OneMint'
    <2>1. \A d \in LoginCall : lcall'[d].pc = "mint" => d # c /\ lcall'[d] = lcall[d]
        BY <1>1
    <2> QED BY <2>1 DEF LoginInv, OneMint
<1> QED BY <1>2, <1>3, <1>4, Counts, ScanStands

\* A request that carries no answer afterwards, or the one it carried.
LEMMA QuietCall ==
    ASSUME LoginInv, NEW c \in LoginCall, NEW x \in LoginRun, lcall' = [lcall EXCEPT ![c] = x],
           UNCHANGED <<attempt, opSession, opCookie, minted, answered, codes>>,
           loginGrant' \in [Login -> RpRequest \cup {Unset}],
           \A a \in Login : loginGrant'[a] \in {loginGrant[a], Unset},
           page' \in [Page -> ConsentPage],
           \A p \in Page : page'[p].st = "open" => page'[p] = page[p],
           consented' \in BOOLEAN, consented => consented',
           x.pc \in {"idle", "take", "consent", "code", "decide"},
           x.pc # "idle" => x.a \in Login,
           x.pc = "take" => /\ x.b \in Browser
                            /\ attempt[x.a].browser = x.b /\ attempt[x.a].scan # "none",
           x.pc \in {"consent", "code", "decide"} /\ ~x.silent => CarriesAnswer(c, x.a) /\ x.q = lcall[c].q,
           x.pc = "code" /\ ~x.stale => consented'
    PROVE  LoginInv'
<1>1. /\ lcall' \in [LoginCall -> LoginRun] /\ lcall'[c] = x
      /\ \A d \in LoginCall : d # c => lcall'[d] = lcall[d]
    BY LoginCallMoves
<1>2. OneRight'
    <2> SUFFICES ASSUME NEW a \in Login PROVE RightOf(a)'
        BY DEF OneRight
    <2>1. \A d \in LoginCall : CarriesAnswer(d, a)' => CarriesAnswer(d, a)
        BY <1>1 DEF CarriesAnswer
    <2>2. \A p \in Page : AsksFor(p, a)' => AsksFor(p, a)
        BY DEF AsksFor
    <2> QED BY <2>1, <2>2, Counts, RightStands
<1>3. \A p \in Page : page'[p].st = "open" => page'[p].s \in Login
    BY DEF LoginInv, NamesLogin
<1>4. LookedUpConsent' /\ CodeStandsOnConsent'
    BY <1>1 DEF LoginInv, LookedUpConsent, CodeStandsOnConsent
<1>5. answered' \in [Login -> Seq(RpRequest \cup {Unset})] /\ codes' \in SUBSET {"plain", "raced"}
    BY LoginTypes
<1>6. RightIsOwn'
    <2> SUFFICES ASSUME NEW a \in Login PROVE OwnRequest(a)'
        BY DEF RightIsOwn
    <2>1. \A d \in LoginCall : CarriesAnswer(d, a)' => CarriesAnswer(d, a) /\ lcall'[d].q = lcall[d].q
        BY <1>1 DEF CarriesAnswer
    <2>2. \A p \in Page : AsksFor(p, a)' => AsksFor(p, a) /\ page'[p].q = page[p].q
        BY DEF AsksFor
    <2> QED BY <2>1, <2>2, Counts, OwnStands
<1> QED BY <1>2, <1>3, <1>4, <1>5, <1>6, Counts, CallFollows

\* /login/status and /login/resume before the attempt is taken, the decision
\* of a consent page, and a request that fails.
LEMMA QuietSteps ==
    ASSUME LoginInv, NEW c \in LoginCall,
           GrantConsent(c) \/ LoginFails(c) \/ \E b \in Browser, a \in Login : LoginStatus(c, b, a)
    PROVE  LoginInv'
<1>0. lcall[c] \in LoginRun /\ lcall \in [LoginCall -> LoginRun]
    BY LoginTypes
<1>1. ASSUME NEW b \in Browser, NEW a \in Login, LoginStatus(c, b, a) PROVE LoginInv'
    <2>1. PICK x : x = [lcall[c] EXCEPT !.pc = "take", !.a = a, !.b = b]
        OBVIOUS
    <2>2. x \in LoginRun /\ x.pc = "take" /\ x.a = a /\ x.b = b
        BY <1>0, <2>1 DEF LoginRun
    <2>3. lcall' = [lcall EXCEPT ![c] = x]
        BY <1>0, <1>1, <2>1 DEF LoginStatus
    <2>4. attempt[a].browser = b /\ attempt[a].scan = "approved"
          /\ UNCHANGED <<attempt, opSession, loginGrant, opCookie, page, consented, minted, answered, codes>>
        BY <1>1 DEF LoginStatus, IsSameBrowser
    <2> QED BY <2>2, <2>3, <2>4, LoginTypes, QuietCall
<1>2. CASE GrantConsent(c)
    <2>1. PICK x : x = [lcall[c] EXCEPT !.pc = "code", !.stale = FALSE]
        OBVIOUS
    <2>2. x \in LoginRun /\ x.pc = "code" /\ x.a = lcall[c].a /\ x.silent = lcall[c].silent
          /\ x.q = lcall[c].q
        BY <1>0, <2>1 DEF LoginRun
    <2>3. lcall' = [lcall EXCEPT ![c] = x] /\ lcall[c].pc = "decide"
        BY <1>0, <1>2, <2>1 DEF GrantConsent
    <2>4. lcall[c].a \in Login
        BY <2>3 DEF LoginInv, NamesLogin
    <2>5. consented' = TRUE
          /\ UNCHANGED <<attempt, opSession, loginGrant, opCookie, page, minted, answered, codes>>
        BY <1>2 DEF GrantConsent
    <2>6. ~x.silent => CarriesAnswer(c, x.a)
        BY <2>2, <2>3 DEF CarriesAnswer
    <2> QED BY <2>2, <2>3, <2>4, <2>5, <2>6, LoginTypes, QuietCall
<1>3. CASE LoginFails(c)
    <2>1. IdleLogin \in LoginRun /\ IdleLogin.pc = "idle"
        BY DEF IdleLogin, LoginRun
    <2> QED BY <1>3, <2>1, LoginTypes, QuietCall DEF LoginFails, LoginEnds
<1> QED BY <1>1, <1>2, <1>3

\* completeLogin takes the attempt.
LEMMA TakeStep ==
    ASSUME LoginInv, NEW c \in LoginCall, TakeAttempt(c)
    PROVE  LoginInv'
<1>1. /\ lcall[c].pc = "take"
      /\ UNCHANGED <<opSession, loginGrant, opCookie, page, consented, minted, answered, codes>>
    BY DEF TakeAttempt
<1>2. PICK a \in Login : a = lcall[c].a
    BY <1>1 DEF LoginInv, NamesLogin
<1>3. /\ lcall[c].b \in Browser /\ attempt[a].browser = lcall[c].b /\ attempt[a].scan # "none"
      /\ attempt \in [Login -> LoginAttempt] /\ lcall \in [LoginCall -> LoginRun]
    BY <1>1, <1>2, LoginTypes DEF LoginInv, NamesLogin
<1>4. PICK y : y = [attempt[a] EXCEPT !.stored = FALSE]
    OBVIOUS
<1>5. y \in LoginAttempt /\ y.browser = attempt[a].browser /\ y.scan = attempt[a].scan /\ ~y.stored
      /\ y.request = attempt[a].request
    BY <1>3, <1>4 DEF LoginAttempt
<1>6. attempt' = [attempt EXCEPT ![a] = y]
    BY <1>2, <1>3, <1>4 DEF TakeAttempt, AttemptTaken
<1>7. /\ attempt' \in [Login -> LoginAttempt] /\ attempt'[a] = y
      /\ \A i \in Login : i # a => attempt'[i] = attempt[i]
    BY <1>3, <1>5, <1>6
<1>8. PICK x : x = [lcall[c] EXCEPT !.pc = "mint"]
    OBVIOUS
<1>9. x \in LoginRun /\ x.pc = "mint" /\ x.a = a /\ x.b = lcall[c].b
    BY <1>2, <1>3, <1>8 DEF LoginRun
<1>10. \/ attempt[a].stored /\ lcall' = [lcall EXCEPT ![c] = x]
       \/ LoginEnds(c)
    BY <1>2, <1>3, <1>8 DEF TakeAttempt
<1>11. /\ lcall' \in [LoginCall -> LoginRun]
       /\ \A d \in LoginCall : d # c => lcall'[d] = lcall[d]
       /\ \/ attempt[a].stored /\ lcall'[c] = x
          \/ lcall'[c].pc = "idle"
    BY <1>9, <1>10, LoginCallMoves, LoginCallEnds
<1>12. LoginTypeOK'
    BY <1>1, <1>7, <1>11, LoginTypes DEF LoginTypeOK
<1>13. \A i \in Login : /\ attempt'[i].browser = attempt[i].browser /\ attempt'[i].scan = attempt[i].scan
                        /\ attempt'[i].request = attempt[i].request
                        /\ attempt'[i].stored => attempt[i].stored /\ i # a
    BY <1>5, <1>7
<1>14. NamesLogin'
    <2>1. \A b \in Browser : opCookie[b] # Unset => opCookie[b] \in Login
        BY LoginTypes
    <2>2. \A d \in LoginCall : lcall'[d].pc # "idle" => lcall'[d].a \in Login
        BY <1>9, <1>11 DEF LoginInv, NamesLogin
    <2>3. \A d \in LoginCall : lcall'[d].pc \in {"take", "mint"} =>
             /\ lcall'[d].b \in Browser
             /\ attempt'[lcall'[d].a].browser = lcall'[d].b
             /\ attempt'[lcall'[d].a].scan # "none"
        BY <1>3, <1>9, <1>11, <1>13 DEF LoginInv, NamesLogin
    <2> QED BY <1>1, <1>13, <2>1, <2>2, <2>3 DEF LoginInv, NamesLogin
<1>15. OneMint'
    <2>1. \A d \in LoginCall : lcall'[d].pc = "mint" =>
             \/ d = c /\ lcall'[d] = x /\ attempt[a].stored
             \/ d # c /\ lcall'[d] = lcall[d] /\ lcall[d].a \in Login
        BY <1>11 DEF LoginInv, NamesLogin
    <2>2. \A i \in Login : attempt'[i].scan = "none" => ~attempt'[i].stored /\ minted'[i] = 0
        BY <1>1, <1>13 DEF LoginInv, OneMint
    <2>3. \A i \in Login : attempt'[i].stored => minted'[i] = 0
        BY <1>1, <1>13 DEF LoginInv, OneMint
    <2>4. \A d \in LoginCall : lcall'[d].pc = "mint" =>
             ~attempt'[lcall'[d].a].stored /\ minted'[lcall'[d].a] = 0
        BY <1>1, <1>5, <1>7, <1>9, <1>13, <2>1 DEF LoginInv, OneMint
    <2>5. \A d, e \in LoginCall :
             lcall'[d].pc = "mint" /\ lcall'[e].pc = "mint" /\ lcall'[d].a = lcall'[e].a => d = e
        BY <1>9, <2>1 DEF LoginInv, OneMint
    <2> QED BY <2>2, <2>3, <2>4, <2>5 DEF OneMint
<1>16. OneRight'
    <2> SUFFICES ASSUME NEW i \in Login PROVE RightOf(i)'
        BY DEF OneRight
    <2>1. \A d \in LoginCall : CarriesAnswer(d, i)' => CarriesAnswer(d, i)
        BY <1>9, <1>11 DEF CarriesAnswer
    <2>2. \A p \in Page : AsksFor(p, i)' => AsksFor(p, i)
        BY <1>1 DEF AsksFor
    <2> QED BY <1>1, <2>1, <2>2, Counts, RightStands
<1>17. LookedUpConsent' /\ CodeStandsOnConsent'
    BY <1>1, <1>9, <1>11 DEF LoginInv, LookedUpConsent, CodeStandsOnConsent
<1>18. RightIsOwn'
    <2> SUFFICES ASSUME NEW i \in Login PROVE OwnRequest(i)'
        BY DEF RightIsOwn
    <2>1. \A d \in LoginCall : CarriesAnswer(d, i)' => CarriesAnswer(d, i) /\ lcall'[d].q = lcall[d].q
        BY <1>9, <1>11 DEF CarriesAnswer
    <2>2. \A p \in Page : AsksFor(p, i)' => AsksFor(p, i) /\ page'[p].q = page[p].q
        BY <1>1 DEF AsksFor
    <2> QED BY <1>1, <1>13, <2>1, <2>2, Counts, OwnStands
<1>19. \A i \in Login : minted'[i] <= 1 /\ answered'[i] \in {<<>>, <<attempt'[i].request>>}
    BY <1>1, <1>13, Counts
<1> QED BY <1>12, <1>14, <1>15, <1>16, <1>17, <1>18, <1>19, ScanStands

\* ... and turns it into a session with its one right.
LEMMA MintStep ==
    ASSUME LoginInv, NEW c \in LoginCall, MintOpSession(c)
    PROVE  LoginInv'
<1>1. /\ lcall[c].pc = "mint" /\ UNCHANGED <<attempt, page, consented, answered, codes>>
      /\ LoginEnds(c)
    BY DEF MintOpSession
<1>2. PICK a \in Login : a = lcall[c].a
    BY <1>1 DEF LoginInv, NamesLogin
<1>3. PICK b \in Browser : b = lcall[c].b
    BY <1>1 DEF LoginInv, NamesLogin
<1>4. /\ attempt[a].browser = b /\ attempt[a].scan # "none" /\ ~attempt[a].stored /\ minted[a] = 0
    BY <1>1, <1>2, <1>3 DEF LoginInv, NamesLogin, OneMint
<1>5. /\ opSession' = [opSession EXCEPT ![a] = "live"]
      /\ loginGrant' \in {loginGrant, [loginGrant EXCEPT ![a] = attempt[a].request]}
      /\ opCookie' \in {opCookie, [opCookie EXCEPT ![b] = a]}
      /\ minted' = [minted EXCEPT ![a] = UpTo2(@)]
    BY <1>2, <1>3 DEF MintOpSession
<1>6. /\ minted' \in [Login -> 0..2] /\ minted'[a] = 1
      /\ \A i \in Login : i # a => minted'[i] = minted[i]
    BY <1>4, <1>5, LoginTypes DEF UpTo2
<1>7. attempt[a].request \in RpRequest \cup {Unset}
    BY LoginTypes DEF LoginAttempt
<1>8. /\ opSession' \in [Login -> {"none", "live", "dead"}]
      /\ loginGrant' \in [Login -> RpRequest \cup {Unset}]
      /\ opCookie' \in [Browser -> Login \cup {Unset}]
      /\ \A i \in Login : i # a => loginGrant'[i] = loginGrant[i]
      /\ loginGrant'[a] \in {loginGrant[a], attempt[a].request}
      /\ opCookie'[b] \in {opCookie[b], a} /\ \A d \in Browser : d # b => opCookie'[d] = opCookie[d]
    BY <1>5, <1>7, LoginTypes
<1>9. /\ lcall' \in [LoginCall -> LoginRun] /\ lcall'[c].pc = "idle"
      /\ \A d \in LoginCall : d # c => lcall'[d] = lcall[d]
    BY <1>1, LoginCallEnds
<1>10. LoginTypeOK'
    BY <1>1, <1>6, <1>8, <1>9, LoginTypes DEF LoginTypeOK
<1>11. NamesLogin'
    BY <1>1, <1>4, <1>8, <1>9 DEF LoginInv, NamesLogin
<1>12. OneMint'
    <2>1. \A d \in LoginCall : lcall'[d].pc = "mint" =>
             /\ lcall'[d] = lcall[d] /\ d # c /\ lcall[d].a # a /\ lcall[d].a \in Login
        BY <1>1, <1>2, <1>9 DEF LoginInv, OneMint, NamesLogin
    <2> QED BY <1>1, <1>4, <1>6, <2>1 DEF LoginInv, OneMint
<1>13. OneRight'
    <2> SUFFICES ASSUME NEW i \in Login PROVE RightOf(i)'
        BY DEF OneRight
    <2>1. \A d \in LoginCall : CarriesAnswer(d, i)' => CarriesAnswer(d, i)
        BY <1>9 DEF CarriesAnswer
    <2>2. \A p \in Page : AsksFor(p, i)' => AsksFor(p, i)
        BY <1>1 DEF AsksFor
    <2>3. RightOf(i)
        BY Counts
    <2>4. CASE i # a
        BY <1>1, <1>6, <1>8, <2>1, <2>2, <2>3, <2>4, RightStands
    <2>5. CASE i = a
        BY <1>1, <1>4, <1>6, <2>1, <2>2, <2>3, <2>5 DEF RightOf
    <2> QED BY <2>4, <2>5
<1>14. LookedUpConsent' /\ CodeStandsOnConsent'
    BY <1>1, <1>9 DEF LoginInv, LookedUpConsent, CodeStandsOnConsent
<1>15. \A i \in Login : minted'[i] <= 1 /\ answered'[i] \in {<<>>, <<attempt'[i].request>>}
    BY <1>1, <1>6, Counts
<1>16. RightIsOwn'
    <2> SUFFICES ASSUME NEW i \in Login PROVE OwnRequest(i)'
        BY DEF RightIsOwn
    <2>1. \A d \in LoginCall : CarriesAnswer(d, i)' => CarriesAnswer(d, i) /\ lcall'[d].q = lcall[d].q
        BY <1>9 DEF CarriesAnswer
    <2>2. \A p \in Page : AsksFor(p, i)' => AsksFor(p, i) /\ page'[p].q = page[p].q
        BY <1>1 DEF AsksFor
    <2> QED BY <1>1, <1>8, <2>1, <2>2, Counts DEF OwnRequest
<1> QED BY <1>10, <1>11, <1>12, <1>13, <1>14, <1>15, <1>16, ScanStands

\* /authorize: the grant is taken, and becomes the right of this request only
\* when it fits.
LEMMA AuthorizeStep ==
    ASSUME LoginInv, NEW c \in LoginCall, NEW b \in Browser, NEW q \in RpRequest, NEW silent \in BOOLEAN,
           Authorize(c, b, q, silent)
    PROVE  LoginInv'
<1>1. /\ lcall[c].pc = "idle" /\ opCookie[b] # Unset
      /\ UNCHANGED <<attempt, opSession, opCookie, page, consented, minted, answered, codes>>
    BY DEF Authorize
<1>2. PICK s \in Login : s = opCookie[b]
    BY <1>1, LoginTypes
<1>3. /\ loginGrant' \in [Login -> RpRequest \cup {Unset}]
      /\ \A a \in Login : loginGrant'[a] \in {loginGrant[a], Unset}
      /\ ~silent => loginGrant'[s] = Unset
    BY <1>2, LoginTypes DEF Authorize, GrantTaken
<1>4. CASE UNCHANGED lcall
    <2>1. lcall' = [lcall EXCEPT ![c] = lcall[c]] /\ lcall[c] \in LoginRun
        BY <1>4, LoginTypes
    <2> QED BY <1>1, <1>3, <2>1, LoginTypes, QuietCall
<1>5. CASE ~UNCHANGED lcall
    <2>1. PICK x : x = [IdleLogin EXCEPT !.pc = "consent", !.b = b, !.a = s, !.q = q, !.silent = silent]
        OBVIOUS
    <2>2. x \in LoginRun /\ x.pc = "consent" /\ x.a = s /\ x.silent = silent /\ x.q = q
        BY <2>1 DEF IdleLogin, LoginRun
    <2>3. lcall' = [lcall EXCEPT ![c] = x] /\ (silent \/ loginGrant[s] = q)
        BY <1>2, <1>5, <2>1 DEF Authorize, MadeFor
    <2>4. CASE silent
        BY <1>1, <1>3, <2>2, <2>3, <2>4, LoginTypes, QuietCall
    <2>5. CASE ~silent
        <3>1. loginGrant[s] # Unset
            BY <2>3, <2>5, LoginAssumption
        <3>2. /\ lcall' \in [LoginCall -> LoginRun] /\ lcall'[c] = x
              /\ \A d \in LoginCall : d # c => lcall'[d] = lcall[d]
            BY <2>2, <2>3, LoginCallMoves
        <3>3. OneRight'
            <4> SUFFICES ASSUME NEW a \in Login PROVE RightOf(a)'
                BY DEF OneRight
            <4>1. \A d \in LoginCall : d # c \/ a # s => (CarriesAnswer(d, a)' => CarriesAnswer(d, a))
                BY <2>2, <3>2 DEF CarriesAnswer
            <4>2. \A p \in Page : AsksFor(p, a)' => AsksFor(p, a)
                BY <1>1 DEF AsksFor
            <4>3. RightOf(a)
                BY Counts
            <4>4. CASE a # s
                BY <1>1, <1>3, <4>1, <4>2, <4>3, <4>4, RightStands
            <4>5. CASE a = s
                BY <1>1, <1>3, <2>5, <3>1, <4>1, <4>2, <4>3, <4>5 DEF RightOf
            <4> QED BY <4>4, <4>5
        <3>4. LookedUpConsent' /\ CodeStandsOnConsent'
            BY <1>1, <2>2, <3>2 DEF LoginInv, LookedUpConsent, CodeStandsOnConsent
        <3>5. \A p \in Page : page'[p].st = "open" => page'[p].s \in Login
            BY <1>1 DEF LoginInv, NamesLogin
        <3>6. RightIsOwn'
            <4> SUFFICES ASSUME NEW a \in Login PROVE OwnRequest(a)'
                BY DEF RightIsOwn
            <4>1. OwnRequest(a)
                BY Counts
            <4>2. \A d \in LoginCall : CarriesAnswer(d, a)' =>
                     \/ CarriesAnswer(d, a) /\ lcall'[d].q = lcall[d].q
                     \/ a = s /\ lcall'[d].q = loginGrant[s]
                BY <2>2, <2>3, <2>5, <3>2 DEF CarriesAnswer
            <4>3. \A p \in Page : AsksFor(p, a)' => AsksFor(p, a) /\ page'[p].q = page[p].q
                BY <1>1 DEF AsksFor
            <4> QED BY <1>1, <1>3, <3>1, <4>1, <4>2, <4>3 DEF OwnRequest
        <3> QED BY <1>1, <1>3, <2>2, <2>3, <3>3, <3>4, <3>5, <3>6, Counts, LoginTypes, CallFollows
    <2> QED BY <2>4, <2>5
<1> QED BY <1>4, <1>5

\* The consent lookup: the right goes on with the request, to a page, or is
\* given up.
LEMMA LookupStep ==
    ASSUME LoginInv, NEW c \in LoginCall, ConsentLookup(c)
    PROVE  LoginInv'
<1>1. /\ lcall[c].pc = "consent"
      /\ UNCHANGED <<attempt, opSession, loginGrant, opCookie, consented, minted, answered, codes>>
    BY DEF ConsentLookup
<1>2. PICK s \in Login : s = lcall[c].a
    BY <1>1 DEF LoginInv, NamesLogin
<1>3. lcall[c] \in LoginRun /\ lcall \in [LoginCall -> LoginRun]
    BY LoginTypes
<1>4. IdleLogin \in LoginRun /\ IdleLogin.pc = "idle"
    BY DEF IdleLogin, LoginRun
<1>5. CASE consented /\ lcall' = [lcall EXCEPT ![c].pc = "code"] /\ UNCHANGED page
    <2>1. PICK x : x = [lcall[c] EXCEPT !.pc = "code"]
        OBVIOUS
    <2>2. x \in LoginRun /\ x.pc = "code" /\ x.a = s /\ x.silent = lcall[c].silent /\ x.q = lcall[c].q
        BY <1>2, <1>3, <2>1 DEF LoginRun
    <2>3. lcall' = [lcall EXCEPT ![c] = x]
        BY <1>3, <1>5, <2>1
    <2>4. ~x.silent => CarriesAnswer(c, x.a)
        BY <1>1, <1>2, <2>2 DEF CarriesAnswer
    <2> QED BY <1>1, <1>5, <2>2, <2>3, <2>4, LoginTypes, QuietCall
<1>6. CASE LoginEnds(c) /\ UNCHANGED page
    BY <1>1, <1>4, <1>6, LoginTypes, QuietCall DEF LoginEnds
<1>7. ASSUME NEW p \in Page, LoginEnds(c), page[p].st = "none",
             page' = [page EXCEPT ![p] = [st |-> "open", s |-> lcall[c].a, q |-> lcall[c].q,
                                          silent |-> lcall[c].silent]]
      PROVE  LoginInv'
    <2>1. PICK y : y = [st |-> "open", s |-> lcall[c].a, q |-> lcall[c].q, silent |-> lcall[c].silent]
        OBVIOUS
    <2>2. y \in ConsentPage /\ y.s = s /\ y.silent = lcall[c].silent /\ y.q = lcall[c].q
        BY <1>2, <1>3, <2>1 DEF ConsentPage, LoginRun
    <2>3. /\ page' \in [Page -> ConsentPage] /\ page'[p] = y
          /\ \A x \in Page : x # p => page'[x] = page[x]
        BY <1>7, <2>1, <2>2, LoginTypes
    <2>4. /\ lcall' \in [LoginCall -> LoginRun] /\ lcall'[c].pc = "idle"
          /\ \A d \in LoginCall : d # c => lcall'[d] = lcall[d]
        BY <1>7, LoginCallEnds
    <2>5. OneRight'
        <3> SUFFICES ASSUME NEW a \in Login PROVE RightOf(a)'
            BY DEF OneRight
        <3>1. \A d \in LoginCall : CarriesAnswer(d, a)' => CarriesAnswer(d, a) /\ d # c
            BY <2>4 DEF CarriesAnswer
        <3>2. \A x \in Page : AsksFor(x, a)' =>
                 \/ AsksFor(x, a)
                 \/ x = p /\ a = s /\ ~lcall[c].silent
            BY <2>2, <2>3 DEF AsksFor
        <3>3. RightOf(a)
            BY Counts
        <3>4. CASE a = s /\ ~lcall[c].silent
            <4>1. CarriesAnswer(c, a)
                BY <1>1, <1>2, <3>4 DEF CarriesAnswer
            <4> QED BY <1>1, <3>1, <3>2, <3>3, <4>1 DEF RightOf
        <3>5. CASE ~(a = s /\ ~lcall[c].silent)
            BY <1>1, <3>1, <3>2, <3>3, <3>5, RightStands
        <3> QED BY <3>4, <3>5
    <2>6. \A x \in Page : page'[x].st = "open" => page'[x].s \in Login
        BY <2>2, <2>3 DEF LoginInv, NamesLogin
    <2>7. LookedUpConsent' /\ CodeStandsOnConsent'
        BY <1>1, <2>4 DEF LoginInv, LookedUpConsent, CodeStandsOnConsent
    <2>8. lcall' = [lcall EXCEPT ![c] = IdleLogin]
        BY <1>7 DEF LoginEnds
    <2>9. RightIsOwn'
        <3> SUFFICES ASSUME NEW a \in Login PROVE OwnRequest(a)'
            BY DEF RightIsOwn
        <3>1. \A d \in LoginCall : CarriesAnswer(d, a)' => CarriesAnswer(d, a) /\ lcall'[d].q = lcall[d].q
            BY <2>4 DEF CarriesAnswer
        <3>2. \A x \in Page : AsksFor(x, a)' =>
                 \/ AsksFor(x, a) /\ page'[x].q = page[x].q
                 \/ CarriesAnswer(c, a) /\ page'[x].q = lcall[c].q
            BY <1>1, <1>2, <2>2, <2>3 DEF AsksFor, CarriesAnswer
        <3> QED BY <1>1, <3>1, <3>2, Counts DEF OwnRequest
    <2> QED BY <1>1, <1>4, <2>3, <2>5, <2>6, <2>7, <2>8, <2>9, Counts, LoginTypes, CallFollows
<1> QED BY <1>5, <1>6, <1>7 DEF ConsentLookup

\* The code is issued: the right is used up.
LEMMA IssueStep ==
    ASSUME LoginInv, NEW c \in LoginCall, IssueCode(c)
    PROVE  LoginInv'
<1>1. /\ lcall[c].pc = "code" /\ LoginEnds(c)
      /\ codes' = codes \cup {IF lcall[c].stale THEN "raced" ELSE "plain"}
      /\ UNCHANGED <<attempt, opSession, loginGrant, opCookie, page, consented, minted>>
    BY DEF IssueCode
<1>2. PICK s \in Login : s = lcall[c].a
    BY <1>1 DEF LoginInv, NamesLogin
<1>3. answered' = IF lcall[c].silent THEN answered ELSE [answered EXCEPT ![s] = Append(@, lcall[c].q)]
    BY <1>2 DEF IssueCode
<1>4. /\ lcall' \in [LoginCall -> LoginRun] /\ lcall'[c].pc = "idle"
      /\ \A d \in LoginCall : d # c => lcall'[d] = lcall[d]
    BY <1>1, LoginCallEnds
<1>5. ~lcall[c].silent => CarriesAnswer(c, s)
    BY <1>1, <1>2 DEF CarriesAnswer
<1>6. /\ answered' \in [Login -> Seq(RpRequest \cup {Unset})]
      /\ \A a \in Login : a # s \/ lcall[c].silent => answered'[a] = answered[a]
      /\ ~lcall[c].silent => answered[s] = <<>> /\ answered'[s] = <<attempt[s].request>>
    <2>1. ~lcall[c].silent => answered[s] = <<>> /\ lcall[c].q = attempt[s].request
        BY <1>5, Counts DEF RightOf, OwnRequest
    <2>2. lcall[c].q \in RpRequest \cup {Unset}
        BY LoginTypes DEF LoginRun
    <2>3. Append(<<>>, lcall[c].q) = <<lcall[c].q>> /\ <<lcall[c].q>> \in Seq(RpRequest \cup {Unset})
        BY <2>2
    <2>4. CASE lcall[c].silent
        BY <1>3, <2>4, LoginTypes
    <2>5. CASE ~lcall[c].silent
        BY <1>3, <2>1, <2>3, <2>5, LoginTypes
    <2> QED BY <2>4, <2>5
<1>7. OneRight'
    <2> SUFFICES ASSUME NEW a \in Login PROVE RightOf(a)'
        BY DEF OneRight
    <2>1. \A d \in LoginCall : CarriesAnswer(d, a)' => CarriesAnswer(d, a) /\ d # c
        BY <1>4 DEF CarriesAnswer
    <2>2. \A p \in Page : AsksFor(p, a)' => AsksFor(p, a)
        BY <1>1 DEF AsksFor
    <2>3. RightOf(a)
        BY Counts
    <2>4. CASE a # s \/ lcall[c].silent
        BY <1>1, <1>6, <2>1, <2>2, <2>3, <2>4, RightStands
    <2>5. CASE a = s /\ ~lcall[c].silent
        BY <1>1, <1>5, <2>1, <2>2, <2>3, <2>5 DEF RightOf
    <2> QED BY <2>4, <2>5
<1>8. CodeStandsOnConsent'
    BY <1>1 DEF LoginInv, CodeStandsOnConsent, LookedUpConsent
<1>9. LookedUpConsent'
    BY <1>1, <1>4 DEF LoginInv, LookedUpConsent
<1>10. \A p \in Page : page'[p].st = "open" => page'[p].s \in Login
    BY <1>1 DEF LoginInv, NamesLogin
<1>11. codes' \in SUBSET {"plain", "raced"}
    BY <1>1, LoginTypes
<1>12. \A a \in Login : answered'[a] \in {<<>>, <<attempt[a].request>>}
    BY <1>6, Counts
<1>13. IdleLogin \in LoginRun /\ IdleLogin.pc = "idle" /\ lcall' = [lcall EXCEPT ![c] = IdleLogin]
    BY <1>1 DEF IdleLogin, LoginRun, LoginEnds
<1>14. consented' \in BOOLEAN /\ loginGrant' \in [Login -> RpRequest \cup {Unset}]
       /\ page' \in [Page -> ConsentPage]
    BY <1>1, LoginTypes
<1>15. RightIsOwn'
    <2> SUFFICES ASSUME NEW a \in Login PROVE OwnRequest(a)'
        BY DEF RightIsOwn
    <2>1. \A d \in LoginCall : CarriesAnswer(d, a)' => CarriesAnswer(d, a) /\ lcall'[d].q = lcall[d].q
        BY <1>4 DEF CarriesAnswer
    <2>2. \A p \in Page : AsksFor(p, a)' => AsksFor(p, a) /\ page'[p].q = page[p].q
        BY <1>1 DEF AsksFor
    <2> QED BY <1>1, <2>1, <2>2, Counts, OwnStands
<1> QED BY <1>1, <1>6, <1>7, <1>8, <1>9, <1>10, <1>11, <1>12, <1>13, <1>14, <1>15, CallFollows

\* A consent page is answered once; its right goes to the answering request.
LEMMA AnswerPageStep ==
    ASSUME LoginInv, NEW c \in LoginCall, NEW b \in Browser, NEW p \in Page, AnswerPage(c, b, p)
    PROVE  LoginInv'
<1>1. /\ lcall[c].pc = "idle" /\ page[p].st = "open"
      /\ UNCHANGED <<attempt, opSession, loginGrant, opCookie, consented, minted, answered, codes>>
    BY DEF AnswerPage
<1>2. PICK s \in Login : s = page[p].s
    BY <1>1 DEF LoginInv, NamesLogin
<1>3. PICK y : y = [page[p] EXCEPT !.st = "taken"]
    OBVIOUS
<1>4. y \in ConsentPage /\ y.st = "taken" /\ page[p].silent \in BOOLEAN
      /\ page[p].q \in RpRequest \cup {Unset}
    <2>1. page[p] \in ConsentPage
        BY LoginTypes
    <2> QED BY <1>3, <2>1 DEF ConsentPage
<1>5. /\ page' \in [Page -> ConsentPage] /\ page'[p] = y
      /\ \A x \in Page : x # p => page'[x] = page[x]
    BY <1>3, <1>4, LoginTypes DEF AnswerPage, PageTaken
<1>6. \A x \in Page : page'[x].st = "open" => page'[x] = page[x] /\ x # p
    BY <1>4, <1>5
<1>7. CASE UNCHANGED lcall
    <2>1. lcall' = [lcall EXCEPT ![c] = lcall[c]] /\ lcall[c] \in LoginRun
        BY <1>7, LoginTypes
    <2> QED BY <1>1, <1>5, <1>6, <2>1, LoginTypes, QuietCall
<1>8. CASE ~UNCHANGED lcall
    <2>1. PICK x : x = [IdleLogin EXCEPT !.pc = "decide", !.b = b, !.a = page[p].s, !.q = page[p].q,
                                      !.silent = page[p].silent]
        OBVIOUS
    <2>2. x \in LoginRun /\ x.pc = "decide" /\ x.a = s /\ x.silent = page[p].silent /\ x.q = page[p].q
        BY <1>2, <1>4, <2>1 DEF IdleLogin, LoginRun
    <2>3. lcall' = [lcall EXCEPT ![c] = x]
        BY <1>8, <2>1 DEF AnswerPage
    <2>4. /\ lcall' \in [LoginCall -> LoginRun] /\ lcall'[c] = x
          /\ \A d \in LoginCall : d # c => lcall'[d] = lcall[d]
        BY <2>2, <2>3, LoginCallMoves
    <2>5. OneRight'
        <3> SUFFICES ASSUME NEW a \in Login PROVE RightOf(a)'
            BY DEF OneRight
        <3>1. \A d \in LoginCall : CarriesAnswer(d, a)' =>
                 \/ CarriesAnswer(d, a)
                 \/ d = c /\ a = s /\ ~page[p].silent
            BY <2>2, <2>4 DEF CarriesAnswer
        <3>2. \A x2 \in Page : AsksFor(x2, a)' => AsksFor(x2, a) /\ x2 # p
            BY <1>6 DEF AsksFor
        <3>3. RightOf(a)
            BY Counts
        <3>4. CASE a = s /\ ~page[p].silent
            <4>1. AsksFor(p, a)
                BY <1>1, <1>2, <3>4 DEF AsksFor
            <4> QED BY <1>1, <3>1, <3>2, <3>3, <4>1 DEF RightOf
        <3>5. CASE ~(a = s /\ ~page[p].silent)
            BY <1>1, <3>1, <3>2, <3>3, <3>5, RightStands
        <3> QED BY <3>4, <3>5
    <2>6. \A x2 \in Page : page'[x2].st = "open" => page'[x2].s \in Login
        BY <1>6 DEF LoginInv, NamesLogin
    <2>7. LookedUpConsent' /\ CodeStandsOnConsent'
        BY <1>1, <2>2, <2>4 DEF LoginInv, LookedUpConsent, CodeStandsOnConsent
    <2>8. RightIsOwn'
        <3> SUFFICES ASSUME NEW a \in Login PROVE OwnRequest(a)'
            BY DEF RightIsOwn
        <3>1. \A d \in LoginCall : CarriesAnswer(d, a)' =>
                 \/ CarriesAnswer(d, a) /\ lcall'[d].q = lcall[d].q
                 \/ AsksFor(p, a) /\ lcall'[d].q = page[p].q
            BY <1>1, <1>2, <2>2, <2>4 DEF CarriesAnswer, AsksFor
        <3>2. \A x2 \in Page : AsksFor(x2, a)' => AsksFor(x2, a) /\ page'[x2].q = page[x2].q
            BY <1>6 DEF AsksFor
        <3> QED BY <1>1, <3>1, <3>2, Counts DEF OwnRequest
    <2> QED BY <1>1, <1>5, <2>2, <2>3, <2>5, <2>6, <2>7, <2>8, Counts, LoginTypes, CallFollows
<1> QED BY <1>7, <1>8

\* Withdrawing the consent takes the codes with it and overtakes the requests
\* that looked it up.
LEMMA WithdrawStep ==
    ASSUME LoginInv, WithdrawConsent
    PROVE  LoginInv'
<1>1. /\ consented' = FALSE /\ codes' = {} /\ lcall' = LookedUp(lcall)
      /\ UNCHANGED <<attempt, opSession, loginGrant, opCookie, page, minted, answered>>
    BY DEF WithdrawConsent
<1>2. \A c \in LoginCall :
         /\ lcall'[c] \in LoginRun
         /\ lcall'[c].pc = lcall[c].pc /\ lcall'[c].a = lcall[c].a /\ lcall'[c].b = lcall[c].b
         /\ lcall'[c].silent = lcall[c].silent /\ lcall'[c].q = lcall[c].q
         /\ lcall'[c].pc = "code" => lcall'[c].stale
    <2> TAKE c \in LoginCall
    <2>1. lcall[c] \in LoginRun
        BY LoginTypes
    <2>2. lcall'[c] = IF lcall[c].pc = "code" THEN [lcall[c] EXCEPT !.stale = TRUE] ELSE lcall[c]
        BY <1>1 DEF LookedUp
    <2>3. CASE lcall[c].pc = "code"
        BY <2>1, <2>2, <2>3 DEF LoginRun
    <2>4. CASE lcall[c].pc # "code"
        BY <2>1, <2>2, <2>4
    <2> QED BY <2>3, <2>4
<1>3. lcall' \in [LoginCall -> LoginRun]
    BY <1>1, <1>2 DEF LookedUp
<1>4. LoginTypeOK'
    BY <1>1, <1>3, LoginTypes DEF LoginTypeOK
<1>5. NamesLogin'
    BY <1>1, <1>2 DEF LoginInv, NamesLogin
<1>6. OneMint'
    BY <1>1, <1>2 DEF LoginInv, OneMint
<1>7. OneRight'
    <2> SUFFICES ASSUME NEW a \in Login PROVE RightOf(a)'
        BY DEF OneRight
    <2>1. \A d \in LoginCall : CarriesAnswer(d, a)' => CarriesAnswer(d, a)
        BY <1>2 DEF CarriesAnswer
    <2>2. \A p \in Page : AsksFor(p, a)' => AsksFor(p, a)
        BY <1>1 DEF AsksFor
    <2> QED BY <1>1, <2>1, <2>2, Counts, RightStands
<1>8. LookedUpConsent' /\ CodeStandsOnConsent'
    BY <1>1, <1>2 DEF LookedUpConsent, CodeStandsOnConsent
<1>9. RightIsOwn'
    <2> SUFFICES ASSUME NEW a \in Login PROVE OwnRequest(a)'
        BY DEF RightIsOwn
    <2>1. \A d \in LoginCall : CarriesAnswer(d, a)' => CarriesAnswer(d, a) /\ lcall'[d].q = lcall[d].q
        BY <1>2 DEF CarriesAnswer
    <2>2. \A p \in Page : AsksFor(p, a)' => AsksFor(p, a) /\ page'[p].q = page[p].q
        BY <1>1 DEF AsksFor
    <2> QED BY <1>1, <2>1, <2>2, Counts, OwnStands
<1> QED BY <1>1, <1>4, <1>5, <1>6, <1>7, <1>8, <1>9, Counts, ScanStands

\* The inductive step.
LEMMA LoginStep == LoginInv /\ [LoginNext]_loginVars => LoginInv'
<1> SUFFICES ASSUME LoginInv, [LoginNext]_loginVars PROVE LoginInv'
    OBVIOUS
<1>1. CASE UNCHANGED loginVars
    BY <1>1 DEF loginVars, LoginInv, LoginTypeOK, NamesLogin, OneMint, OneRight, RightOf, CarriesAnswer,
                AsksFor, RightIsOwn, OwnRequest, LookedUpConsent, OneAnswerPerScan, CodeStandsOnConsent
<1>2. CASE LoginNext
    BY <1>2, AttemptSteps, EndingSteps, QuietSteps, TakeStep, MintStep, AuthorizeStep, LookupStep,
       IssueStep, AnswerPageStep, WithdrawStep DEF LoginNext
<1> QED BY <1>1, <1>2

\* Nobody has signed in at the start.
LEMMA LoginStart == LoginInit => LoginInv
<1> SUFFICES ASSUME LoginInit PROVE LoginInv
    OBVIOUS
<1>1. /\ IdleLogin \in LoginRun /\ IdleLogin.pc = "idle"
      /\ Attempt0 \in LoginAttempt /\ Attempt0.scan = "none" /\ Attempt0.stored = FALSE
    BY DEF IdleLogin, LoginRun, Attempt0, LoginAttempt
<1>2. PICK y : y = NoPage
    OBVIOUS
<1>3. y \in ConsentPage /\ y.st = "none"
    BY <1>2 DEF ConsentPage, NoPage
<1>4. \A p \in Page : page[p] = y
    BY <1>2 DEF LoginInit
<1>5. LoginTypeOK
    <2>1. page \in [Page -> ConsentPage]
        BY <1>2, <1>3 DEF LoginInit
    <2>2. minted \in [Login -> 0..2] /\ answered \in [Login -> Seq(RpRequest \cup {Unset})]
        BY DEF LoginInit
    <2> QED BY <1>1, <2>1, <2>2 DEF LoginInit, LoginTypeOK
<1>6. /\ \A c \in LoginCall : lcall[c].pc = "idle"
      /\ \A a \in Login : /\ attempt[a].scan = "none" /\ ~attempt[a].stored /\ minted[a] = 0
                          /\ answered[a] = <<>> /\ loginGrant[a] = Unset
      /\ \A b \in Browser : opCookie[b] = Unset
      /\ codes = {}
    BY <1>1 DEF LoginInit
<1>7. NamesLogin /\ OneMint /\ LookedUpConsent
    BY <1>3, <1>4, <1>6 DEF NamesLogin, OneMint, LookedUpConsent
<1>8. OneRight
    BY <1>3, <1>4, <1>6 DEF OneRight, RightOf, CarriesAnswer, AsksFor
<1>9. Unset \notin Login
    BY LoginAssumption DEF Login
<1>10. RightIsOwn
    BY <1>3, <1>4, <1>6 DEF RightIsOwn, OwnRequest, CarriesAnswer, AsksFor
<1> QED BY <1>5, <1>6, <1>7, <1>8, <1>9, <1>10 DEF LoginInv, OneAnswerPerScan, CodeStandsOnConsent

\* For any browsers, requests and concurrent calls: one scan becomes at most
\* one session, of the browser that asked, and answers at most the one request
\* it was made for, once.
THEOREM ScanAnswersOnce == LoginSpec => []OneAnswerPerScan
<1>1. LoginInv => OneAnswerPerScan
    BY DEF LoginInv
<1> QED BY <1>1, LoginStart, LoginStep, PTL DEF LoginSpec

\* A redeemable code whose issuing nobody overtook stands on a live consent.
THEOREM CodesStandOnConsent == LoginSpec => []CodeStandsOnConsent
<1>1. LoginInv => CodeStandsOnConsent
    BY DEF LoginInv
<1> QED BY <1>1, LoginStart, LoginStep, PTL DEF LoginSpec

-----------------------------------------------------------------------------
(***************************************************************************)
(* Codes and tokens of one grant, for any number of tokens and token       *)
(* requests.                                                               *)
(***************************************************************************)

\* The record of a token request, named so that the provers keep it whole.
CallRow == [pc : CallPc, old : Token \cup {NoToken}, new : Token \cup {NoToken},
            stale : BOOLEAN]

\* The parts of the type invariant, and the first token.
LEMMA GrantTypes ==
  ASSUME GrantTypeOK
  PROVE  /\ code \in [used : BOOLEAN, replayed : BOOLEAN, lapsed : BOOLEAN]
         /\ refresh \in [Token -> RefreshRow]
         /\ access \in [Token -> AccessRow]
         /\ consent \in BOOLEAN /\ aged \in BOOLEAN
         /\ call \in [Call -> CallRow]
         /\ ended \in SUBSET Ending
         /\ 1 \in Token /\ NoToken \notin Token
BY GrantAssumption DEF GrantTypeOK, CallRow, Token

\* A request that moves on keeps the tokens it holds and its staleness; one
\* that ends forgets them.
LEMMA CallMoves ==
  ASSUME call \in [Call -> CallRow], NEW c \in Call
  PROVE  /\ \A pc \in CallPc : CallGoto(c, pc) =>
               /\ call' \in [Call -> CallRow]
               /\ call'[c].pc = pc /\ call'[c].old = call[c].old
               /\ call'[c].new = call[c].new /\ call'[c].stale = call[c].stale
               /\ \A d \in Call : d # c => call'[d] = call[d]
         /\ CallEnds(c) =>
               /\ call' \in [Call -> CallRow]
               /\ call'[c].pc = "idle" /\ call'[c].new = NoToken
               /\ \A d \in Call : d # c => call'[d] = call[d]
<1>1. ASSUME NEW pc \in CallPc, CallGoto(c, pc)
      PROVE  /\ call' \in [Call -> CallRow]
             /\ call'[c].pc = pc /\ call'[c].old = call[c].old
             /\ call'[c].new = call[c].new /\ call'[c].stale = call[c].stale
             /\ \A d \in Call : d # c => call'[d] = call[d]
  <2>1. PICK k : k = [call[c] EXCEPT !.pc = pc]
    OBVIOUS
  <2>2. /\ k \in CallRow /\ k.pc = pc /\ k.old = call[c].old
        /\ k.new = call[c].new /\ k.stale = call[c].stale
    BY <2>1 DEF CallRow
  <2>3. call' = [call EXCEPT ![c] = k]
    BY <1>1, <2>1 DEF CallGoto
  <2> QED
    BY <2>2, <2>3
<1>2. ASSUME CallEnds(c)
      PROVE  /\ call' \in [Call -> CallRow]
             /\ call'[c].pc = "idle" /\ call'[c].new = NoToken
             /\ \A d \in Call : d # c => call'[d] = call[d]
  <2>1. IdleCall \in CallRow /\ IdleCall.pc = "idle" /\ IdleCall.new = NoToken
    BY DEF IdleCall, CallRow, CallPc
  <2> QED
    BY <1>2, <2>1 DEF CallEnds
<1> QED
  BY <1>1, <1>2

\* An ending makes every running request stale and changes nothing else of it.
LEMMA OutlastingIs ==
  ASSUME NEW cs \in [Call -> CallRow]
  PROVE  /\ Outlasting(cs) \in [Call -> CallRow]
         /\ \A d \in Call : /\ Outlasting(cs)[d].pc = cs[d].pc
                            /\ Outlasting(cs)[d].old = cs[d].old
                            /\ Outlasting(cs)[d].new = cs[d].new
                            /\ cs[d].pc # "idle" => Outlasting(cs)[d].stale
<1> SUFFICES ASSUME NEW d \in Call
             PROVE  /\ Outlasting(cs)[d] \in CallRow
                    /\ Outlasting(cs)[d].pc = cs[d].pc
                    /\ Outlasting(cs)[d].old = cs[d].old
                    /\ Outlasting(cs)[d].new = cs[d].new
                    /\ cs[d].pc # "idle" => Outlasting(cs)[d].stale
  BY DEF Outlasting
<1>1. CASE cs[d].pc = "idle"
  BY <1>1 DEF Outlasting
<1>2. CASE cs[d].pc # "idle"
  <2>1. Outlasting(cs)[d] = [cs[d] EXCEPT !.stale = TRUE] /\ cs[d] \in CallRow
    BY <1>2 DEF Outlasting
  <2> QED
    BY <2>1 DEF CallRow
<1> QED
  BY <1>1, <1>2

\* The family's updateMany revokes what lives and changes nothing else.
LEMMA RevokedRefresh ==
  ASSUME refresh \in [Token -> RefreshRow]
  PROVE  /\ RevokedRows(refresh) \in [Token -> RefreshRow]
         /\ \A t \in Token : /\ RevokedRows(refresh)[t].st # "live"
                             /\ RevokedRows(refresh)[t].st = "none" <=> refresh[t].st = "none"
                             /\ RevokedRows(refresh)[t].rotated = refresh[t].rotated
                             /\ RevokedRows(refresh)[t].raced = refresh[t].raced
<1> SUFFICES ASSUME NEW t \in Token
             PROVE  /\ RevokedRows(refresh)[t] \in RefreshRow
                    /\ RevokedRows(refresh)[t].st # "live"
                    /\ RevokedRows(refresh)[t].st = "none" <=> refresh[t].st = "none"
                    /\ RevokedRows(refresh)[t].rotated = refresh[t].rotated
                    /\ RevokedRows(refresh)[t].raced = refresh[t].raced
  BY DEF RevokedRows
<1>1. CASE refresh[t].st = "live"
  <2>1. RevokedRows(refresh)[t] = [refresh[t] EXCEPT !.st = "revoked"] /\ refresh[t] \in RefreshRow
    BY <1>1 DEF RevokedRows
  <2> QED
    BY <1>1, <2>1 DEF RefreshRow
<1>2. CASE refresh[t].st # "live"
  BY <1>2 DEF RevokedRows
<1> QED
  BY <1>1, <1>2

\* The same for the access tokens.
LEMMA RevokedAccess ==
  ASSUME access \in [Token -> AccessRow]
  PROVE  /\ RevokedRows(access) \in [Token -> AccessRow]
         /\ \A t \in Token : /\ RevokedRows(access)[t].st # "live"
                             /\ RevokedRows(access)[t].st = "none" <=> access[t].st = "none"
<1> SUFFICES ASSUME NEW t \in Token
             PROVE  /\ RevokedRows(access)[t] \in AccessRow
                    /\ RevokedRows(access)[t].st # "live"
                    /\ RevokedRows(access)[t].st = "none" <=> access[t].st = "none"
  BY DEF RevokedRows
<1>1. CASE access[t].st = "live"
  <2>1. RevokedRows(access)[t] = [access[t] EXCEPT !.st = "revoked"] /\ access[t] \in AccessRow
    BY <1>1 DEF RevokedRows
  <2> QED
    BY <1>1, <2>1 DEF AccessRow
<1>2. CASE access[t].st # "live"
  BY <1>2 DEF RevokedRows
<1> QED
  BY <1>1, <1>2
\* A request holds tokens or none.
LEMMA HeldTokens ==
  ASSUME GrantTypeOK, NEW d \in Call
  PROVE  call[d].new \in Token \cup {NoToken} /\ call[d].old \in Token \cup {NoToken}
BY DEF GrantTypeOK


\* Reading the code decides between the claim and a replay.
LEMMA RedeemReadStep ==
  ASSUME GrantInv, NEW c \in Call, RedeemRead(c)
  PROVE  GrantInv'
<1>0. /\ code \in [used : BOOLEAN, replayed : BOOLEAN, lapsed : BOOLEAN]
      /\ refresh \in [Token -> RefreshRow] /\ access \in [Token -> AccessRow]
      /\ consent \in BOOLEAN /\ aged \in BOOLEAN
      /\ call \in [Call -> CallRow] /\ ended \in SUBSET Ending
      /\ 1 \in Token /\ NoToken \notin Token
      /\ \A d \in Call : call[d].new \in Token \cup {NoToken}
  BY GrantTypes, HeldTokens DEF GrantInv
<1>1. /\ call' \in [Call -> CallRow]
      /\ \A d \in Call : d # c => call'[d] = call[d]
      /\ call'[c].old = call[c].old /\ call'[c].new = call[c].new
      /\ call'[c].stale = call[c].stale
      /\ call[c].pc = "idle"
      /\ call'[c].pc = (IF code.used THEN "mark" ELSE "claim")
      /\ UNCHANGED <<code, refresh, access, consent, aged, ended>>
  BY <1>0, CallMoves DEF RedeemRead, CallPc
<1>2. GrantTypeOK'
  BY <1>0, <1>1 DEF GrantTypeOK, CallRow
<1>3. \A d \in Call : CallHolds(d)'
  BY <1>0, <1>1 DEF GrantInv, CallHolds
<1>4. FirstIsFirst' /\ UnusedIsFresh'
  BY <1>0, <1>1 DEF GrantInv, FirstIsFirst, UnusedIsFresh
<1>5. OneRedeemer'
  BY <1>0, <1>1 DEF GrantInv, UnusedIsFresh, OneRedeemer, Redeeming
<1>6. ReplayCaught'
  BY <1>0, <1>1 DEF GrantInv, ReplayCaught, Redeeming
<1>7. OutlivingIsRaced'
  BY <1>0, <1>1 DEF GrantInv, OutlivingIsRaced, CallOutlives, Redeeming
<1>8. OneTip'
  BY <1>0, <1>1 DEF GrantInv, OneTip, Tip, Presented, Undecided
<1> QED
  BY <1>2, <1>3, <1>4, <1>5, <1>6, <1>7, <1>8 DEF GrantInv

\* The claim makes one redeemer.
LEMMA RedeemClaimStep ==
  ASSUME GrantInv, NEW c \in Call, RedeemClaim(c)
  PROVE  GrantInv'
<1>0. /\ code \in [used : BOOLEAN, replayed : BOOLEAN, lapsed : BOOLEAN]
      /\ refresh \in [Token -> RefreshRow] /\ access \in [Token -> AccessRow]
      /\ consent \in BOOLEAN /\ aged \in BOOLEAN
      /\ call \in [Call -> CallRow] /\ ended \in SUBSET Ending
      /\ 1 \in Token /\ NoToken \notin Token
      /\ \A d \in Call : call[d].new \in Token \cup {NoToken}
  BY GrantTypes, HeldTokens DEF GrantInv
<1>1. /\ call' \in [Call -> CallRow]
      /\ \A d \in Call : d # c => call'[d] = call[d]
      /\ call'[c].old = call[c].old /\ call'[c].new = call[c].new
      /\ call'[c].stale = call[c].stale
      /\ call[c].pc = "claim"
      /\ call'[c].pc = (IF code.used THEN "mark" ELSE "first_access")
      /\ code'.used /\ code'.replayed = code.replayed
      /\ code' \in [used : BOOLEAN, replayed : BOOLEAN, lapsed : BOOLEAN]
      /\ UNCHANGED <<refresh, access, consent, aged, ended>>
  BY <1>0, CallMoves DEF RedeemClaim, CallPc
<1>2. GrantTypeOK'
  BY <1>0, <1>1 DEF GrantTypeOK, CallRow
<1>3. \A d \in Call : CallHolds(d)'
  BY <1>0, <1>1 DEF GrantInv, CallHolds
<1>4. FirstIsFirst' /\ UnusedIsFresh'
  BY <1>0, <1>1 DEF GrantInv, FirstIsFirst, UnusedIsFresh
<1>5. OneRedeemer'
  BY <1>0, <1>1 DEF GrantInv, UnusedIsFresh, OneRedeemer, Redeeming
<1>6. ReplayCaught'
  BY <1>0, <1>1 DEF GrantInv, ReplayCaught, Redeeming
<1>7. OutlivingIsRaced'
  BY <1>0, <1>1 DEF GrantInv, UnusedIsFresh, OutlivingIsRaced, CallOutlives, Redeeming
<1>8. OneTip'
  BY <1>0, <1>1 DEF GrantInv, OneTip, Tip, Presented, Undecided
<1> QED
  BY <1>2, <1>3, <1>4, <1>5, <1>6, <1>7, <1>8 DEF GrantInv

\* The redemption looks for the mark.
LEMMA AfterMintStep ==
  ASSUME GrantInv, NEW c \in Call, AfterMint(c)
  PROVE  GrantInv'
<1>0. /\ code \in [used : BOOLEAN, replayed : BOOLEAN, lapsed : BOOLEAN]
      /\ refresh \in [Token -> RefreshRow] /\ access \in [Token -> AccessRow]
      /\ consent \in BOOLEAN /\ aged \in BOOLEAN
      /\ call \in [Call -> CallRow] /\ ended \in SUBSET Ending
      /\ 1 \in Token /\ NoToken \notin Token
      /\ \A d \in Call : call[d].new \in Token \cup {NoToken}
  BY GrantTypes, HeldTokens DEF GrantInv
<1>n. call[c].new = NoToken
  BY DEF GrantInv, CallHolds, AfterMint
<1>1. /\ call' \in [Call -> CallRow]
      /\ \A d \in Call : d # c => call'[d] = call[d]
      /\ call[c].pc = "after_mint"
      /\ call'[c].pc = (IF code.replayed THEN "invalidate" ELSE "idle")
      /\ call[c].new = NoToken /\ call'[c].new = NoToken
      /\ UNCHANGED <<code, refresh, access, consent, aged, ended>>
  BY <1>0, <1>n, CallMoves DEF AfterMint, MarkSeen, CallPc
<1>2. GrantTypeOK'
  BY <1>0, <1>1 DEF GrantTypeOK, CallRow
<1>3. \A d \in Call : CallHolds(d)'
  BY <1>0, <1>1 DEF GrantInv, CallHolds
<1>4. FirstIsFirst' /\ UnusedIsFresh'
  BY <1>0, <1>1 DEF GrantInv, FirstIsFirst, UnusedIsFresh
<1>5. OneRedeemer'
  BY <1>0, <1>1 DEF GrantInv, UnusedIsFresh, OneRedeemer, Redeeming
<1>6. ReplayCaught'
  BY <1>0, <1>1 DEF GrantInv, ReplayCaught, Redeeming
<1>7. OutlivingIsRaced'
  BY <1>0, <1>1 DEF GrantInv, OutlivingIsRaced, CallOutlives, Redeeming
<1>8. OneTip'
  BY <1>0, <1>1 DEF GrantInv, OneTip, Tip, Presented, Undecided
<1> QED
  BY <1>2, <1>3, <1>4, <1>5, <1>6, <1>7, <1>8 DEF GrantInv

\* A replay marks the code before it revokes.
LEMMA ReplayMarkStep ==
  ASSUME GrantInv, NEW c \in Call, ReplayMark(c)
  PROVE  GrantInv'
<1>0. /\ code \in [used : BOOLEAN, replayed : BOOLEAN, lapsed : BOOLEAN]
      /\ refresh \in [Token -> RefreshRow] /\ access \in [Token -> AccessRow]
      /\ consent \in BOOLEAN /\ aged \in BOOLEAN
      /\ call \in [Call -> CallRow] /\ ended \in SUBSET Ending
      /\ 1 \in Token /\ NoToken \notin Token
      /\ \A d \in Call : call[d].new \in Token \cup {NoToken}
  BY GrantTypes, HeldTokens DEF GrantInv
<1>1. /\ call' \in [Call -> CallRow]
      /\ \A d \in Call : d # c => call'[d] = call[d]
      /\ call'[c].old = call[c].old /\ call'[c].new = call[c].new
      /\ call'[c].stale = call[c].stale
      /\ call[c].pc = "mark" /\ call'[c].pc = "invalidate"
      /\ code'.used = code.used
      /\ code' \in [used : BOOLEAN, replayed : BOOLEAN, lapsed : BOOLEAN]
      /\ UNCHANGED <<refresh, access, consent, aged, ended>>
  BY <1>0, CallMoves DEF ReplayMark, CallPc
<1>2. GrantTypeOK'
  BY <1>0, <1>1 DEF GrantTypeOK, CallRow
<1>3. \A d \in Call : CallHolds(d)'
  BY <1>0, <1>1 DEF GrantInv, CallHolds
<1>4. FirstIsFirst' /\ UnusedIsFresh'
  BY <1>0, <1>1 DEF GrantInv, FirstIsFirst, UnusedIsFresh
<1>5. OneRedeemer'
  BY <1>0, <1>1 DEF GrantInv, UnusedIsFresh, OneRedeemer, Redeeming
<1>6. ReplayCaught'
  BY <1>0, <1>1 DEF GrantInv, ReplayCaught, Redeeming
<1>7. OutlivingIsRaced'
  BY <1>0, <1>1 DEF GrantInv, OutlivingIsRaced, CallOutlives, Redeeming
<1>8. OneTip'
  BY <1>0, <1>1 DEF GrantInv, OneTip, Tip, Presented, Undecided
<1> QED
  BY <1>2, <1>3, <1>4, <1>5, <1>6, <1>7, <1>8 DEF GrantInv

\* The access token of the code, or the 503.
LEMMA FirstAccessStep ==
  ASSUME GrantInv, NEW c \in Call, FirstAccess(c)
  PROVE  GrantInv'
<1>0. /\ code \in [used : BOOLEAN, replayed : BOOLEAN, lapsed : BOOLEAN]
      /\ refresh \in [Token -> RefreshRow] /\ access \in [Token -> AccessRow]
      /\ consent \in BOOLEAN /\ aged \in BOOLEAN
      /\ call \in [Call -> CallRow] /\ ended \in SUBSET Ending
      /\ 1 \in Token /\ NoToken \notin Token
      /\ \A d \in Call : call[d].new \in Token \cup {NoToken}
  BY GrantTypes, HeldTokens DEF GrantInv
<1>n. call[c].new = NoToken
  BY DEF GrantInv, CallHolds, FirstAccess
<1>a. PICK w : w = [st |-> "live", raced |-> call[c].stale]
  OBVIOUS
<1>b. call[c].stale \in BOOLEAN
  BY <1>0 DEF CallRow
<1>c. w \in AccessRow /\ w.st = "live" /\ w.raced = call[c].stale
  BY <1>a, <1>b DEF AccessRow
<1>1. /\ call' \in [Call -> CallRow]
      /\ \A d \in Call : d # c => call'[d] = call[d]
      /\ call[c].pc = "first_access" /\ call[c].new = NoToken
      /\ \/ /\ access' = [access EXCEPT ![1] = w]
            /\ call'[c].pc = "first_refresh" /\ call'[c].old = call[c].old
            /\ call'[c].new = call[c].new /\ call'[c].stale = call[c].stale
         \/ access' = access /\ call'[c].pc = "idle" /\ call'[c].new = NoToken
      /\ access' \in [Token -> AccessRow]
      /\ w.st = "live" /\ w.raced = call[c].stale
      /\ UNCHANGED <<code, refresh, consent, aged, ended>>
  BY <1>0, <1>n, <1>a, <1>c, CallMoves DEF FirstAccess, CallPc
<1>2. GrantTypeOK'
  BY <1>0, <1>1 DEF GrantTypeOK, CallRow
<1>3. \A d \in Call : CallHolds(d)'
  BY <1>0, <1>1 DEF GrantInv, CallHolds
<1>4. FirstIsFirst' /\ UnusedIsFresh'
  BY <1>0, <1>1 DEF GrantInv, FirstIsFirst, UnusedIsFresh
<1>5. OneRedeemer'
  BY <1>0, <1>1 DEF GrantInv, UnusedIsFresh, OneRedeemer, Redeeming
<1>6. ReplayCaught'
  BY <1>0, <1>1 DEF GrantInv, OneRedeemer, ReplayCaught, Redeeming
<1>7. OutlivingIsRaced'
  BY <1>0, <1>1 DEF GrantInv, OutlivingIsRaced, CallOutlives, Redeeming
<1>8. OneTip'
  BY <1>0, <1>1 DEF GrantInv, OneTip, Tip, Presented, Undecided
<1> QED
  BY <1>2, <1>3, <1>4, <1>5, <1>6, <1>7, <1>8 DEF GrantInv

\* The refresh token of the code, when offline_access was granted.
LEMMA FirstRefreshStep ==
  ASSUME GrantInv, NEW c \in Call, FirstRefresh(c)
  PROVE  GrantInv'
<1>0. /\ code \in [used : BOOLEAN, replayed : BOOLEAN, lapsed : BOOLEAN]
      /\ refresh \in [Token -> RefreshRow] /\ access \in [Token -> AccessRow]
      /\ consent \in BOOLEAN /\ aged \in BOOLEAN
      /\ call \in [Call -> CallRow] /\ ended \in SUBSET Ending
      /\ 1 \in Token /\ NoToken \notin Token
      /\ \A d \in Call : call[d].new \in Token \cup {NoToken}
  BY GrantTypes, HeldTokens DEF GrantInv
<1>a. PICK w : w = [refresh[1] EXCEPT !.st = "live", !.raced = call[c].stale]
  OBVIOUS
<1>b. call[c].stale \in BOOLEAN /\ refresh[1] \in RefreshRow
  BY <1>0 DEF CallRow
<1>c. w \in RefreshRow /\ w.st = "live" /\ w.raced = call[c].stale
  BY <1>a, <1>b DEF RefreshRow
<1>d. refresh' = refresh \/ refresh' = [refresh EXCEPT ![1] = w]
  BY <1>a DEF FirstRefresh
<1>e. /\ CallGoto(c, "after_mint") /\ call[c].pc = "first_refresh" /\ call[c].new = NoToken
      /\ \A t \in Token : refresh[t].st = "none"
  BY <1>0 DEF FirstRefresh, GrantInv, CallHolds, OneRedeemer, FirstIsFirst
<1>1. /\ call' \in [Call -> CallRow]
      /\ \A d \in Call : d # c => call'[d] = call[d]
      /\ call'[c].old = call[c].old /\ call'[c].new = call[c].new
      /\ call'[c].stale = call[c].stale
      /\ call[c].pc = "first_refresh" /\ call'[c].pc = "after_mint" /\ call[c].new = NoToken
      /\ \A t \in Token : refresh[t].st = "none"
      /\ refresh' \in [Token -> RefreshRow]
      /\ \A t \in Token \ {1} : refresh'[t] = refresh[t]
      /\ \/ refresh'[1] = refresh[1]
         \/ refresh'[1].st = "live" /\ refresh'[1].raced = call[c].stale
      /\ UNCHANGED <<code, access, consent, aged, ended>>
  <2>1. <1>1!1 /\ <1>1!2 /\ <1>1!3 /\ <1>1!4 /\ call'[c].pc = "after_mint"
    BY <1>0, <1>e, CallMoves DEF CallPc
  <2>2. /\ refresh' \in [Token -> RefreshRow]
        /\ \A t \in Token \ {1} : refresh'[t] = refresh[t]
        /\ \/ refresh'[1] = refresh[1]
           \/ refresh'[1].st = "live" /\ refresh'[1].raced = call[c].stale
    <3>1. CASE refresh' = refresh
      BY <1>0, <3>1
    <3>2. CASE refresh' = [refresh EXCEPT ![1] = w]
      BY <1>0, <1>c, <3>2
    <3> QED
      BY <1>d, <3>1, <3>2
  <2> QED
    BY <1>e, <2>1, <2>2 DEF FirstRefresh
<1>2. GrantTypeOK'
  BY <1>0, <1>1 DEF GrantTypeOK, CallRow
<1>3. \A d \in Call : CallHolds(d)'
  BY <1>0, <1>1 DEF GrantInv, CallHolds
<1>4. FirstIsFirst' /\ UnusedIsFresh'
  BY <1>0, <1>1 DEF GrantInv, FirstIsFirst, UnusedIsFresh
<1>5. OneRedeemer'
  BY <1>0, <1>1 DEF GrantInv, UnusedIsFresh, OneRedeemer, Redeeming
<1>6. ReplayCaught'
  BY <1>0, <1>1 DEF GrantInv, ReplayCaught, Redeeming
<1>7. OutlivingIsRaced'
  <2> SUFFICES ASSUME ended # {} PROVE OutlivingIsRaced'
    BY <1>1 DEF OutlivingIsRaced
  <2>1. /\ \A d \in Call : CallOutlives(d)
        /\ \A t \in Token : refresh[t].st = "live" => refresh[t].raced
        /\ \A t \in Token : access[t].st = "live" =>
              access[t].raced \/ \E d \in Call : call[d].pc = "invalidate_access"
    BY DEF GrantInv, OutlivingIsRaced
  <2>2. \A d \in Call : CallOutlives(d)'
    BY <1>0, <1>1, <2>1 DEF GrantInv, CallHolds, CallOutlives, Redeeming
  <2>3. \A t \in Token : refresh'[t].st = "live" => refresh'[t].raced
    BY <1>0, <1>1, <2>1 DEF CallOutlives, Redeeming
  <2>4. \A t \in Token : access'[t].st = "live" =>
           access'[t].raced \/ \E d \in Call : call'[d].pc = "invalidate_access"
    BY <1>0, <1>1, <2>1
  <2> QED
    BY <2>2, <2>3, <2>4 DEF OutlivingIsRaced
<1>8. OneTip'
  <2>1. \A t \in Token : refresh'[t].st # "none" => t = 1
    BY <1>1
  <2> QED
    BY <2>1 DEF OneTip, Tip
<1> QED
  BY <1>2, <1>3, <1>4, <1>5, <1>6, <1>7, <1>8 DEF GrantInv

\* A token handed out earlier is presented.
LEMMA RefreshReadStep ==
  ASSUME GrantInv, NEW c \in Call, NEW t \in Token, RefreshRead(c, t)
  PROVE  GrantInv'
<1>0. /\ code \in [used : BOOLEAN, replayed : BOOLEAN, lapsed : BOOLEAN]
      /\ refresh \in [Token -> RefreshRow] /\ access \in [Token -> AccessRow]
      /\ consent \in BOOLEAN /\ aged \in BOOLEAN
      /\ call \in [Call -> CallRow] /\ ended \in SUBSET Ending
      /\ 1 \in Token /\ NoToken \notin Token
      /\ \A d \in Call : call[d].new \in Token \cup {NoToken}
  BY GrantTypes, HeldTokens DEF GrantInv
<1>a. PICK k : k = [call[c] EXCEPT !.pc = IF refresh[t].rotated THEN "invalidate" ELSE "policy",
                                  !.old = IF refresh[t].rotated THEN NoToken ELSE t]
  OBVIOUS
<1>b. /\ k \in CallRow /\ k.new = call[c].new /\ k.stale = call[c].stale
      /\ k.pc = (IF refresh[t].rotated THEN "invalidate" ELSE "policy")
      /\ k.old = (IF refresh[t].rotated THEN NoToken ELSE t)
  BY <1>0, <1>a DEF CallRow, CallPc
<1>c. call' = [call EXCEPT ![c] = k]
  BY <1>a DEF RefreshRead
<1>1. /\ call' \in [Call -> CallRow]
      /\ \A d \in Call : d # c => call'[d] = call[d]
      /\ call'[c].new = call[c].new /\ call'[c].stale = call[c].stale
      /\ call'[c].pc = (IF refresh[t].rotated THEN "invalidate" ELSE "policy")
      /\ call'[c].old = (IF refresh[t].rotated THEN NoToken ELSE t)
      /\ call[c].pc = "idle" /\ refresh[t].st = "live"
      /\ \A d \in Call : call[d].new # t
      /\ UNCHANGED <<code, refresh, access, consent, aged, ended>>
  BY <1>0, <1>b, <1>c DEF RefreshRead, HandedOut
<1>2. GrantTypeOK'
  BY <1>0, <1>1 DEF GrantTypeOK, CallRow
<1>3. \A d \in Call : CallHolds(d)'
  BY <1>0, <1>1 DEF GrantInv, CallHolds
<1>4. FirstIsFirst' /\ UnusedIsFresh'
  BY <1>0, <1>1 DEF GrantInv, FirstIsFirst, UnusedIsFresh
<1>5. OneRedeemer'
  BY <1>0, <1>1 DEF GrantInv, UnusedIsFresh, OneRedeemer, Redeeming
<1>6. ReplayCaught'
  BY <1>0, <1>1 DEF GrantInv, ReplayCaught, Redeeming
<1>7. OutlivingIsRaced'
  BY <1>0, <1>1 DEF GrantInv, OutlivingIsRaced, CallOutlives, Redeeming
<1>8. OneTip'
  BY <1>0, <1>1 DEF GrantInv, OneTip, Tip, Presented, Undecided
<1> QED
  BY <1>2, <1>3, <1>4, <1>5, <1>6, <1>7, <1>8 DEF GrantInv

\* resolveRefreshGrant lets the rotation go on or ends the family.
LEMMA RefreshPolicyStep ==
  ASSUME GrantInv, NEW c \in Call, RefreshPolicy(c)
  PROVE  GrantInv'
<1>0. /\ code \in [used : BOOLEAN, replayed : BOOLEAN, lapsed : BOOLEAN]
      /\ refresh \in [Token -> RefreshRow] /\ access \in [Token -> AccessRow]
      /\ consent \in BOOLEAN /\ aged \in BOOLEAN
      /\ call \in [Call -> CallRow] /\ ended \in SUBSET Ending
      /\ 1 \in Token /\ NoToken \notin Token
      /\ \A d \in Call : call[d].new \in Token \cup {NoToken}
  BY GrantTypes, HeldTokens DEF GrantInv
<1>1. /\ call' \in [Call -> CallRow]
      /\ \A d \in Call : d # c => call'[d] = call[d]
      /\ call'[c].old = call[c].old /\ call'[c].new = call[c].new
      /\ call'[c].stale = call[c].stale
      /\ call[c].pc = "policy" /\ call'[c].pc \in {"mint", "invalidate"}
      /\ UNCHANGED <<code, refresh, access, consent, aged, ended>>
  BY <1>0, CallMoves DEF RefreshPolicy, CallPc
<1>2. GrantTypeOK'
  BY <1>0, <1>1 DEF GrantTypeOK, CallRow
<1>3. \A d \in Call : CallHolds(d)'
  BY <1>0, <1>1 DEF GrantInv, CallHolds
<1>4. FirstIsFirst' /\ UnusedIsFresh'
  BY <1>0, <1>1 DEF GrantInv, FirstIsFirst, UnusedIsFresh
<1>5. OneRedeemer'
  BY <1>0, <1>1 DEF GrantInv, UnusedIsFresh, OneRedeemer, Redeeming
<1>6. ReplayCaught'
  BY <1>0, <1>1 DEF GrantInv, ReplayCaught, Redeeming
<1>7. OutlivingIsRaced'
  BY <1>0, <1>1 DEF GrantInv, OutlivingIsRaced, CallOutlives, Redeeming
<1>8. OneTip'
  BY <1>0, <1>1 DEF GrantInv, OneTip, Tip, Presented, Undecided
<1> QED
  BY <1>2, <1>3, <1>4, <1>5, <1>6, <1>7, <1>8 DEF GrantInv

\* The successor is new, and nobody's but this request's.
LEMMA MintSuccessorStep ==
  ASSUME GrantInv, NEW c \in Call, NEW n \in Token, MintSuccessor(c, n)
  PROVE  GrantInv'
<1>0. /\ code \in [used : BOOLEAN, replayed : BOOLEAN, lapsed : BOOLEAN]
      /\ refresh \in [Token -> RefreshRow] /\ access \in [Token -> AccessRow]
      /\ consent \in BOOLEAN /\ aged \in BOOLEAN
      /\ call \in [Call -> CallRow] /\ ended \in SUBSET Ending
      /\ 1 \in Token /\ NoToken \notin Token
      /\ \A d \in Call : call[d].new \in Token \cup {NoToken}
  BY GrantTypes, HeldTokens DEF GrantInv
<1>a. PICK k, w : /\ k = [call[c] EXCEPT !.pc = "rotate", !.new = n]
                  /\ w = [st |-> "live", rotated |-> FALSE,
                          raced |-> call[c].stale \/ refresh[call[c].old].raced]
  OBVIOUS
<1>b. /\ k \in CallRow /\ k.old = call[c].old /\ k.stale = call[c].stale
      /\ k.pc = "rotate" /\ k.new = n
  BY <1>0, <1>a DEF CallRow, CallPc
<1>c. /\ w \in RefreshRow /\ w.st = "live" /\ w.rotated = FALSE
      /\ w.raced <=> call[c].stale \/ refresh[call[c].old].raced
  BY <1>a DEF RefreshRow
<1>d. call' = [call EXCEPT ![c] = k] /\ refresh' = [refresh EXCEPT ![n] = w]
  BY <1>a DEF MintSuccessor
<1>e. call[c].old \in Token /\ refresh[call[c].old].st # "none" /\ call[c].pc = "mint"
  BY DEF GrantInv, CallHolds, MintSuccessor
<1>f. n # 1 /\ refresh[n].st = "none"
  BY <1>0, <1>e DEF GrantInv, FirstIsFirst, MintSuccessor, NextToken
<1>g. call[c].new = NoToken
  BY <1>e DEF GrantInv, CallHolds
<1>h. UNCHANGED <<code, access, consent, aged, ended>>
  BY DEF MintSuccessor
<1>1. /\ call' \in [Call -> CallRow]
      /\ \A d \in Call : d # c => call'[d] = call[d]
      /\ call'[c].old = call[c].old /\ call'[c].stale = call[c].stale
      /\ call'[c].pc = "rotate" /\ call'[c].new = n
      /\ call[c].pc = "mint" /\ n # 1
      /\ refresh[n].st = "none" /\ call[c].old \in Token /\ refresh[call[c].old].st # "none"
      /\ call[c].new = NoToken
      /\ refresh' \in [Token -> RefreshRow]
      /\ refresh'[n].st = "live" /\ refresh'[n].rotated = FALSE
      /\ refresh'[n].raced <=> call[c].stale \/ refresh[call[c].old].raced
      /\ \A t \in Token : t # n => refresh'[t] = refresh[t]
      /\ UNCHANGED <<code, access, consent, aged, ended>>
  BY <1>0, <1>b, <1>c, <1>d, <1>e, <1>f, <1>g, <1>h
<1>2. GrantTypeOK'
  BY <1>0, <1>1 DEF GrantTypeOK, CallRow
<1>3. \A d \in Call : CallHolds(d)'
  BY <1>0, <1>1 DEF GrantInv, CallHolds
<1>4. FirstIsFirst' /\ UnusedIsFresh'
  BY <1>0, <1>1 DEF GrantInv, FirstIsFirst, UnusedIsFresh
<1>5. OneRedeemer'
  BY <1>0, <1>1 DEF GrantInv, UnusedIsFresh, OneRedeemer, Redeeming
<1>6. ReplayCaught'
  BY <1>0, <1>1 DEF GrantInv, ReplayCaught, Redeeming
<1>7. OutlivingIsRaced'
  <2> SUFFICES ASSUME ended # {} PROVE OutlivingIsRaced'
    BY <1>1 DEF OutlivingIsRaced
  <2>1. /\ \A d \in Call : CallOutlives(d)
        /\ \A t \in Token : refresh[t].st = "live" => refresh[t].raced
        /\ \A t \in Token : access[t].st = "live" =>
              access[t].raced \/ \E d \in Call : call[d].pc = "invalidate_access"
    BY DEF GrantInv, OutlivingIsRaced
  <2>2. \A d \in Call : CallOutlives(d)'
    BY <1>0, <1>1, <2>1 DEF GrantInv, CallHolds, CallOutlives, Redeeming
  <2>3. \A t \in Token : refresh'[t].st = "live" => refresh'[t].raced
    BY <1>0, <1>1, <2>1 DEF CallOutlives, Redeeming
  <2>4. \A t \in Token : access'[t].st = "live" =>
           access'[t].raced \/ \E d \in Call : call'[d].pc = "invalidate_access"
    BY <1>0, <1>1, <2>1
  <2> QED
    BY <2>2, <2>3, <2>4 DEF OutlivingIsRaced
<1>8. OneTip'
  <2>1. Undecided(n)'
    BY <1>1 DEF Undecided
  <2>2. \A t \in Token : t # n => (Undecided(t)' <=> Undecided(t)) /\ (Presented(t)' <=> Presented(t))
    BY <1>0, <1>1 DEF Undecided, Presented
  <2> QED
    BY <1>0, <1>1, <2>1, <2>2 DEF GrantInv, OneTip, Tip
<1> QED
  BY <1>2, <1>3, <1>4, <1>5, <1>6, <1>7, <1>8 DEF GrantInv

\* The first claim of the presented token makes its successor the tip.
LEMMA ClaimRefreshStep ==
  ASSUME GrantInv, NEW c \in Call, ClaimRefresh(c)
  PROVE  GrantInv'
<1>0. /\ code \in [used : BOOLEAN, replayed : BOOLEAN, lapsed : BOOLEAN]
      /\ refresh \in [Token -> RefreshRow] /\ access \in [Token -> AccessRow]
      /\ consent \in BOOLEAN /\ aged \in BOOLEAN
      /\ call \in [Call -> CallRow] /\ ended \in SUBSET Ending
      /\ 1 \in Token /\ NoToken \notin Token
      /\ \A d \in Call : call[d].new \in Token \cup {NoToken}
  BY GrantTypes, HeldTokens DEF GrantInv
<1>a. PICK o \in Token : o = call[c].old /\ refresh[o].st # "none"
  BY DEF GrantInv, CallHolds, ClaimRefresh
<1>b. PICK w : w = [refresh[o] EXCEPT !.rotated = TRUE]
  OBVIOUS
<1>c. w \in RefreshRow /\ w.st = refresh[o].st /\ w.raced = refresh[o].raced /\ w.rotated = TRUE
  BY <1>0, <1>b DEF RefreshRow
<1>d. /\ call[c].pc = "rotate" /\ UNCHANGED <<code, access, consent, aged, ended>>
      /\ \/ refresh[o].rotated /\ CallGoto(c, "invalidate") /\ refresh' = refresh
         \/ ~refresh[o].rotated /\ CallGoto(c, "access") /\ refresh' = [refresh EXCEPT ![o] = w]
  BY <1>a, <1>b DEF ClaimRefresh, Unrotated
<1>e. /\ call' \in [Call -> CallRow]
      /\ \A d \in Call : d # c => call'[d] = call[d]
      /\ call'[c].old = call[c].old /\ call'[c].new = call[c].new
      /\ call'[c].stale = call[c].stale
      /\ call'[c].pc = (IF refresh[o].rotated THEN "invalidate" ELSE "access")
  BY <1>0, <1>d, CallMoves DEF CallPc
<1>1. /\ call' \in [Call -> CallRow]
      /\ \A d \in Call : d # c => call'[d] = call[d]
      /\ call'[c].old = call[c].old /\ call'[c].new = call[c].new
      /\ call'[c].stale = call[c].stale
      /\ call'[c].pc = (IF refresh[o].rotated THEN "invalidate" ELSE "access")
      /\ call[c].pc = "rotate" /\ o = call[c].old /\ refresh[o].st # "none"
      /\ refresh' \in [Token -> RefreshRow]
      /\ refresh'[o].rotated
      /\ \A t \in Token : /\ refresh'[t].st = refresh[t].st /\ refresh'[t].raced = refresh[t].raced
                          /\ t # o => refresh'[t].rotated = refresh[t].rotated
      /\ UNCHANGED <<code, access, consent, aged, ended>>
  BY <1>0, <1>a, <1>c, <1>d, <1>e
<1>2. GrantTypeOK'
  BY <1>0, <1>1 DEF GrantTypeOK, CallRow
<1>3. \A d \in Call : CallHolds(d)'
  BY <1>0, <1>1 DEF GrantInv, CallHolds
<1>4. FirstIsFirst' /\ UnusedIsFresh'
  BY <1>0, <1>1 DEF GrantInv, FirstIsFirst, UnusedIsFresh
<1>5. OneRedeemer'
  BY <1>0, <1>1 DEF GrantInv, UnusedIsFresh, OneRedeemer, Redeeming
<1>6. ReplayCaught'
  BY <1>0, <1>1 DEF GrantInv, ReplayCaught, Redeeming
<1>7. OutlivingIsRaced'
  <2> SUFFICES ASSUME ended # {} PROVE OutlivingIsRaced'
    BY <1>1 DEF OutlivingIsRaced
  <2>1. /\ \A d \in Call : CallOutlives(d)
        /\ \A t \in Token : refresh[t].st = "live" => refresh[t].raced
        /\ \A t \in Token : access[t].st = "live" =>
              access[t].raced \/ \E d \in Call : call[d].pc = "invalidate_access"
    BY DEF GrantInv, OutlivingIsRaced
  <2>2. \A d \in Call : CallOutlives(d)'
    BY <1>0, <1>1, <2>1 DEF GrantInv, CallHolds, CallOutlives, Redeeming
  <2>3. \A t \in Token : refresh'[t].st = "live" => refresh'[t].raced
    BY <1>0, <1>1, <2>1 DEF CallOutlives, Redeeming
  <2>4. \A t \in Token : access'[t].st = "live" =>
           access'[t].raced \/ \E d \in Call : call'[d].pc = "invalidate_access"
    BY <1>0, <1>1, <2>1
  <2> QED
    BY <2>2, <2>3, <2>4 DEF OutlivingIsRaced
<1>8. OneTip'
  <2>1. CASE refresh[o].rotated
    <3>1. \A t \in Token : (Undecided(t)' <=> Undecided(t)) /\ (Presented(t)' => Presented(t))
      BY <1>1, <2>1 DEF Undecided, Presented
    <3> QED
      BY <1>1, <2>1, <3>1 DEF GrantInv, OneTip, Tip
  <2>2. CASE ~refresh[o].rotated
    <3>1. Tip(o)
      <4>1. Presented(o)
        BY <1>1 DEF Presented
      <4>2. ~Undecided(o)
        BY <1>1 DEF GrantInv, CallHolds, Undecided
      <4> QED
        BY <1>1, <2>2, <4>1, <4>2 DEF Tip
    <3>2. \A t \in Token : Presented(t)' => Presented(t)
      BY <1>1 DEF Presented
    <3>3. \A t \in Token : t # call[c].new => (Undecided(t)' <=> Undecided(t))
      BY <1>1 DEF Undecided
    <3>4. \A t \in Token : Tip(t)' => t = call[c].new
      BY <1>1, <3>1, <3>2, <3>3 DEF GrantInv, OneTip, Tip
    <3> QED
      BY <3>4 DEF OneTip
  <2> QED
    BY <2>1, <2>2
<1> QED
  BY <1>2, <1>3, <1>4, <1>5, <1>6, <1>7, <1>8 DEF GrantInv

\* The access token of the rotation, or the 503.
LEMMA RefreshAccessStep ==
  ASSUME GrantInv, NEW c \in Call, RefreshAccess(c)
  PROVE  GrantInv'
<1>0. /\ code \in [used : BOOLEAN, replayed : BOOLEAN, lapsed : BOOLEAN]
      /\ refresh \in [Token -> RefreshRow] /\ access \in [Token -> AccessRow]
      /\ consent \in BOOLEAN /\ aged \in BOOLEAN
      /\ call \in [Call -> CallRow] /\ ended \in SUBSET Ending
      /\ 1 \in Token /\ NoToken \notin Token
      /\ \A d \in Call : call[d].new \in Token \cup {NoToken}
  BY GrantTypes, HeldTokens DEF GrantInv
<1>a. PICK n \in Token : n = call[c].new /\ n # 1
  BY <1>0 DEF GrantInv, CallHolds, RefreshAccess, CallRow
<1>b. PICK w : w = [st |-> "live", raced |-> call[c].stale \/ refresh[n].raced]
  OBVIOUS
<1>c. w \in AccessRow /\ w.st = "live" /\ (w.raced <=> call[c].stale \/ refresh[n].raced)
  BY <1>b DEF AccessRow
<1>1. /\ call' \in [Call -> CallRow]
      /\ \A d \in Call : d # c => call'[d] = call[d]
      /\ call[c].pc = "access" /\ call'[c].pc = "idle" /\ call'[c].new = NoToken
      /\ n = call[c].new /\ n # 1
      /\ access' = access \/ access' = [access EXCEPT ![n] = w]
      /\ access' \in [Token -> AccessRow]
      /\ w.st = "live" /\ (w.raced <=> call[c].stale \/ refresh[n].raced)
      /\ UNCHANGED <<code, refresh, consent, aged, ended>>
  BY <1>0, <1>a, <1>b, <1>c, CallMoves DEF RefreshAccess
<1>2. GrantTypeOK'
  BY <1>0, <1>1 DEF GrantTypeOK, CallRow
<1>3. \A d \in Call : CallHolds(d)'
  BY <1>0, <1>1 DEF GrantInv, CallHolds
<1>4. FirstIsFirst' /\ UnusedIsFresh'
  BY <1>0, <1>1 DEF GrantInv, FirstIsFirst, UnusedIsFresh
<1>5. OneRedeemer'
  BY <1>0, <1>1 DEF GrantInv, UnusedIsFresh, OneRedeemer, Redeeming
<1>6. ReplayCaught'
  BY <1>0, <1>1 DEF GrantInv, ReplayCaught, Redeeming
<1>7. OutlivingIsRaced'
  BY <1>0, <1>1 DEF GrantInv, OutlivingIsRaced, CallOutlives, Redeeming
<1>8. OneTip'
  BY <1>0, <1>1 DEF GrantInv, OneTip, Tip, Presented, Undecided
<1> QED
  BY <1>2, <1>3, <1>4, <1>5, <1>6, <1>7, <1>8 DEF GrantInv

\* invalidateFamily, the refresh tokens.
LEMMA InvalidateRefreshStep ==
  ASSUME GrantInv, NEW c \in Call, InvalidateRefresh(c)
  PROVE  GrantInv'
<1>0. /\ code \in [used : BOOLEAN, replayed : BOOLEAN, lapsed : BOOLEAN]
      /\ refresh \in [Token -> RefreshRow] /\ access \in [Token -> AccessRow]
      /\ consent \in BOOLEAN /\ aged \in BOOLEAN
      /\ call \in [Call -> CallRow] /\ ended \in SUBSET Ending
      /\ 1 \in Token /\ NoToken \notin Token
      /\ \A d \in Call : call[d].new \in Token \cup {NoToken}
  BY GrantTypes, HeldTokens DEF GrantInv
<1>a. /\ Outlasting(call) \in [Call -> CallRow]
      /\ \A d \in Call : /\ Outlasting(call)[d].pc = call[d].pc
                         /\ Outlasting(call)[d].old = call[d].old
                         /\ Outlasting(call)[d].new = call[d].new
                         /\ call[d].pc # "idle" => Outlasting(call)[d].stale
  BY <1>0, OutlastingIs
<1>b. PICK k : k = [Outlasting(call)[c] EXCEPT !.pc = "invalidate_access"]
  OBVIOUS
<1>c. k \in CallRow /\ k.pc = "invalidate_access" /\ k.old = call[c].old /\ k.new = call[c].new
  BY <1>a, <1>b DEF CallRow, CallPc
<1>d. call' = [Outlasting(call) EXCEPT ![c] = k] /\ refresh' = RevokedRows(refresh)
  BY <1>b DEF InvalidateRefresh
<1>1. /\ call' \in [Call -> CallRow]
      /\ \A d \in Call : d # c => /\ call'[d].pc = call[d].pc
                                  /\ call[d].pc # "idle" => call'[d].stale
      /\ \A d \in Call : call'[d].old = call[d].old /\ call'[d].new = call[d].new
      /\ call[c].pc = "invalidate" /\ call'[c].pc = "invalidate_access"
      /\ refresh' \in [Token -> RefreshRow]
      /\ \A t \in Token : /\ refresh'[t].st # "live"
                          /\ refresh'[t].st = "none" <=> refresh[t].st = "none"
                          /\ refresh'[t].rotated = refresh[t].rotated
                          /\ refresh'[t].raced = refresh[t].raced
      /\ ended' \in SUBSET Ending
      /\ UNCHANGED <<code, access, consent, aged>>
  <2>1. UNCHANGED <<code, access, consent, aged>> /\ ended' \in SUBSET Ending /\ call[c].pc = "invalidate"
    BY <1>0 DEF InvalidateRefresh, Ends, Ending
  <2>2. <1>1!5 /\ <1>1!6
    BY <1>0, <1>d, RevokedRefresh
  <2> QED
    BY <1>a, <1>c, <1>d, <2>1, <2>2
<1>2. GrantTypeOK'
  BY <1>0, <1>1 DEF GrantTypeOK, CallRow
<1>3. \A d \in Call : CallHolds(d)'
  BY <1>0, <1>1 DEF GrantInv, CallHolds
<1>4. FirstIsFirst' /\ UnusedIsFresh'
  BY <1>0, <1>1 DEF GrantInv, FirstIsFirst, UnusedIsFresh
<1>5. OneRedeemer'
  BY <1>0, <1>1 DEF GrantInv, UnusedIsFresh, OneRedeemer, Redeeming
<1>6. ReplayCaught'
  BY <1>0, <1>1 DEF GrantInv, ReplayCaught, Redeeming
<1>7. OutlivingIsRaced'
  BY <1>0, <1>1 DEF GrantInv, OutlivingIsRaced, CallOutlives, Redeeming
<1>8. OneTip'
  <2>1. \A t \in Token : (Undecided(t)' <=> Undecided(t)) /\ (Presented(t)' => Presented(t))
    BY <1>1 DEF Undecided, Presented
  <2> QED
    BY <1>1, <2>1 DEF GrantInv, OneTip, Tip
<1> QED
  BY <1>2, <1>3, <1>4, <1>5, <1>6, <1>7, <1>8 DEF GrantInv

\* invalidateFamily, the access tokens.
LEMMA InvalidateAccessStep ==
  ASSUME GrantInv, NEW c \in Call, InvalidateAccess(c)
  PROVE  GrantInv'
<1>0. /\ code \in [used : BOOLEAN, replayed : BOOLEAN, lapsed : BOOLEAN]
      /\ refresh \in [Token -> RefreshRow] /\ access \in [Token -> AccessRow]
      /\ consent \in BOOLEAN /\ aged \in BOOLEAN
      /\ call \in [Call -> CallRow] /\ ended \in SUBSET Ending
      /\ 1 \in Token /\ NoToken \notin Token
      /\ \A d \in Call : call[d].new \in Token \cup {NoToken}
  BY GrantTypes, HeldTokens DEF GrantInv
<1>1. /\ call' \in [Call -> CallRow]
      /\ \A d \in Call : d # c => call'[d] = call[d]
      /\ call[c].pc = "invalidate_access"
      /\ \/ call[c].new = NoToken /\ call'[c].pc = "idle" /\ call'[c].new = NoToken
         \/ /\ call[c].new # NoToken /\ call'[c].pc = "orphan" /\ call'[c].new = call[c].new
            /\ call'[c].old = call[c].old
      /\ access' \in [Token -> AccessRow]
      /\ \A t \in Token : /\ access'[t].st # "live"
                          /\ access'[t].st = "none" <=> access[t].st = "none"
      /\ UNCHANGED <<code, refresh, consent, aged, ended>>
  BY <1>0, CallMoves, RevokedAccess DEF InvalidateAccess, CallPc
<1>2. GrantTypeOK'
  BY <1>0, <1>1 DEF GrantTypeOK, CallRow
<1>3. \A d \in Call : CallHolds(d)'
  BY <1>0, <1>1 DEF GrantInv, CallHolds
<1>4. FirstIsFirst' /\ UnusedIsFresh'
  BY <1>0, <1>1 DEF GrantInv, FirstIsFirst, UnusedIsFresh
<1>5. OneRedeemer'
  BY <1>0, <1>1 DEF GrantInv, UnusedIsFresh, OneRedeemer, Redeeming
<1>6. ReplayCaught'
  BY <1>0, <1>1 DEF GrantInv, ReplayCaught, Redeeming
<1>7. OutlivingIsRaced'
  BY <1>0, <1>1 DEF GrantInv, OutlivingIsRaced, CallOutlives, Redeeming
<1>8. OneTip'
  <2>1. \A t \in Token : (Undecided(t)' <=> Undecided(t)) /\ (Presented(t)' => Presented(t))
    BY <1>0, <1>1 DEF Undecided, Presented
  <2> QED
    BY <1>1, <2>1 DEF GrantInv, OneTip, Tip
<1> QED
  BY <1>2, <1>3, <1>4, <1>5, <1>6, <1>7, <1>8 DEF GrantInv

\* The loser revokes the successor nobody was given.
LEMMA RevokeOrphanStep ==
  ASSUME GrantInv, NEW c \in Call, RevokeOrphan(c)
  PROVE  GrantInv'
<1>0. /\ code \in [used : BOOLEAN, replayed : BOOLEAN, lapsed : BOOLEAN]
      /\ refresh \in [Token -> RefreshRow] /\ access \in [Token -> AccessRow]
      /\ consent \in BOOLEAN /\ aged \in BOOLEAN
      /\ call \in [Call -> CallRow] /\ ended \in SUBSET Ending
      /\ 1 \in Token /\ NoToken \notin Token
      /\ \A d \in Call : call[d].new \in Token \cup {NoToken}
  BY GrantTypes, HeldTokens DEF GrantInv
<1>a. PICK n \in Token : n = call[c].new /\ n # 1 /\ refresh[n].st # "none"
  BY <1>0 DEF GrantInv, CallHolds, RevokeOrphan
<1>b. PICK w : w = [refresh[n] EXCEPT !.st = "revoked"]
  OBVIOUS
<1>c. /\ w \in RefreshRow /\ w.st = "revoked"
      /\ w.rotated = refresh[n].rotated /\ w.raced = refresh[n].raced
  BY <1>0, <1>b DEF RefreshRow
<1>d. refresh' = [refresh EXCEPT ![n] = w]
  BY <1>a, <1>b DEF RevokeOrphan
<1>1. /\ call' \in [Call -> CallRow]
      /\ \A d \in Call : d # c => call'[d] = call[d]
      /\ call[c].pc = "orphan" /\ call'[c].pc = "idle" /\ call'[c].new = NoToken
      /\ n = call[c].new /\ n # 1 /\ refresh[n].st # "none"
      /\ refresh' \in [Token -> RefreshRow]
      /\ refresh'[n].st = "revoked"
      /\ \A t \in Token : /\ t # n => refresh'[t] = refresh[t]
                          /\ refresh'[t].rotated = refresh[t].rotated
                          /\ refresh'[t].raced = refresh[t].raced
      /\ UNCHANGED <<code, access, consent, aged, ended>>
  BY <1>0, <1>a, <1>c, <1>d, CallMoves DEF RevokeOrphan
<1>2. GrantTypeOK'
  BY <1>0, <1>1 DEF GrantTypeOK, CallRow
<1>3. \A d \in Call : CallHolds(d)'
  BY <1>0, <1>1 DEF GrantInv, CallHolds
<1>4. FirstIsFirst' /\ UnusedIsFresh'
  BY <1>0, <1>1 DEF GrantInv, FirstIsFirst, UnusedIsFresh
<1>5. OneRedeemer'
  BY <1>0, <1>1 DEF GrantInv, UnusedIsFresh, OneRedeemer, Redeeming
<1>6. ReplayCaught'
  BY <1>0, <1>1 DEF GrantInv, ReplayCaught, Redeeming
<1>7. OutlivingIsRaced'
  <2> SUFFICES ASSUME ended # {} PROVE OutlivingIsRaced'
    BY <1>1 DEF OutlivingIsRaced
  <2>1. /\ \A d \in Call : CallOutlives(d)
        /\ \A t \in Token : refresh[t].st = "live" => refresh[t].raced
        /\ \A t \in Token : access[t].st = "live" =>
              access[t].raced \/ \E d \in Call : call[d].pc = "invalidate_access"
    BY DEF GrantInv, OutlivingIsRaced
  <2>2. \A d \in Call : CallOutlives(d)'
    BY <1>0, <1>1, <2>1 DEF GrantInv, CallHolds, CallOutlives, Redeeming
  <2>3. \A t \in Token : refresh'[t].st = "live" => refresh'[t].raced
    BY <1>0, <1>1, <2>1 DEF CallOutlives, Redeeming
  <2>4. \A t \in Token : access'[t].st = "live" =>
           access'[t].raced \/ \E d \in Call : call'[d].pc = "invalidate_access"
    BY <1>0, <1>1, <2>1
  <2> QED
    BY <2>2, <2>3, <2>4 DEF OutlivingIsRaced
<1>8. OneTip'
  <2>1. ~Presented(n)'
    BY <1>0, <1>1 DEF GrantInv, CallHolds, Presented
  <2>2. \A t \in Token : t # n => (Undecided(t)' <=> Undecided(t)) /\ (Presented(t)' => Presented(t))
    BY <1>0, <1>1 DEF Undecided, Presented
  <2>3. \A t \in Token : Tip(t)' => Tip(t)
    BY <1>1, <2>1, <2>2 DEF Tip
  <2> QED
    BY <2>3 DEF GrantInv, OneTip
<1> QED
  BY <1>2, <1>3, <1>4, <1>5, <1>6, <1>7, <1>8 DEF GrantInv

\* POST /revoke starts to end the family.
LEMMA RevokeEndpointStep ==
  ASSUME GrantInv, NEW c \in Call, NEW t \in Token, RevokeEndpoint(c, t)
  PROVE  GrantInv'
<1>0. /\ code \in [used : BOOLEAN, replayed : BOOLEAN, lapsed : BOOLEAN]
      /\ refresh \in [Token -> RefreshRow] /\ access \in [Token -> AccessRow]
      /\ consent \in BOOLEAN /\ aged \in BOOLEAN
      /\ call \in [Call -> CallRow] /\ ended \in SUBSET Ending
      /\ 1 \in Token /\ NoToken \notin Token
      /\ \A d \in Call : call[d].new \in Token \cup {NoToken}
  BY GrantTypes, HeldTokens DEF GrantInv
<1>1. /\ call' \in [Call -> CallRow]
      /\ \A d \in Call : d # c => call'[d] = call[d]
      /\ call'[c].old = call[c].old /\ call'[c].new = call[c].new
      /\ call'[c].stale = call[c].stale
      /\ call[c].pc = "idle" /\ call'[c].pc = "invalidate" /\ refresh[t].st # "none"
      /\ UNCHANGED <<code, refresh, access, consent, aged, ended>>
  BY <1>0, CallMoves DEF RevokeEndpoint, CallPc
<1>2. GrantTypeOK'
  BY <1>0, <1>1 DEF GrantTypeOK, CallRow
<1>3. \A d \in Call : CallHolds(d)'
  BY <1>0, <1>1 DEF GrantInv, CallHolds
<1>4. FirstIsFirst' /\ UnusedIsFresh'
  BY <1>0, <1>1 DEF GrantInv, FirstIsFirst, UnusedIsFresh
<1>5. OneRedeemer'
  BY <1>0, <1>1 DEF GrantInv, UnusedIsFresh, OneRedeemer, Redeeming
<1>6. ReplayCaught'
  BY <1>0, <1>1 DEF GrantInv, ReplayCaught, Redeeming
<1>7. OutlivingIsRaced'
  BY <1>0, <1>1 DEF GrantInv, OutlivingIsRaced, CallOutlives, Redeeming
<1>8. OneTip'
  BY <1>0, <1>1 DEF GrantInv, OneTip, Tip, Presented, Undecided
<1> QED
  BY <1>2, <1>3, <1>4, <1>5, <1>6, <1>7, <1>8 DEF GrantInv

\* POST /revoke with an access token.
LEMMA RevokeAccessStep ==
  ASSUME GrantInv, NEW t \in Token, RevokeAccessToken(t)
  PROVE  GrantInv'
<1>0. /\ code \in [used : BOOLEAN, replayed : BOOLEAN, lapsed : BOOLEAN]
      /\ refresh \in [Token -> RefreshRow] /\ access \in [Token -> AccessRow]
      /\ consent \in BOOLEAN /\ aged \in BOOLEAN
      /\ call \in [Call -> CallRow] /\ ended \in SUBSET Ending
      /\ 1 \in Token /\ NoToken \notin Token
      /\ \A d \in Call : call[d].new \in Token \cup {NoToken}
  BY GrantTypes, HeldTokens DEF GrantInv
<1>a. PICK w : w = [access[t] EXCEPT !.st = "revoked"]
  OBVIOUS
<1>b. w \in AccessRow /\ w.st = "revoked"
  BY <1>0, <1>a DEF AccessRow
<1>1. /\ access' = [access EXCEPT ![t] = w] /\ access' \in [Token -> AccessRow]
      /\ w.st = "revoked" /\ access[t].st = "live"
      /\ UNCHANGED <<code, refresh, consent, aged, call, ended>>
  BY <1>0, <1>a, <1>b DEF RevokeAccessToken
<1>2. GrantTypeOK'
  BY <1>0, <1>1 DEF GrantTypeOK, CallRow
<1>3. \A d \in Call : CallHolds(d)'
  BY <1>0, <1>1 DEF GrantInv, CallHolds
<1>4. FirstIsFirst' /\ UnusedIsFresh'
  BY <1>0, <1>1 DEF GrantInv, FirstIsFirst, UnusedIsFresh
<1>5. OneRedeemer'
  BY <1>0, <1>1 DEF GrantInv, UnusedIsFresh, OneRedeemer, Redeeming
<1>6. ReplayCaught'
  BY <1>0, <1>1 DEF GrantInv, ReplayCaught, Redeeming
<1>7. OutlivingIsRaced'
  BY <1>0, <1>1 DEF GrantInv, OutlivingIsRaced, CallOutlives, Redeeming
<1>8. OneTip'
  BY <1>0, <1>1 DEF GrantInv, OneTip, Tip, Presented, Undecided
<1> QED
  BY <1>2, <1>3, <1>4, <1>5, <1>6, <1>7, <1>8 DEF GrantInv

\* The transactions that end the user's or the client's access.
LEMMA EndAllStep ==
  ASSUME GrantInv, NEW k \in Ending, EndAllTokens(k), consent' \in BOOLEAN, UNCHANGED aged
  PROVE  GrantInv'
<1>0. /\ code \in [used : BOOLEAN, replayed : BOOLEAN, lapsed : BOOLEAN]
      /\ refresh \in [Token -> RefreshRow] /\ access \in [Token -> AccessRow]
      /\ consent \in BOOLEAN /\ aged \in BOOLEAN
      /\ call \in [Call -> CallRow] /\ ended \in SUBSET Ending
      /\ 1 \in Token /\ NoToken \notin Token
      /\ \A d \in Call : call[d].new \in Token \cup {NoToken}
  BY GrantTypes, HeldTokens DEF GrantInv
<1>a. /\ Outlasting(call) \in [Call -> CallRow]
      /\ \A d \in Call : /\ Outlasting(call)[d].pc = call[d].pc
                         /\ Outlasting(call)[d].old = call[d].old
                         /\ Outlasting(call)[d].new = call[d].new
                         /\ call[d].pc # "idle" => Outlasting(call)[d].stale
  BY <1>0, OutlastingIs
<1>1. /\ call' \in [Call -> CallRow]
      /\ \A d \in Call : /\ call'[d].pc = call[d].pc
                         /\ call[d].pc # "idle" => call'[d].stale
      /\ \A d \in Call : call'[d].old = call[d].old /\ call'[d].new = call[d].new
      /\ refresh' \in [Token -> RefreshRow] /\ access' \in [Token -> AccessRow]
      /\ \A t \in Token : /\ refresh'[t].st # "live"
                          /\ refresh'[t].st = "none" <=> refresh[t].st = "none"
                          /\ refresh'[t].rotated = refresh[t].rotated
                          /\ refresh'[t].raced = refresh[t].raced
      /\ \A t \in Token : /\ access'[t].st # "live"
                          /\ access'[t].st = "none" <=> access[t].st = "none"
      /\ ended' \in SUBSET Ending
      /\ code'.used /\ code'.replayed = code.replayed
      /\ code' \in [used : BOOLEAN, replayed : BOOLEAN, lapsed : BOOLEAN]
      /\ consent' \in BOOLEAN /\ UNCHANGED aged
  BY <1>0, <1>a, RevokedRefresh, RevokedAccess DEF EndAllTokens, Ends
<1>2. GrantTypeOK'
  BY <1>0, <1>1 DEF GrantTypeOK, CallRow
<1>3. \A d \in Call : CallHolds(d)'
  BY <1>0, <1>1 DEF GrantInv, CallHolds
<1>4. FirstIsFirst' /\ UnusedIsFresh'
  BY <1>0, <1>1 DEF GrantInv, FirstIsFirst, UnusedIsFresh
<1>5. OneRedeemer'
  BY <1>0, <1>1 DEF GrantInv, UnusedIsFresh, OneRedeemer, Redeeming
<1>6. ReplayCaught'
  BY <1>0, <1>1 DEF GrantInv, ReplayCaught, Redeeming
<1>7. OutlivingIsRaced'
  BY <1>0, <1>1 DEF GrantInv, OutlivingIsRaced, CallOutlives, Redeeming
<1>8. OneTip'
  <2>1. \A t \in Token : (Undecided(t)' <=> Undecided(t)) /\ (Presented(t)' => Presented(t))
    BY <1>1 DEF Undecided, Presented
  <2> QED
    BY <1>1, <2>1 DEF GrantInv, OneTip, Tip
<1> QED
  BY <1>2, <1>3, <1>4, <1>5, <1>6, <1>7, <1>8 DEF GrantInv

\* Neither the clock nor the age of the family changes a token.
LEMMA ClockStep ==
  ASSUME GrantInv, CodeLapses \/ FamilyAges \/ UNCHANGED grantVars
  PROVE  GrantInv'
<1>0. /\ code \in [used : BOOLEAN, replayed : BOOLEAN, lapsed : BOOLEAN]
      /\ refresh \in [Token -> RefreshRow] /\ access \in [Token -> AccessRow]
      /\ consent \in BOOLEAN /\ aged \in BOOLEAN
      /\ call \in [Call -> CallRow] /\ ended \in SUBSET Ending
      /\ 1 \in Token /\ NoToken \notin Token
      /\ \A d \in Call : call[d].new \in Token \cup {NoToken}
  BY GrantTypes, HeldTokens DEF GrantInv
<1>1. /\ UNCHANGED <<refresh, access, consent, call, ended>>
      /\ code'.used = code.used /\ code'.replayed = code.replayed
      /\ code' \in [used : BOOLEAN, replayed : BOOLEAN, lapsed : BOOLEAN]
      /\ aged' \in BOOLEAN
  BY <1>0 DEF CodeLapses, FamilyAges, grantVars
<1>2. GrantTypeOK'
  BY <1>0, <1>1 DEF GrantTypeOK, CallRow
<1>3. \A d \in Call : CallHolds(d)'
  BY <1>0, <1>1 DEF GrantInv, CallHolds
<1>4. FirstIsFirst' /\ UnusedIsFresh'
  BY <1>0, <1>1 DEF GrantInv, FirstIsFirst, UnusedIsFresh
<1>5. OneRedeemer'
  BY <1>0, <1>1 DEF GrantInv, UnusedIsFresh, OneRedeemer, Redeeming
<1>6. ReplayCaught'
  BY <1>0, <1>1 DEF GrantInv, ReplayCaught, Redeeming
<1>7. OutlivingIsRaced'
  BY <1>0, <1>1 DEF GrantInv, OutlivingIsRaced, CallOutlives, Redeeming
<1>8. OneTip'
  BY <1>0, <1>1 DEF GrantInv, OneTip, Tip, Presented, Undecided
<1> QED
  BY <1>2, <1>3, <1>4, <1>5, <1>6, <1>7, <1>8 DEF GrantInv

\* The invariant holds before the code is presented.
LEMMA GrantStart == GrantInit => GrantInv
<1> SUFFICES ASSUME GrantInit PROVE GrantInv
  OBVIOUS
<1>1. /\ \A c \in Call : call[c].pc = "idle" /\ call[c].new = NoToken
      /\ \A t \in Token : refresh[t].st = "none" /\ access[t].st = "none"
      /\ code.used = FALSE /\ code.replayed = FALSE /\ ended = {}
  BY DEF GrantInit, IdleCall
<1>2. GrantTypeOK
  <2>1. IdleCall \in CallRow
    BY DEF IdleCall, CallRow, CallPc
  <2> QED
    BY <2>1 DEF GrantInit, GrantTypeOK, CallRow, RefreshRow, AccessRow
<1>3. \A c \in Call : CallHolds(c)
  BY <1>1 DEF CallHolds
<1>4. FirstIsFirst /\ UnusedIsFresh /\ OneRedeemer /\ ReplayCaught /\ OutlivingIsRaced
  BY <1>1 DEF FirstIsFirst, UnusedIsFresh, OneRedeemer, Redeeming, ReplayCaught, OutlivingIsRaced
<1>5. OneTip
  BY <1>1 DEF OneTip, Tip
<1> QED
  BY <1>2, <1>3, <1>4, <1>5 DEF GrantInv

\* Every request to /token and /revoke, every revocation and the clock keep it.
LEMMA GrantStep == GrantInv /\ [GrantNext]_grantVars => GrantInv'
<1> SUFFICES ASSUME GrantInv, [GrantNext]_grantVars PROVE GrantInv'
  OBVIOUS
<1>1. CASE RevokeConsent \/ RevokeUserAccess
  <2>1. /\ \E k \in Ending : EndAllTokens(k)
        /\ consent' \in BOOLEAN /\ UNCHANGED aged
    BY <1>1 DEF RevokeConsent, RevokeUserAccess, Ending, GrantInv, GrantTypeOK
  <2> QED
    BY <2>1, EndAllStep
<1>2. CASE CodeLapses \/ FamilyAges \/ UNCHANGED grantVars
  BY <1>2, ClockStep
<1>3. CASE \E t \in Token : RevokeAccessToken(t)
  BY <1>3, RevokeAccessStep
<1>4. ASSUME NEW c \in Call,
             \/ RedeemRead(c) \/ RedeemClaim(c) \/ FirstAccess(c) \/ FirstRefresh(c)
             \/ AfterMint(c) \/ ReplayMark(c)
      PROVE  GrantInv'
  BY <1>4, RedeemReadStep, RedeemClaimStep, FirstAccessStep, FirstRefreshStep, AfterMintStep,
     ReplayMarkStep
<1>5. ASSUME NEW c \in Call,
             \/ InvalidateRefresh(c) \/ InvalidateAccess(c) \/ RevokeOrphan(c)
             \/ RefreshPolicy(c) \/ ClaimRefresh(c) \/ RefreshAccess(c)
      PROVE  GrantInv'
  BY <1>5, InvalidateRefreshStep, InvalidateAccessStep, RevokeOrphanStep, RefreshPolicyStep,
     ClaimRefreshStep, RefreshAccessStep
<1>6. ASSUME NEW c \in Call, NEW t \in Token,
             RefreshRead(c, t) \/ MintSuccessor(c, t) \/ RevokeEndpoint(c, t)
      PROVE  GrantInv'
  BY <1>6, RefreshReadStep, MintSuccessorStep, RevokeEndpointStep
<1> QED
  BY <1>1, <1>2, <1>3, <1>4, <1>5, <1>6 DEF GrantNext

\* The invariant holds throughout.
LEMMA GrantAlways == GrantSpec => []GrantInv
BY GrantStart, GrantStep, PTL DEF GrantSpec

\* A code presented twice leaves none of the tokens of its redemption alive,
\* for any number of concurrent requests to /token and /revoke.
THEOREM ReplayEndsGrant == GrantSpec => []ReplayedCodeYieldsNothing
<1>1. GrantInv => ReplayedCodeYieldsNothing
  BY DEF GrantInv, ReplayCaught, ReplayedCodeYieldsNothing, NoCallRuns, Redeeming
<1> QED
  BY <1>1, GrantAlways, PTL

\* After a grant is ended only tokens of requests that were already running
\* outlive it: a rotation that starts later gets nothing of its own.
THEOREM EndingOutlived == GrantSpec => []EndedOnlyOutlivedByRace
<1>1. GrantInv => EndedOnlyOutlivedByRace
  BY DEF GrantInv, OutlivingIsRaced, EndedOnlyOutlivedByRace, NoCallRuns
<1> QED
  BY <1>1, GrantAlways, PTL

\* Concurrent rotations never leave a family with two usable refresh tokens,
\* however many requests present however many of its tokens.
THEOREM OneUsable == GrantSpec => []OneUsableRefresh
<1>1. GrantInv => OneUsableRefresh
  <2> SUFFICES ASSUME GrantInv, NoCallRuns
               PROVE  Cardinality({t \in Token : refresh[t].st = "live" /\ ~refresh[t].rotated}) <= 1
    BY DEF OneUsableRefresh
  <2> DEFINE usable == {t \in Token : refresh[t].st = "live" /\ ~refresh[t].rotated}
  <2>1. \A t \in usable : Tip(t)
    <3>1. NoToken \notin Token
      BY GrantTypes DEF GrantInv
    <3>2. \A c \in Call : call[c].new = NoToken
      BY DEF GrantInv, CallHolds, NoCallRuns
    <3> QED
      BY <3>1, <3>2 DEF Tip, Undecided
  <2>2. \A t, u \in usable : t = u
    BY <2>1 DEF GrantInv, OneTip
  <2>3. CASE usable = {}
    BY <2>3, FS_EmptySet
  <2>4. CASE usable # {}
    <3>1. PICK t \in usable : TRUE
      BY <2>4
    <3>2. usable = {t}
      BY <2>2, <3>1
    <3>3. Cardinality(usable) = 1
      BY <3>2, FS_Singleton
    <3> QED
      BY <3>3
  <2> QED
    BY <2>3, <2>4
<1> QED
  BY <1>1, GrantAlways, PTL

=============================================================================
