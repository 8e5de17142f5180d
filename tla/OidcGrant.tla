----------------------------- MODULE OidcGrant -----------------------------
(***************************************************************************)
(* One authorization grant of the OpenID provider after /authorize: its    *)
(* code, the refresh-token family and the access tokens issued under it    *)
(* (routes/oidc-flow.ts POST /token, lib/oidc-refresh-token.ts,            *)
(* lib/oidc-refresh-policy.ts, POST /revoke in routes/oidc-session-end.ts, *)
(* DELETE /oidc-consents/:id and lib/oidc-revocation.ts).                  *)
(*                                                                         *)
(* A request to /token is a chain of awaited statements; invalidateFamily  *)
(* is two.  The consent and account revocations are transactions and take  *)
(* one step.  Client authentication, PKCE, the redirect URI, the scope     *)
(* arithmetic and an organization's suspension decide whether a request    *)
(* gets past its first read, before it touches any row: a request that     *)
(* fails them is no step.  Only expiry, consent and the family's maximum   *)
(* age change while the grant lives and are state.                         *)
(***************************************************************************)
EXTENDS Naturals, FiniteSets

CONSTANTS
    Call,         \* concurrent requests to /token and /revoke
    MaxTokens,    \* refresh tokens the family can hold
    NoToken       \* a request that holds no token

ASSUME GrantAssumption ==
    /\ MaxTokens \in Nat \ {0}
    /\ NoToken \notin Nat

Token == 1..MaxTokens

VARIABLES
    code,      \* the authorization code row
    refresh,   \* the family's refresh tokens, in order of issue
    access,    \* the access token issued with each refresh token
    consent,   \* the user's consent for the client is live
    aged,      \* the family reached its maximum age
    call,      \* what each running request does next and remembers
    ended      \* history: what ended the grant so far

grantVars == <<code, refresh, access, consent, aged, call, ended>>

\* raced: history, the token descends from a request that was already
\* running when the grant was ended.
RefreshRow == [st : {"none", "live", "revoked"}, rotated : BOOLEAN, raced : BOOLEAN]
AccessRow == [st : {"none", "live", "revoked"}, raced : BOOLEAN]
Ending == {"family", "user", "consent"}
CallPc == {"idle", "claim", "first_access", "first_refresh", "after_mint", "mark", "invalidate",
           "invalidate_access", "orphan", "policy", "mint", "rotate", "access"}

GrantTypeOK ==
    /\ code \in [used : BOOLEAN, replayed : BOOLEAN, lapsed : BOOLEAN]
    /\ refresh \in [Token -> RefreshRow]
    /\ access \in [Token -> AccessRow]
    /\ consent \in BOOLEAN
    /\ aged \in BOOLEAN
    /\ call \in [Call -> [pc : CallPc, old : Token \cup {NoToken}, new : Token \cup {NoToken},
                          stale : BOOLEAN]]
    /\ ended \in SUBSET Ending

IdleCall == [pc |-> "idle", old |-> NoToken, new |-> NoToken, stale |-> FALSE]

GrantInit ==
    /\ code = [used |-> FALSE, replayed |-> FALSE, lapsed |-> FALSE]
    /\ refresh = [t \in Token |-> [st |-> "none", rotated |-> FALSE, raced |-> FALSE]]
    /\ access = [t \in Token |-> [st |-> "none", raced |-> FALSE]]
    /\ consent = TRUE
    /\ aged = FALSE
    /\ call = [c \in Call |-> IdleCall]
    /\ ended = {}

-----------------------------------------------------------------------------
(* Helpers *)

CallGoto(c, pc) == call' = [call EXCEPT ![c].pc = pc]
CallEnds(c) == call' = [call EXCEPT ![c] = IdleCall]

\* updateMany ... WHERE revokedAt IS NULL over the family's rows.
RevokedRows(rows) ==
    [t \in Token |-> IF rows[t].st = "live" THEN [rows[t] EXCEPT !.st = "revoked"] ELSE rows[t]]

\* Every request running now has read its rows before the ending k.
Outlasting(cs) == [c \in Call |-> IF cs[c].pc = "idle" THEN cs[c] ELSE [cs[c] EXCEPT !.stale = TRUE]]
Ends(k) == ended' = ended \cup {k}

\* A token is presented only once the response that carries it is out.
HandedOut(t) ==
    \A c \in Call : call[c].new # t /\ (t = 1 => call[c].pc \notin {"first_refresh", "after_mint"})

NextToken(t) == refresh[t].st = "none" /\ \A u \in Token : u < t => refresh[u].st # "none"

-----------------------------------------------------------------------------
(* grant_type=authorization_code *)

\* The code row is read: a used code is a replay, even a late one; an
\* expired one is refused.
RedeemRead(c) ==
    /\ call[c].pc = "idle"
    /\ IF code.used THEN CallGoto(c, "mark")
       ELSE ~code.lapsed /\ CallGoto(c, "claim")
    /\ UNCHANGED <<code, refresh, access, consent, aged, ended>>

\* The single-use claim; whoever loses it is a replay.
RedeemClaim(c) ==
    /\ call[c].pc = "claim"
    /\ IF code.used THEN CallGoto(c, "mark") /\ UNCHANGED code
       ELSE CallGoto(c, "first_access") /\ code' = [code EXCEPT !.used = TRUE]
    /\ UNCHANGED <<refresh, access, consent, aged, ended>>

\* issueAccessAndIdToken for the code, or its 503 without a signing key.
FirstAccess(c) ==
    /\ call[c].pc = "first_access"
    /\ \/ /\ access' = [access EXCEPT ![1] = [st |-> "live", raced |-> call[c].stale]]
          /\ CallGoto(c, "first_refresh")
       \/ CallEnds(c) /\ UNCHANGED access
    /\ UNCHANGED <<code, refresh, consent, aged, ended>>

\* mintRefreshToken when offline_access was granted.
FirstRefresh(c) ==
    /\ call[c].pc = "first_refresh"
    /\ refresh' \in {refresh, [refresh EXCEPT ![1].st = "live", ![1].raced = call[c].stale]}
    /\ CallGoto(c, "after_mint")
    /\ UNCHANGED <<code, access, consent, aged, ended>>

\* Was the code presented again meanwhile?  Then revoke what was issued.
MarkIgnored(c) == FALSE  \* mutant
MarkSeen(c) == code.replayed
AfterMint(c) ==
    /\ call[c].pc = "after_mint"
    /\ IF MarkSeen(c) THEN CallGoto(c, "invalidate") ELSE CallEnds(c)
    /\ UNCHANGED <<code, refresh, access, consent, aged, ended>>

\* refuseReplayedCode: mark the code, then invalidate its family.
ReplayMark(c) ==
    /\ call[c].pc = "mark"
    /\ code' = [code EXCEPT !.replayed = TRUE]
    /\ CallGoto(c, "invalidate")
    /\ UNCHANGED <<refresh, access, consent, aged, ended>>

-----------------------------------------------------------------------------
(* invalidateFamily, shared by replays, refused refreshes and /revoke *)

InvalidateRefresh(c) ==
    /\ call[c].pc = "invalidate"
    /\ refresh' = RevokedRows(refresh)
    /\ call' = [Outlasting(call) EXCEPT ![c].pc = "invalidate_access"]
    /\ Ends("family")
    /\ UNCHANGED <<code, access, consent, aged>>

\* The request that lost a rotation also revokes the successor it minted.
InvalidateAccess(c) ==
    /\ call[c].pc = "invalidate_access"
    /\ access' = RevokedRows(access)
    /\ IF call[c].new = NoToken THEN CallEnds(c) ELSE CallGoto(c, "orphan")
    /\ UNCHANGED <<code, refresh, consent, aged, ended>>

RevokeOrphan(c) ==
    /\ call[c].pc = "orphan"
    /\ refresh' = [refresh EXCEPT ![call[c].new].st = "revoked"]
    /\ CallEnds(c)
    /\ UNCHANGED <<code, access, consent, aged, ended>>

-----------------------------------------------------------------------------
(* grant_type=refresh_token *)

\* The presented row is read: a rotated one is a reuse and ends the family.
RefreshRead(c, t) ==
    /\ call[c].pc = "idle"
    /\ HandedOut(t)
    /\ refresh[t].st = "live"
    /\ call' = [call EXCEPT ![c].pc = IF refresh[t].rotated THEN "invalidate" ELSE "policy",
                            ![c].old = IF refresh[t].rotated THEN NoToken ELSE t]
    /\ UNCHANGED <<code, refresh, access, consent, aged, ended>>

\* resolveRefreshGrant: age, allowed scopes and consent, or the family ends.
RefreshPolicy(c) ==
    /\ call[c].pc = "policy"
    /\ CallGoto(c, IF consent /\ ~aged THEN "mint" ELSE "invalidate")
    /\ UNCHANGED <<code, refresh, access, consent, aged, ended>>

\* The successor is minted before the presented token is claimed.
MintSuccessor(c, n) ==
    /\ call[c].pc = "mint"
    /\ NextToken(n)
    /\ refresh' = [refresh EXCEPT ![n] = [st |-> "live", rotated |-> FALSE,
                     raced |-> call[c].stale \/ refresh[call[c].old].raced]]
    /\ call' = [call EXCEPT ![c].pc = "rotate", ![c].new = n]
    /\ UNCHANGED <<code, access, consent, aged, ended>>

\* claimRefreshToken: WHERE rotatedAt IS NULL, whatever revokedAt is by now.
RotatedToo(t) == TRUE  \* mutant
Unrotated(t) == ~refresh[t].rotated
ClaimRefresh(c) ==
    LET t == call[c].old IN
    /\ call[c].pc = "rotate"
    /\ IF Unrotated(t)
       THEN /\ refresh' = [refresh EXCEPT ![t].rotated = TRUE]
            /\ CallGoto(c, "access")
       ELSE CallGoto(c, "invalidate") /\ UNCHANGED refresh
    /\ UNCHANGED <<code, access, consent, aged, ended>>

\* issueAccessAndIdToken for the rotation, or its 503; then the response.
RefreshAccess(c) ==
    LET n == call[c].new IN
    /\ call[c].pc = "access"
    /\ access' \in {access, [access EXCEPT ![n] = [st |-> "live",
                       raced |-> call[c].stale \/ refresh[n].raced]]}
    /\ CallEnds(c)
    /\ UNCHANGED <<code, refresh, consent, aged, ended>>

-----------------------------------------------------------------------------
(* Revocations, the clock *)

\* POST /revoke with a refresh token, live or not: the family is invalidated
\* (the access tokens of the user and client are those of this grant).
RevokeEndpoint(c, t) ==
    /\ call[c].pc = "idle"
    /\ HandedOut(t)
    /\ refresh[t].st # "none"
    /\ CallGoto(c, "invalidate")
    /\ UNCHANGED <<code, refresh, access, consent, aged, ended>>

\* POST /revoke with an access token ends that token only.
RevokeAccessToken(t) ==
    /\ HandedOut(t)
    /\ access[t].st = "live"
    /\ access' = [access EXCEPT ![t].st = "revoked"]
    /\ UNCHANGED <<code, refresh, consent, aged, call, ended>>

\* DELETE /oidc-consents/:id and revokeOidcAccessForUser: one transaction
\* over the tokens and the unredeemed codes.
CodeLeft(k) ==  \* mutant
    /\ refresh' = RevokedRows(refresh)
    /\ access' = RevokedRows(access)
    /\ UNCHANGED code
    /\ call' = Outlasting(call)
    /\ Ends(k)
EndAllTokens(k) ==
    /\ refresh' = RevokedRows(refresh)
    /\ access' = RevokedRows(access)
    /\ code' = [code EXCEPT !.used = TRUE]
    /\ call' = Outlasting(call)
    /\ Ends(k)
RevokeConsent ==
    /\ consent
    /\ consent' = FALSE
    /\ EndAllTokens("consent")
    /\ UNCHANGED aged
RevokeUserAccess ==
    /\ "user" \notin ended
    /\ EndAllTokens("user")
    /\ UNCHANGED <<consent, aged>>

CodeLapses ==
    /\ ~code.lapsed
    /\ code' = [code EXCEPT !.lapsed = TRUE]
    /\ UNCHANGED <<refresh, access, consent, aged, call, ended>>
FamilyAges ==
    /\ ~aged
    /\ refresh[1].st # "none"
    /\ aged' = TRUE
    /\ UNCHANGED <<code, refresh, access, consent, call, ended>>

GrantNext ==
    \/ RevokeConsent \/ RevokeUserAccess \/ CodeLapses \/ FamilyAges
    \/ \E t \in Token : RevokeAccessToken(t)
    \/ \E c \in Call :
          \/ RedeemRead(c) \/ RedeemClaim(c) \/ FirstAccess(c) \/ FirstRefresh(c) \/ AfterMint(c)
          \/ ReplayMark(c) \/ InvalidateRefresh(c) \/ InvalidateAccess(c) \/ RevokeOrphan(c)
          \/ RefreshPolicy(c) \/ ClaimRefresh(c) \/ RefreshAccess(c)
          \/ \E t \in Token : RefreshRead(c, t) \/ MintSuccessor(c, t) \/ RevokeEndpoint(c, t)

GrantSpec == GrantInit /\ [][GrantNext]_grantVars

-----------------------------------------------------------------------------
(* Properties *)

NoCallRuns == \A c \in Call : call[c].pc = "idle"

\* A code presented twice leaves nothing of its redemption alive: the replay
\* marks the code before it revokes, the redemption looks for the mark after
\* it minted, so that whichever finishes last revokes the tokens the
\* redemption issued, in every interleaving of the two.
ReplayedCodeYieldsNothing ==
    code.replayed /\ NoCallRuns => refresh[1].st # "live" /\ access[1].st # "live"

\* Concurrent rotations of one refresh token never leave the family with two
\* usable tokens: the loser of the claim revokes the family and the
\* successor it had already minted.
OneUsableRefresh ==
    NoCallRuns => Cardinality({t \in Token : refresh[t].st = "live" /\ ~refresh[t].rotated}) <= 1

\* Once a grant has been ended - by a replay, a reuse, /revoke, the consent
\* page or the account - every token that still works descends from a
\* request that was running at that moment: rotation re-checks nothing after
\* its first reads, but no request that starts afterwards gets anything.
EndedOnlyOutlivedByRace ==
    ended # {} /\ NoCallRuns =>
        \A t \in Token :
            /\ refresh[t].st = "live" => refresh[t].raced
            /\ access[t].st = "live" => access[t].raced

-----------------------------------------------------------------------------
(* The inductive invariant behind the safety properties *)

\* What a request holds fits what it does next: the token it rotates and the
\* successor it minted exist, and the one it presents was handed out, so that
\* it is no running request's successor.
CallHolds(c) ==
    LET pc == call[c].pc
        old == call[c].old
        new == call[c].new
    IN
    /\ pc \in {"policy", "mint", "rotate", "access"} => old \in Token /\ refresh[old].st # "none"
    /\ pc \in {"rotate", "access", "orphan"} => new # NoToken
    /\ new # NoToken => /\ pc \in {"rotate", "access", "invalidate", "invalidate_access", "orphan"}
                        /\ new # 1
                        /\ refresh[new].st # "none"
    /\ pc \in {"policy", "mint", "rotate"} => \A d \in Call : call[d].new # old

\* The family starts with the code's own token.
FirstIsFirst == \A t \in Token : refresh[t].st # "none" => refresh[1].st # "none"

\* Before the code is used nothing is issued, revoked or presented.
UnusedIsFresh ==
    ~code.used =>
        /\ \A t \in Token : refresh[t].st = "none" /\ access[t].st = "none"
        /\ \A c \in Call : call[c].pc \in {"idle", "claim"}
        /\ ended = {}

\* One request redeems the code and issues its tokens, each once.
Redeeming(c) == call[c].pc \in {"first_access", "first_refresh", "after_mint"}
OneRedeemer ==
    /\ \A c, d \in Call : Redeeming(c) /\ Redeeming(d) => c = d
    /\ \A c \in Call :
          /\ call[c].pc = "first_access" => access[1].st = "none"
          /\ call[c].pc \in {"first_access", "first_refresh"} => refresh[1].st = "none"

\* While the code's tokens live after a replay, the redemption has yet to
\* look for the mark, or somebody has yet to revoke them.
ReplayCaught ==
    code.replayed =>
        \/ refresh[1].st # "live" /\ access[1].st # "live"
        \/ \E c \in Call : Redeeming(c) \/ call[c].pc = "invalidate"
        \/ refresh[1].st # "live" /\ \E c \in Call : call[c].pc = "invalidate_access"

\* After an ending, what a request may still issue is marked as raced, and
\* so is what lives, but for access tokens about to be revoked.
CallOutlives(c) ==
    LET pc == call[c].pc IN
    /\ Redeeming(c) => call[c].stale
    /\ pc \in {"policy", "mint"} => call[c].stale \/ refresh[call[c].old].raced
    /\ pc \in {"rotate", "access"} => call[c].stale \/ refresh[call[c].new].raced
OutlivingIsRaced ==
    ended # {} =>
        /\ \A c \in Call : CallOutlives(c)
        /\ \A t \in Token :
              /\ refresh[t].st = "live" => refresh[t].raced
              /\ access[t].st = "live" =>
                    access[t].raced \/ \E c \in Call : call[c].pc = "invalidate_access"

\* The tip of the family: a token not rotated yet that is usable or being
\* presented, and not the successor of a request whose claim is undecided or
\* lost.  There is at most one.
Undecided(t) == \E c \in Call : call[c].new = t /\ call[c].pc # "access"
Presented(t) == \E c \in Call : call[c].old = t /\ call[c].pc \in {"policy", "mint", "rotate"}
Tip(t) ==
    /\ refresh[t].st # "none" /\ ~refresh[t].rotated
    /\ refresh[t].st = "live" \/ Presented(t)
    /\ ~Undecided(t)
OneTip == \A t, u \in Token : Tip(t) /\ Tip(u) => t = u

GrantInv ==
    /\ GrantTypeOK
    /\ \A c \in Call : CallHolds(c)
    /\ FirstIsFirst
    /\ UnusedIsFresh
    /\ OneRedeemer
    /\ ReplayCaught
    /\ OutlivingIsRaced
    /\ OneTip

=============================================================================
