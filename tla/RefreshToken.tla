---------------------------- MODULE RefreshToken ----------------------------
(***************************************************************************)
(* Dashboard refresh tokens (packages/api/src/lib/refresh-token.ts and its *)
(* callers).  A login starts a family; every refresh revokes the token     *)
(* presented and issues the next one of its family.  The statements of     *)
(* rotateRefreshToken and revokeTokenFamily are not in one transaction, so *)
(* refreshes, logouts, password resets, erasures and the hourly cleanup    *)
(* interleave between them.                                                *)
(*                                                                         *)
(* Data abstraction.  A token stands for its hash; a fresh one is one that *)
(* was never used.  The clock is a flag per token.                         *)
(***************************************************************************)
EXTENDS Naturals, FiniteSets

CONSTANTS
    Token,      \* refresh tokens
    Family,     \* token families
    User,       \* accounts
    Req,        \* concurrently running HTTP requests
    None        \* an absent value

ASSUME RefreshAssumption == None \notin Token \cup Family \cup User

VARIABLES
    state,      \* the refresh_tokens rows: absent, live, revoked or deleted
    fam,        \* the family column
    owner,      \* the userId column, the same for a whole family
    expired,    \* tokens whose expiresAt is behind the clock
    gone,       \* erased accounts
    req,        \* what each running request does next and remembers
    spent,      \* history: tokens a successor was issued for, with multiplicity
    ended,      \* history: families that a revocation covered
    escaped     \* history: those of them a rotation was running in then

vars == <<state, fam, owner, expired, gone, req, spent, ended, escaped>>

-----------------------------------------------------------------------------

State   == {"absent", "live", "revoked", "deleted"}
Pc      == {"idle", "replay", "kill", "fetch", "create", "logout"}
Request == [pc : Pc, t : Token \cup {None}]
Idle    == [pc |-> "idle", t |-> None]

RefreshTypeOK ==
    /\ state \in [Token -> State]
    /\ fam \in [Token -> Family \cup {None}]
    /\ owner \in [Family -> User \cup {None}]
    /\ expired \in SUBSET Token
    /\ gone \in SUBSET User
    /\ req \in [Req -> Request]
    /\ \A r \in Req : req[r].pc # "idle" => req[r].t \in Token
    /\ spent \in [Token -> 0..1]
    /\ ended \in SUBSET Family
    /\ escaped \in SUBSET ended

RefreshInit ==
    /\ state = [t \in Token |-> "absent"]
    /\ fam = [t \in Token |-> None]
    /\ owner = [f \in Family |-> None]
    /\ expired = {}
    /\ gone = {}
    /\ req = [r \in Req |-> Idle]
    /\ spent = [t \in Token |-> 0]
    /\ ended = {}
    /\ escaped = {}

-----------------------------------------------------------------------------

Stored(t)     == state[t] \in {"live", "revoked"}
Rotates(r, f) == req[r].pc \in {"fetch", "create"} /\ fam[req[r].t] = f
Rotating(f)   == \E r \in Req : Rotates(r, f)

Go(r, pc, t) == req' = [req EXCEPT ![r] = [pc |-> pc, t |-> t]]
Finish(r)    == req' = [req EXCEPT ![r] = Idle]

\* The userId column references the users table.
UserExists(u) == u \in User \ gone

\* createRefreshToken: a fresh token in family f.
CreateRefreshToken(t, f) ==
    /\ state[t] = "absent"
    /\ state' = [state EXCEPT ![t] = "live"]
    /\ fam' = [fam EXCEPT ![t] = f]

\* The revoking update of a set F of families, and its history.
RevokeFamilies(F) ==
    /\ state' = [t \in Token |-> IF state[t] = "live" /\ fam[t] \in F THEN "revoked" ELSE state[t]]
    /\ ended' = ended \cup F
    /\ escaped' = escaped \cup {f \in F : Rotating(f)}

\* Password sign-in, OAuth callback and organization switch: a new family.
Login(u, t, f) ==
    /\ UserExists(u)
    /\ owner[f] = None
    /\ owner' = [owner EXCEPT ![f] = u]
    /\ CreateRefreshToken(t, f)
    /\ UNCHANGED <<expired, gone, req, spent, ended, escaped>>
\* Sign-in with a passkey does the same.
PasskeyLogin(u, t, f) == Login(u, t, f)

\* The WHERE clause of rotateRefreshToken's conditional update.
StillStored(t) == Stored(t)  \* mutant
Unrevoked(t) == state[t] = "live"

\* POST /refresh: revoke the token presented if it is not revoked yet.
RefreshCas(r, t) ==
    /\ req[r].pc = "idle"
    /\ state[t] # "absent"
    /\ IF Unrevoked(t)
       THEN state' = [state EXCEPT ![t] = "revoked"] /\ Go(r, "fetch", t)
       ELSE UNCHANGED state /\ Go(r, "replay", t)
    /\ UNCHANGED <<fam, owner, expired, gone, spent, ended, escaped>>

\* The token was not live: was it a replay of a revoked one?
ReplayRead(r) ==
    /\ req[r].pc = "replay"
    /\ IF state[req[r].t] = "revoked" THEN Go(r, "kill", req[r].t) ELSE Finish(r)
    /\ UNCHANGED <<state, fam, owner, expired, gone, spent, ended, escaped>>

\* A replay revokes the whole family.
ReplayKill(r) ==
    /\ req[r].pc = "kill"
    /\ RevokeFamilies({fam[req[r].t]})
    /\ Finish(r)
    /\ UNCHANGED <<fam, owner, expired, gone, spent>>

\* The row just revoked is read back: gone or expired ends the refresh.
RefreshFetch(r) ==
    /\ req[r].pc = "fetch"
    /\ IF Stored(req[r].t) /\ req[r].t \notin expired THEN Go(r, "create", req[r].t) ELSE Finish(r)
    /\ UNCHANGED <<state, fam, owner, expired, gone, spent, ended, escaped>>

\* The next token of the family; the insert fails when the account has been
\* erased meanwhile.
RefreshCreate(r, t) ==
    LET f == fam[req[r].t] IN
    /\ req[r].pc = "create"
    /\ UserExists(owner[f])
    /\ CreateRefreshToken(t, f)
    /\ spent' = [spent EXCEPT ![req[r].t] = @ + 1]
    /\ Finish(r)
    /\ UNCHANGED <<owner, expired, gone, ended, escaped>>
RefreshFails(r) ==
    /\ req[r].pc = "create"
    /\ ~UserExists(owner[fam[req[r].t]])
    /\ Finish(r)
    /\ UNCHANGED <<state, fam, owner, expired, gone, spent, ended, escaped>>

\* POST /logout: revokeTokenFamily finds the family, then revokes it.
LogoutRead(r, t) ==
    /\ req[r].pc = "idle"
    /\ Stored(t)
    /\ Go(r, "logout", t)
    /\ UNCHANGED <<state, fam, owner, expired, gone, spent, ended, escaped>>
LogoutWrite(r) ==
    /\ req[r].pc = "logout"
    /\ RevokeFamilies({fam[req[r].t]})
    /\ Finish(r)
    /\ UNCHANGED <<fam, owner, expired, gone, spent>>

\* DELETE /sessions/:id does the same for a session picked from the list.
RevokeSessionRead(r, t) == LogoutRead(r, t)
RevokeSessionWrite(r)   == LogoutWrite(r)

\* A password reset or an account claim revokes every token of the user, and
\* so does DELETE /sessions, signing out everywhere.
RevokeAllUserTokens(u) ==
    /\ UserExists(u)
    /\ RevokeFamilies({f \in Family : owner[f] = u})
    /\ UNCHANGED <<fam, owner, expired, gone, req, spent>>

SignOutEverywhere(u) == RevokeAllUserTokens(u)

\* Erasing an account revokes its tokens and deletes them with the user.
EraseAccount(u) ==
    /\ UserExists(u)
    /\ gone' = gone \cup {u}
    /\ state' = [t \in Token |-> IF Stored(t) /\ owner[fam[t]] = u THEN "deleted" ELSE state[t]]
    /\ UNCHANGED <<fam, owner, expired, req, spent, ended, escaped>>

Elapse(t) ==
    /\ Stored(t)
    /\ expired' = expired \cup {t}
    /\ UNCHANGED <<state, fam, owner, gone, req, spent, ended, escaped>>

\* The hourly cleanup deletes what is expired or revoked.
Cleanup ==
    /\ state' = [t \in Token |->
                   IF state[t] = "revoked" \/ (state[t] = "live" /\ t \in expired)
                   THEN "deleted" ELSE state[t]]
    /\ UNCHANGED <<fam, owner, expired, gone, req, spent, ended, escaped>>

RefreshNext ==
    \/ \E u \in User, t \in Token, f \in Family : Login(u, t, f) \/ PasskeyLogin(u, t, f)
    \/ \E r \in Req, t \in Token : RefreshCas(r, t) \/ RefreshCreate(r, t)
    \/ \E r \in Req, t \in Token : LogoutRead(r, t) \/ RevokeSessionRead(r, t)
    \/ \E r \in Req : ReplayRead(r) \/ ReplayKill(r) \/ RefreshFetch(r) \/ RefreshFails(r)
    \/ \E r \in Req : LogoutWrite(r) \/ RevokeSessionWrite(r)
    \/ \E u \in User : RevokeAllUserTokens(u) \/ SignOutEverywhere(u) \/ EraseAccount(u)
    \/ \E t \in Token : Elapse(t)
    \/ Cleanup

RefreshSpec == RefreshInit /\ [][RefreshNext]_vars

-----------------------------------------------------------------------------
(* Properties *)

\* A family is one thread: of all refreshes that race on its tokens at most
\* one is between revoking the old token and issuing the new one, and then
\* no token is live.  So a token is rotated at most once, and a family never
\* has two live tokens (the conditional update of rotateRefreshToken).
OneThreadPerFamily ==
    \A f \in Family :
        /\ \A t1, t2 \in Token :
              state[t1] = "live" /\ state[t2] = "live" /\ fam[t1] = f /\ fam[t2] = f => t1 = t2
        /\ \A r1, r2 \in Req :
              Rotates(r1, f) /\ Rotates(r2, f) => r1 = r2
        /\ Rotating(f) => \A t \in Token : fam[t] = f => state[t] # "live"

\* A family that was revoked while no rotation was running in it (by a
\* logout, a replay, a password reset) is over: no replay, refresh or
\* cleanup brings a live token back.
EndedFamilyStaysEnded ==
    \A f \in ended \ escaped :
        ~Rotating(f) /\ \A t \in Token : fam[t] = f => state[t] # "live"

\* No refresh that was running while an account was erased leaves a token
\* of that account behind.
ErasedHasNoTokens ==
    \A t \in Token : Stored(t) => owner[fam[t]] \in User \ gone

-----------------------------------------------------------------------------
(* The inductive invariant behind the safety properties *)

\* A token in use has a family, a family in use has an owner, and a request
\* works on a token that was issued.
FamiliesAreOwned ==
    /\ \A t \in Token : state[t] # "absent" <=> fam[t] # None
    /\ \A t \in Token : fam[t] # None => owner[fam[t]] # None
    /\ \A f \in ended : owner[f] # None
    /\ \A r \in Req : req[r].pc # "idle" => state[req[r].t] # "absent"

\* A token that may still be rotated, or is being rotated, has no successor.
SuccessorIsNew ==
    /\ \A t \in Token : state[t] \in {"absent", "live"} => spent[t] = 0
    /\ \A r \in Req : req[r].pc \in {"fetch", "create"} =>
          state[req[r].t] # "live" /\ spent[req[r].t] = 0

RefreshInv ==
    /\ RefreshTypeOK
    /\ FamiliesAreOwned
    /\ SuccessorIsNew
    /\ OneThreadPerFamily
    /\ EndedFamilyStaysEnded
    /\ ErasedHasNoTokens

=============================================================================
