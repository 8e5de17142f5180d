# QRAuth in TLA+

A verification development for QRAuth (`src/packages/`), a service that issues signed QR codes,
signs people in by QR code and keeps a public log of what it issued. The modules here model the
parts of the API server, and the login element of the browser, in which several requests, timers
or workers act on the same row, the same key or the same in-memory state. TLC checks them on small
instances; TLAPS proves the safety properties of every component of the server for every instance.

Paths below are relative to `src/packages/api/src/` unless they start with `packages/`.

## 1. The system

QRAuth is a TypeScript monorepo. `packages/api` is a Fastify server over PostgreSQL (through
Prisma), Redis and BullMQ; `packages/signer-service` holds post-quantum signing keys behind HTTP;
`packages/web-components`, `node-sdk`, `cli` and others are clients. Inside one server process the
code is single-threaded: a handler runs undisturbed from one `await` to the next, and any other
handler, of the same or of another process, may run in between. Almost every statement addresses a
single row, and most sequences of statements are **not** in a transaction. That is where the hard
behaviour lives, so the unit of atomicity in these modules is one awaited statement (or one
transaction) together with the synchronous code around it.

### Inventory

| Component | State it keeps | Operations | What it interacts with |
|---|---|---|---|
| Auth sessions (`services/auth-session.ts`, `routes/auth-sessions.ts`, `routes/approval.ts`) | `auth_sessions` rows; in-memory subscribers | create, poll, scan, approve, deny, lazy expiry, verify-result, SSE stream | signing keys, accounts (claim, erasure), cleanup worker |
| CLI exchange (`services/auth-session.ts`, `services/cli-keys.ts`) | `exchangedAt`, CLI rows of `api_keys` | exchange an approved session for one key | auth sessions, membership |
| Membership (`services/membership-admin.ts`, `services/invitations.ts`, `routes/organizations.ts`) | `memberships`, `invitations` | invite, accept, change role, remove, erase | CLI keys, accounts |
| Ephemeral sessions (`services/ephemeral.ts`) | `ephemeral_sessions` rows, Redis token entry | create, claim (compare-and-swap), get, list, revoke, lazy expiry | webhooks |
| Batch signer (`services/batch-signer.ts`) | per-key queue, timer, in-flight promise | enqueue, size and time trigger, flush, drain | signer service, `signed_batches` |
| Transparency log (`services/transparency.ts`) | `transparency_log_entries` | append, verify the chain, proofs | QR issuance |
| QR issuance (`services/qr-create.ts`) | `qr_codes` | sign, persist, append | batch signer, log, policies, logo library, quotas |
| Dashboard refresh tokens (`lib/refresh-token.ts`, `routes/auth.ts`, `routes/sessions.ts`) | `refresh_tokens` | sign-in, rotation with replay detection, logout, sign out everywhere, cleanup | accounts, workers |
| Render limiter (`lib/semaphore.ts`) | slots and two lanes of waiters | acquire, release, timeout, abort | issuance, exports |
| OpenID provider, sign-in (`routes/oidc-login.ts`, `oidc-consent-flow.ts`, `oidc-consents.ts`, `lib/oidc-session.ts`, `lib/oidc-consent.ts`) | attempts, login grants and consent pages in Redis; OP sessions, consents | login, status, resume, authorize, consent, logout, withdraw | auth sessions, tokens |
| OpenID provider, tokens (`routes/oidc-flow.ts`, `lib/oidc-refresh-token.ts`, `oidc-session-end.ts`) | codes, refresh-token families, access tokens | redeem, rotate, replay and reuse detection, revoke | consents, accounts |
| Signing keys (`services/signing.ts`, `workers/signing-key-rotation.ts`, `lib/oidc-signing-keys.ts`) | key rows, material at the signer | create, rotate with probe, revoke, publish | everything that signs or verifies |
| MAC keys (`services/mac.ts`, `workers/index.ts`) | key versions, the MAC of each code | rotate, re-MAC, retire, purge | issuance, edits, verification |
| Bulk jobs (`services/bulk-*.ts`, `workers/bulk-*.ts`, `routes/bulk.ts`) | job rows, queue entries, ZIP files | start, claim, process, record, sweep, expire | issuance, cleanup worker |
| Scan verification (`routes/verify.ts`, `routes/verify-signatures.ts`) | `scans` | verify, count, limit, record | queue, meter |
| Usage meter (`services/usage.ts`, `services/usage-alerts.ts`) | a Redis counter per month | increment, e-mail at a threshold | verification |
| QR lifecycle (`services/qr-revisions.ts`, `routes/qrcodes.ts`, `services/org-policy.ts`, `services/destination-screening.ts`) | the code's row, its revisions, its flag and policy mark | edit, restore, revoke, purge, screen, change the allowlist | MAC keys, screening, policies |
| Webhooks (`services/webhook.ts`, `workers/index.ts`) | delivery rows, jobs, rate windows | emit, post, mark, retry | queue |
| Login element (`packages/web-components/src/login.ts`) | fields and timers of one element | open, start, poll, count down, retry, close | auth sessions |
| API keys, logo library, device policies, rate limits, passkeys, billing | one table or Redis key each | see `PROJECT.json` | |
| Scoring, renderers, AI analysis, animated QR, SDK, CLI | none, or client side | | |

`PROJECT.json` lists all of them with what is modelled and why the rest is not.

### What is hard here, and what correctness means

* **Auth sessions.** Several devices poll, scan, approve and deny one row. Approve and deny write
  conditionally (`WHERE status IN (...)`); scan and expiry write *by id* after a check on an
  earlier read. Correct means: a resolution is final, one approval per session, the stored
  signature covers the stored approver and time.
* **CLI exchange.** The key must be minted once, for the approver, with the role the approver has.
* **Membership.** An organization keeps an owner whatever administrators do at the same time.
* **Ephemeral sessions.** Racing claims must spend the budget exactly, bind the right device, and
  give up only under real contention.
* **Batch signer.** No payload may be lost, signed twice, answered twice, or left in the queue by
  the shutdown; a caller told "signed" must find its batch stored.
* **Transparency log.** Entries must form one hash chain.
* **Refresh tokens.** A family is one thread of tokens; a replay, a logout and a reset end it.
* **Render limiter.** Slots balance through grants, timeouts and aborts; issuance goes first.
* **Event streams.** A stream that was open in time, in the process that resolves the session, hears
  how it ended.
* **Login element.** Awaits, poll loops and timers of an attempt outlive it; the approval of the
  session on screen must reach the page, with the user it names.
* **OpenID provider.** One scan answers one request; a code stands on a live consent; a replayed
  code yields nothing; one usable refresh token per family; an ended grant stays ended.
* **Signing and MAC keys.** The organization can always sign tokens and approvals, and what was
  signed or MACed verifies for as long as it should, through rotation, retirement and failures in
  the middle.
* **Bulk jobs.** No row is issued twice although the queue repeats itself; a job that succeeded is
  whole; the organization's only slot is freed.
* **Verification.** Limits are overrun only by visits whose recording lags or was anonymised; each
  allowance e-mail goes out at most once.
* **Edits.** The history is unbroken and ends at the row; restores replace what they read; marks
  and flags follow the destination.
* **Webhooks.** A delivery the queue gave up on is settled in its row, if the last attempt could
  write it.

The 40 hazards in `PROJECT.json` give the line where each of these can go wrong, and the
properties that would notice.

## 2. The modules

| Module | Models | State |
|---|---|---|
| `AuthSession` | the auth-session service and every other writer of its row | `row`, `past`, `claimed`, `gone`, `req`, two histories |
| `Membership` | members, invitations and erasures of one organization | `role`, `invite`, `erasing`, `gone` |
| `CliExchange` | `exchangeForApiKey`; **composes** `AuthSession` (EXTENDS) and `Membership` (INSTANCE, sharing `gone`) | `key`, `xreq`, histories |
| `UseLedger` | abstract: what an ephemeral session promises | `budget`, `open`, `uses` |
| `EphemeralSession` | the service; implements `UseLedger` | `row`, `clock`, `req`, histories (`uses`, `answers`) |
| `SigningDesk` | abstract: what the batch signer promises its callers | `open`, `pending`, `stored`, `yes`, `no` |
| `BatchSigner` | the queue of one key in one process; implements `SigningDesk` | `queue`, `timer`, `inFlight`, `running`, `waiters`, `closed`, `drained`, outcomes |
| `IssuanceLog` | the end of an issuance and the append to the log | `pc`, `tip`, `index`, `log`, `nextIndex` |
| `RefreshToken` | every statement that writes `refresh_tokens` | `state`, `fam`, `owner`, `expired`, `gone`, `req`, histories |
| `RenderSemaphore` | `lib/semaphore.ts` | `active`, `lanes`, `state` |
| `AuthStream` | the SSE handlers; **extends** `AuthSession` | `stream`, `listening` |
| `LoginWidget` | `<qrauth-login>` in button mode against the API it polls | `widget`, `starting`, `loop`, `pollTimer`, `countdown`, `api` |
| `OidcLogin` | sign-in, consent and code issue, one user and one client | `attempt`, `opSession`, `loginGrant`, `opCookie`, `page`, `consented`, `codes`, `lcall`, histories (`minted`, `answered`) |
| `OidcGrant` | one grant: its code, refresh family and access tokens | `code`, `refresh`, `access`, `consent`, `aged`, `call` |
| `SigningKeys` | the keys of one organization and algorithm | `keyRow`, `admin`, `signing`, `signed`, history `working` |
| `MacRing` | MAC key versions and the MAC of one code | `ring`, `row`, `writer`, `sweep` |
| `QrEdits` | one code, its history, flag and policy mark | `code`, `hist`, `edit`, `screen`, `listed`, `allow` |
| `ScanVerify` | visits of one code, their recording and the meter | `visit`, `job`, `scans`, `anonymised`, `meter`, `alert`, `mailed`, histories (`dropped`, `outstanding`) |
| `BulkJobs` | the bulk jobs of one organization and kind | `bulkJob`, `bulkQueue`, `starter`, `worker`, `sweep`, `dryRun` |
| `WebhookDelivery` | deliveries to one destination | `hook`, `hookJob`, `hits` |
| `MC*` | the TLC instances and their symmetry sets | `focus` |
| `*Proofs` | the TLAPS proofs, one module per group of components (section 5) | |

**How a request is modelled.** `req[r]` is the program counter of a running request and the values
it read before its last `await`. An action is one statement: `ScanRead` is `markScanned`'s read and
the decisions taken from it, `ScanWrite` its update. Guards come from the code's conditions and
`WHERE` clauses (`StillOpen`, `CasHits`, `Unrevoked`, `Claimable` are named so that they can be
mutated); early returns end the request (`Finish`). A request may also stop for ever at any step,
since safety specifications have no fairness: a crashed process is such a request. Where a property
speaks of what follows a write, a call that rejects after the write is an action of its own
(`RequestFails`, `RespondFails`, `LoginFails`, `NoteFails`, `SweepFails`, `AlertFails`): the write
stays and what was to follow it does not happen.

**Data abstractions** are stated at the head of each module. The important ones: the clock is a
flag per row (`EphemeralSession` has a third phase for the last second, in which the whole-second
Redis lifetime rounds to zero); a signature is the pair of values it covers; a hash is the entry it
identifies; a token stands for its hash; JSON, wording and logging are left out. History variables
are marked as such; they are only written, never read by a guard.

**External parts.** PostgreSQL is modelled by what the code relies on: statements are atomic, a
transaction commits at once, foreign keys refuse a reference to a deleted user, a sequence value is
drawn at insert and visible at commit. Redis refuses a lifetime of zero, and any call of it may fail
for other reasons. JavaScript runs each callback to its next `await`.

**`AuthSession`.** `Create`, `Poll`, `ScanOpen`/`ScanRead`/`ScanWrite`, `ApproveOpen`/`ApproveRead`/
`ApproveWrite`, `DenyOpen`/`DenyRead`/`DenyWrite`, `Expire`, `Notify` are the service. `RequestFails`
ends a request at any of its awaits, also between its write and `notifySubscribers`, where the code
awaits a re-read and `cacheDel`;
`ClaimAccount` (`services/account-claim.ts`), `EraseUser` (`routes/gdpr.ts`) and `Cleanup`
(`workers/index.ts`) are the other writers. `Cleanup` waits until no request works on the row: it
deletes rows a day old, and no request lives that long. `ExchangeClaim` is the write of
`exchangedAt` by an exchange, from whichever component it comes: it makes `AuthSession` open to its
one outside writer, so that a composition can be shown to keep to it.

**`CliExchange`.** One organization, because a CLI approval requires a sole membership. The erasure
step is the conjunction of `AuthSession!EraseUser` and `Membership!EraseMember`; removals and role
changes also revoke CLI keys, in the same transaction as in the code. A claimed account loses the
invitations it sent (`Membership!ClaimMember`). That the composition adds nothing to its two parts
is stated (`KeepsParts`: the specifications of the two as a property of the whole), checked and
proved.

**`BatchSigner`.** `q.inFlight` is deliberately never reset: `finally()` returns a new promise, so
the comparison `q.inFlight === flush` in the code is never true and every later `flushQueue` first
awaits a settled promise. The model shows that this is harmless for the properties below. A batch
that was signed may fail to be stored, or be stored while the answer of the database is lost; the
callers are rejected together in both cases. `SigningDesk` is the same component without queues:
payloads are accepted, and a set of accepted ones is stored and granted, or declined, in one step.

**`IssuanceLog`.** Starts where the code row is stored. `routes/demo.ts` appends demo entries
through the same function and is one more issuance to the model.

**`AuthStream`.** `StreamRead` is the handler up to the row, `StreamSubscribe` the continuation that
registers the callback. The registry is a map of each process: a connection is registered in its
`home`, and `StreamNotify(r, p)` calls the callbacks that process `p`, the one that runs the resolving
request, has at that moment. `StreamNotifyLost` is a request that fails before it comes to that.
Every other step of `AuthSession` is a step here (`SessionStep`).

**`EphemeralSession`.** After the compare-and-swap was won, `ClaimRespond` refreshes the cache,
answers with the count and emits the event. `CacheAccepts` is the lifetime Redis takes;
`RespondFails` is any error on that way: the use stays counted, the caller gets a 500 and no event
goes out. `answers` records which counts were answered and which were lost.

**`LoginWidget`.** An attempt is one `_startAuth`; its awaits are `VerifierReady`, `SessionCreated`,
`StartFails`. A poll loop is `PollSend` (fetch), `PollAnswer` (the API reads the row), `PollApply`
(the continuation), with `PollLimited` for a 429 and `PollFails`/`PollGivesUp` for errors. The
fields the loops share (`widget`, `pollTimer`) are one record and one handle, as in the element.

**`OidcLogin` and `OidcGrant`** meet at the authorization code. In `OidcLogin` a request is a value of
its own: the login grant stores the one the scan was made for, `MadeFor` compares it with the one that
is asked (`lib/oidc-login-grant.ts:74`), and `answered` records which ones got a code. The grant may
lapse (`GrantLapses`) and any request may fail between its statements (`LoginFails`). `WithdrawConsent` and
`RevokeConsent` are the same transaction, seen from each side. In `OidcGrant` a redemption is
`RedeemRead`, `RedeemClaim`, `FirstAccess`, `FirstRefresh`, `AfterMint`; a rotation `RefreshRead`,
`RefreshPolicy`, `MintSuccessor`, `ClaimRefresh`, `RefreshAccess`; a replay `ReplayMark`,
`InvalidateRefresh`, `InvalidateAccess`. A token is presented only when the response that carries it
is out (`HandedOut`): until then no client has the value, of which the table stores the hash.

**`QrEdits` and `MacRing`** are the two sides of an edit: the fields it writes back and the MAC it
computes. An edit reads the row, works, and writes all of it under the row lock; `applyUpdate`
carries what was read, `EditWrite` writes it, with the policy checked again under the lock
(`PolicyAllows`) and, for a restore, the row compared again (`assertRestorable`).

**`SigningKeys`.** An ES256 key has two envelopes at the signer, ECDSA and SLH-DSA, an RS256 key one.
`jws` says whether the ECDSA or RSA one can be used: that is the leg `probeNewKeySignable` signs with,
and the one tokens and approvals need. The SLH-DSA leg, which signs batch roots, is pushed beside it
and never probed; it is not part of the state, and nothing is claimed of it (section 4). Time is a tick of the clock-skew allowance; `signed` counts how long the youngest
artefact of a key stays valid. `JwksWindow` is the smallest window `assertJwksWindowAboveFloor`
accepts.

**`BulkJobs`.** The queue may hand a job out again (`WorkerCrash`); only `claimJob` decides who runs
it. The sweep of interrupted jobs is three awaited steps (`SweepRead`, `SweepRemove`, `SweepFinish`).
The expiry of ended jobs is `ExpireRead`, one `ExpireRemove` for each ZIP and one `ExpireDelete` for
all rows when the files are gone. `SweepFails` ends a run anywhere: a file that cannot be unlinked, a
database error, a stopped process.

**`ScanVerify`.** The signature legs and the fence are chosen freely, since the limits and the meter
only see their outcome. Redis may fail before or after it applied an increment. The e-mail for an
allowance is not awaited: `Increment` leaves it in `alert`, `SendAlert` sends it and `AlertFails` is a
failing lookup or mail server, which the code swallows. `scans` is the table: one row for each try of
a recording job that inserted, so a job that is repeated after its insert adds a second row, as the
worker does. `AnonymiseScan` is the retention job (`services/scan-analytics.ts:189`): a row a year
old loses its address hash, so it still counts for the code and no more for its device.

**`RenderSemaphore`.** A waiter that times out or is aborted leaves its lane where it stands
(`indexOf` and `splice`); `release` hands the slot to the first waiter of the issue lane, else of
the export lane.

**`WebhookDelivery`.** BullMQ is external: it hands a job out, counts its attempts, and after a stall
hands it out once more without counting. The update that notes an outcome may itself throw
(`NoteFails`), on the way of a refused address, of a failed post and of an answer that came.

## 3. Runs

All bounds are in the `.cfg` files. `CHECK_DEADLOCK FALSE` is set everywhere because each instance
is finite by construction (sessions end, items run out) and really may stop.

Components that share no state are checked in one run: the variable `focus`, fixed in the initial
state, says which component a behaviour is about, and the others stay in their initial states. The
state graph is the disjoint union of the components' graphs; no component is restricted by another,
and where a component has many initial states the others see only one of them. Where components do
interact (`CliExchange` on `AuthSession` and `Membership`, `AuthStream` on `AuthSession`,
`EphemeralSession` over `UseLedger`, `BatchSigner` over `SigningDesk`) they are composed.

| Run | Instance | Shows |
|---|---|---|
| `sessions_and_jobs` | 1 session, 2 users, 2 requests; 1 bulk job, 2 starters, 2 workers, 2 rows | `ApprovedVerifies`, `OneApprovalPerOpening`, `ResolutionIsFinal`; `IssuedAtMostOnce`, `SucceededIsWhole`, `OutcomeIsFinal`, `SlotIsFreed` |
| `issuing_queues` | 4 items, batches of 2; 5 renders, 2 slots, lanes of 2 | `NothingStranded`, `RefinesDesk`, `EveryItemAnswered`; `SlotsBalance`, `IssueLaneDrains` |
| `login_widget` | 2 sign-in attempts | `ApprovalReachesPage` |
| `cli_exchange_and_streams` | 1 session, 2 users, 2 requests; 2 exchanges, or 1 stream and 2 processes | `OneKeyPerSession`, `KeyMatchesApprover`, `ClaimedApprovalYieldsNoKey`; `SilenceExplained` |
| `access_withdrawn` | 2 members, 2 roles, 2 exchanges; a grant with 3 tokens and 2 requests | `LiveKeyMirrorsMembership`, `KeepsParts`; `ReplayedCodeYieldsNothing`, `OneUsableRefresh`, `EndedOnlyOutlivedByRace` |
| `handed_out_once` | 3 claims, 2 devices, 3 uses; 3 members; 4 issuances; 1 sign-in, 2 browsers, 2 requests; 2 deliveries, 3 attempts | `EachUseHasItsClaim`, `RefinesLedger`; `OwnerLostOnlyByErasure`; `UnlinkedOnlyByRace`; `OneAnswerPerScan`, `CodeStandsOnConsent`; `UnsettledOnlyWhenCut` |
| `codes_and_keys` | 3 tokens, 2 families; 2 edits of 1 code, 2 destinations, 3 writes; 2 MAC versions, 2 writers; 3 visits; 3 keys, 2 admins | `OneThreadPerFamily`; `HistoryIsUnbroken`, `RestoreReplacesWhatItRead`, `UncontendedMarkIsTrue`; `UncontendedCodeVerifies`; `OverrunIsOutstanding`, `AlertedAtMostOnce`; `SigningNeverLost`, `VerifiesWhileValid`, `DemotionIsFinal` |
| `auth_session_single_approval` | 1 user, 2 requests | **violation** of `SingleApproval` |
| `ephemeral_device_binding` | 2 requests, 2 devices | **violation** of `DeviceBindingHolds` |
| `issuance_log_chain` | 2 issuances | **violation** of `ChainConsistent` |
| `login_widget_identity` | 2 attempts | **violation** of `IdentityHandedOver` |
| `qr_flag_returns` | 2 edits, 2 destinations | **violation** of `FlaggedReturnsOnlyOnRequest` |

The type invariants are in no run: they are proved, as parts of the inductive invariants of
section 5. So are the invariants a refinement in a run stands on (`BudgetIsExact` under
`RefinesLedger`, `ResolvedIsStored` under `RefinesDesk`), and `PointsBack`.

**Why the bounds are enough.** Rows do not interact (each statement addresses one id), so one
session, code, grant or job suffices; two requests are the smallest number in which one overtakes
another, and three with three uses let a claim lose twice to different winners. `MaxAttempts` of the
compare-and-swap is 2 instead of 5 so that giving up is reached; the proofs are for any value.
`MaxCount` saturates the history counters; with two requests at most one scan write can reopen a
session (it must have read the row while it was PENDING), so 3 is never reached for sessions, and 2
is one above what `OneKeyPerSession` allows. Three tokens in two families let one family rotate
twice while a second exists; three tokens of a grant let two rotations of the first race. Four
payloads with batches of two give a full flush, a second trigger that waits on it and items that
arrive meanwhile; five renders with two slots and lanes of two fill both and refuse one. Three
writes of a code (`MaxWrites`, `MaxRowWrites`) let a stale edit follow two others; two MAC versions
give one full cycle of rotation, re-MAC, retirement and purge. Three visits against a limit of one
per device and two in all, with two tries of the recording job, let one visit be admitted on a lag,
one after the rows of another were anonymised, and one recording be stored twice; the one allowance,
2, is crossed by the second of three increments, so a third can repeat it or a lost one skip it. Two
processes are one that hears the notification and one that does not. Three keys give a rotation that wins, one that loses and one
that follows; the lifetimes are one and two ticks, the grace three, so that a rotated key is
published, unpublished and revoked. `HookAttempts` is 3 (first, middle, last) and the rate limit 1,
so that two deliveries collide. One sign-in attempt with two requests of two browsers reaches every
race of poll and resume tab; two consent pages are the most one attempt and one silent request open.
In `codes_and_keys` tokens, families and visits are numbered and first used in order, which by
their symmetry excludes nothing. `Symmetry` is used where a run has only invariants and action
properties, over sets whose elements the modules treat alike.

**Fairness.** Auth sessions have none: a lapsed row is written as EXPIRED only when somebody reads it,
and nobody has to (the widgets stop polling at `expiresAt`). `SignerFairness`: armed timers fire, callbacks of settled promises
run, and the signer answers or fails (the HTTP signer aborts after 30 s,
`services/slhdsa-signer/http.ts`). `SemFairness`: a render ends; no fairness on timers, so
`IssueLaneDrains` does not lean on timeouts. `BulkFairness`: only the hourly cleanup runs and an
untouched row grows stale; no worker, queue or request has to take a step, so `SlotIsFreed` rests on
the sweep alone. Runs of the cleanup may fail, any number of times but not every time, which is strong
fairness of its three steps. `WidgetFairness`: timers fire and requests end, and of a loop that keeps polling
some request reaches the handler (outages and rate-limit windows pass).

**Mutants.** Every property has a mutated definition (marked `\* mutant`) that makes it fail: a
dropped `WHERE` conjunct, a counter off by one, a missing insert, a forgotten waiter.

## 4. Where the code and what it says differ

Five runs end in a counterexample, each against a sentence of the repository:

* **Two approvals.** `services/auth-session.ts:443` says the atomic update "prevents race conditions
  where two concurrent approvals both succeed". `markScanned` (:337) writes SCANNED by id after an
  earlier check, which can reopen an APPROVED row; a second approval then succeeds. What does hold
  is `OneApprovalPerOpening`.
* **Device binding.** `services/ephemeral.ts:184` says binding is a per-session invariant that needs
  no re-check in the loop. Two devices that claim an unbound multi-use session together both get a
  use. What does hold is `BoundToFirstClaimer`.
* **Hash chain.** `services/transparency.ts:93` says the chain stays consistent under concurrent
  inserts. Two appends that read the same tip fork it, and `verifyChain` reports a broken log. What
  does hold is `PointsBack` and `UnlinkedOnlyByRace`.

* **Sign-in without a user.** `packages/web-components/src/base.ts:180` says of an approval that comes
  without the user that it "must not be reported as a successful sign-in". The login element asks
  with the verifier it holds when the answer arrives (`login.ts:945`); `_closeModal` drops the
  verifier and cannot end a fetch under way, so the late answer of a closed attempt is reported.
* **Flagged destination.** `routes/qrcodes.ts:867` says a flagged code "is cleared only by repointing
  it to a URL Web Risk reports clean (or by a superadmin)". Every edit writes back the destination
  it read (:959), also when it changes something else; written after an edit that moved the code
  away and cleared the flag, it brings the flagged destination back without the flag.

Met while modelling, visible in the state graphs, and reflected in the way properties are weakened:

* A session that was scanned and abandoned is never expired (`services/auth-session.ts:291` looks
  for PENDING only), and one that is PENDING only when it is read again, which the widgets do not do
  after `expiresAt` (`packages/web-components/src/login.ts:998`, `twofa.ts:834`), while
  `packages/docs/api/auth-sessions.md:32` says EXPIRED means "TTL elapsed without completion". Hence
  no property says that a lapsed session settles.
* The sole-owner check of `routes/gdpr.ts:177` is outside the erasure transaction: two owners who
  erase their accounts together leave none. Hence `OwnerLostOnlyByErasure`.
* The exchange reads the membership outside its transaction (`services/auth-session.ts:647`); a
  removal in between is followed by a key. Hence the `raced` sessions in `LiveKeyMirrorsMembership`.
* A claim counts its use before it refreshes the cache (`services/ephemeral.ts:276`): any Redis error
  there, and in the last second the lifetime of zero (:289), gives the caller a 500 and emits no event
  although the use is spent. Hence `failed` in `EachUseHasItsClaim`.
* `maxBatchSize` is documented as a "hard ceiling" (`services/batch-signer.ts:47`), but a flush takes
  the whole queue; `flushAll` may resolve while another call's flush is still being signed (:152).
  Hence `DrainEmptiesQueue` speaks of the queue only.
* A rotation that has revoked the old token and not stored the new one escapes a logout, replay or
  reset (`lib/refresh-token.ts:97`). Hence the `escaped` families in `EndedFamilyStaysEnded`.
* The hourly cleanup deletes revoked tokens (`workers/index.ts:664`), after which a replay is not
  recognised.
* A stream that read the row before the resolving write and subscribed after its notification stays
  silent (`routes/auth-sessions.ts:389`). So does one whose notification was lost to a failing
  re-read or `cacheDel` after the write (`services/auth-session.ts:467`, :470, :521, :537), or ran in
  another process than the one that holds its callback (:189). Hence `late` and `missed` in
  `SilenceExplained`; the element polls.
* An edit or a re-MAC that replaces a row it had not read can leave a live code with a MAC that is
  not accepted (`services/mac.ts:274` and `routes/qrcodes.ts:959` write by id), or with a wrong
  policy mark. Hence `UncontendedCodeVerifies` and `UncontendedMarkIsTrue`.
* A token rotation re-checks nothing after its first reads, so one that was running when a grant was
  ended may still mint (`routes/oidc-flow.ts:659`). Hence `EndedOnlyOutlivedByRace`; and a code
  inserted after a consent was looked up and withdrawn stands on nothing. Hence the marked codes of
  `CodeStandsOnConsent`.
* The sweep removes the file of a job it read as stale before it can fail the job
  (`services/bulk-cleanup.ts:55`); an export that ends in between is recorded without its ZIP. The
  ZIPs of expired jobs go before their rows (:70, :71), so that a run that fails in between leaves
  SUCCEEDED jobs without theirs until a later run. Hence `swept` in `SucceededIsWhole`.
* A webhook whose last attempt meets the rate limit, whose worker stops, or whose outcome cannot be
  written (`workers/index.ts:416`, :435, :453) leaves a row that is neither delivered nor failed.
  Hence `cut` in `UnsettledOnlyWhenCut`.
* An allowance e-mail is lost when Redis applied the increment and did not confirm it, and when the
  lookup or the mail server fails (`routes/verify.ts:662` does not await it,
  `services/usage-alerts.ts:43` swallows the error); nothing sends it again. Hence `dropped` in
  `AlertedAtMostOnce`.
* Anonymised scans stop counting against `maxScansPerDevice` (`routes/verify.ts:307` compares the
  hash that `services/scan-analytics.ts:189` overwrites), so a device gets further scans after a year.
  Hence `outstanding` counts visits whose rows no longer name the device in `OverrunIsOutstanding`.
* The probe of a new key signs with its ECDSA leg alone (`services/signing.ts:577`); an unusable
  SLH-DSA envelope becomes ACTIVE with it and only batch signing notices. Hence `SigningNeverLost`
  speaks of tokens and approvals.

## 5. Proofs

| Module | Theorem | `[]` of, or the property |
|---|---|---|
| `AuthSessionProofs` | `TypeCorrect` | `TypeOK` |
| | `ApprovedVerify`, `ApprovalPerOpening`, `ErasedUnlinked` | `ApprovedVerifies`, `OneApprovalPerOpening`, `ErasedStaysUnlinked` |
| | `ResolutionFinal` | `ResolutionIsFinal` (action property) |
| `ExchangeProofs` | `OneKey`, `KeyToApprover` | `OneKeyPerSession`, `KeyMatchesApprover` |
| | `ClaimEndsKeys`, `KeyMirrorsRole` | `ClaimedApprovalYieldsNoKey`, `LiveKeyMirrorsMembership` |
| | `CliTypeCorrect` | `CliTypeOK` |
| | `ExchangeKeepsParts` | `KeepsParts`: the composition implements `AuthSession!Spec` and `Membership!MemberSpec` |
| | `ExchangedResolutionFinal` | `ResolutionIsFinal` of the composition (action property) |
| | `StreamTold` | `SilenceExplained` |
| `MembershipProofs` | `MemberTypeCorrect`, `OwnerLoss` | `MemberTypeOK`; `OwnerLostOnlyByErasure` (action property) |
| `EphemeralProofs` | `EphemeralTypeCorrect`, `EphemeralSafety` | `TypeOK`; `BudgetIsExact`, `BoundToFirstClaimer`, `ContentionIsProgress` |
| | `EphemeralRefinesLedger` | the service implements `UseLedger` |
| | `UsesHaveClaims`, `EndingFinal` | `EachUseHasItsClaim`; `EndingIsFinal` (action property) |
| `OidcProofs` | `ScanAnswersOnce`, `CodesStandOnConsent` | `OneAnswerPerScan`, `CodeStandsOnConsent` |
| | `ReplayEndsGrant`, `OneUsable`, `EndingOutlived` | `ReplayedCodeYieldsNothing`, `OneUsableRefresh`, `EndedOnlyOutlivedByRace` |
| `CredentialProofs` | `SigningSafety`, `KeysVerify` | `SigningNeverLost`, `VerifiesWhileValid` |
| | `DemotionFinal` | `DemotionIsFinal` (action property) |
| | `CodeVerifies` | `UncontendedCodeVerifies` |
| | `RefreshSafety` | `RefreshTypeOK`, `OneThreadPerFamily`, `EndedFamilyStaysEnded`, `ErasedHasNoTokens` |
| `CodeProofs` | `HistoryUnbroken`, `MarkIsTrue` | `HistoryIsUnbroken`, `UncontendedMarkIsTrue` |
| | `RestoreIsCurrent` | `RestoreReplacesWhatItRead` (action property) |
| | `AlertedOnce`, `OverrunBounded` | `AlertedAtMostOnce`, `OverrunIsOutstanding` |
| | `ScanTypeCorrect` | `ScanTypeOK` |
| `JobProofs` | `SignerSafety` | `SignerTypeOK`, `SignedOnce`, `ResolvedIsStored`, `NothingStranded`, `DrainEmptiesQueue` |
| | `SignerRefinesDesk` | the signer implements `SigningDesk` |
| | `SlotsAlwaysBalance` | `SlotsBalance` |
| | `LogPointsBack`, `LogLinked` | `LogTypeOK`, `PointsBack`; `UnlinkedOnlyByRace` |
| | `BulkIssuesOnce`, `BulkSucceedsWhole` | `IssuedAtMostOnce`, `SucceededIsWhole` |
| | `BulkOutcomeFinal` | `OutcomeIsFinal` (action property) |
| | `HooksSettle` | `UnsettledOnlyWhenCut` |

They hold for any sets of sessions, users, requests, devices, items, codes, tokens, visits, renders,
jobs and roles, under the `ASSUME`s of the modules: model values such as `None` lie outside the sets
they extend (for the CLI exchange outside the roles and the key records as well), bounds are
naturals and, where nothing could happen at zero, positive; `Item` is finite, "OWNER" is a role, an
allowance is not zero, and the revocation grace outlasts an ID token or an approval by the clock
skew. The last one is what the comment above
`SIGNING_KEY_REVOKE_GRACE_DAYS` in `config.ts` asks of the configuration (ID tokens live 1 h,
sessions up to 24 h, the default grace is 30 days); the schema itself accepts any whole day.

The inductive invariants, at the end of each module, and why the properties alone are not inductive:

* `AuthSession!IInv` adds `RowsExist` (a request works on an existing row, so its late write cannot
  revive a deleted one) and `OpenBudget`: a row that can still be approved has been approved no more
  often than it was reopened. Without it an approval could not be charged to an opening.
* `CliExchange!CliInv` stands on `AuthSession!IInv` and adds what an exchange knows between its
  awaits. `KeyIsClaim`: a key is minted once, by the transaction that sets `exchangedAt`, and a
  deleted row never comes back. `AnsweredIsSettled` and `ExchangeForApprover`: until a late scan
  write reopens it, a session that was answered or is being exchanged cannot be approved again, and
  its exchanges name the approver on the row. `VoidedIsDead`: what a claimed account approved cannot
  be exchanged any more. `ExchangeMirrorsMembership`: an exchange about to commit holds the
  approver's current role, unless the session is marked `raced` or the account is erased. The two
  refinements go action by action (`SessionSees`, `MembersSee`): each step of the composition is a
  step of the session service, or of the membership component, or leaves its variables alone; the
  claim inside `ExchangeMint` is `ExchangeClaim`, for which `CliTypeOK` supplies that an exchange
  only ever names a CLI session. What is proved of a part then holds of the whole:
  `ExchangedResolutionFinal` is `ResolutionFinal` carried over, and `OwnerLoss` carries over from
  `MembershipProofs` in the same way (by `ExchangeKeepsParts`, not restated).
* `AuthStream!StreamInv` adds `OpenIsRegistered`: a stream that waits has its callback in its
  process's list, so a notification that does not end it has passed it by and is noted as `missed`.
* `EphemeralSession!IInv` adds `ClaimsAreCurrent`: since `useCount` only grows, a claim whose count
  still matches carries the hash computed from the very row it writes. That is the argument for the
  compare-and-swap, and it gives the refinement step: a hit is `Spend`, a closing write is `Close`,
  everything else stutters. `AnswerInv` is `EachUseHasItsClaim` beside it: a hit takes the count
  after the last use, which nobody was told, and its claim alone holds it until it is answered or lost.
* `OidcLogin!LoginInv` adds `NamesLogin` (requests, pages and cookies name attempts that were opened,
  by the browser that opened them), `OneMint` (an attempt is stored, or being turned into a session
  by the one request that took it, or used up), `OneRight` (the right of a session to answer one
  request is in one place, its login grant, a request or an open page, and gone once used),
  `RightIsOwn` (wherever it is, it is for the request the scan was made for) and `LookedUpConsent` (a request that looked the consent up and was not overtaken found it).
* `OidcGrant!GrantInv` adds `CallHolds` (what each request holds at each of its steps),
  `FirstIsFirst`, `OneRedeemer` (the conditional update lets one redemption past the claim, and it
  issues each token once), `UnusedIsFresh` (before the code is used nothing is issued, presented or
  ended), `ReplayCaught` (while the first tokens live after a replay, the redemption has yet to look
  for the mark or somebody has yet to revoke them), `OutlivingIsRaced` (what lives or may still be
  issued after an ending is marked as raced) and `OneTip` (of the unrotated tokens that are usable or
  being presented, at most one is not the successor of an undecided or lost rotation). The attempt to
  prove `OneTip` is what brought `HandedOut` into the model: when a successor could be presented
  before its own response was sent, four requests gave two usable tokens, in states no client can
  bring about and no run with two requests reaches.
* `SigningKeys!KeysInv` adds `AdminHolds` (what a rotation is about to commit is material of its own
  whose JWS leg passed the probe), `SignsInTime` (a request signs at most one tick after its key was demoted)
  and `LifeRemains`: the ticks since the demotion and the life left in what the key signed add up to
  at most one life and one tick. A tick moves one unit from the second to the first, so the sum is
  kept, and the published window and the grace both exceed it. `DemotionIsFinal` needs `AdminHolds`
  and the condition of the demotion: the row a rotation activates is one that never was a key, and
  the row it demotes is still the active one.
* `MacRing!RingInv` adds `OneActive` (one version is active, later ones are unused, earlier ones are
  not), `WritersAccepted` (a request is about to store a MAC under a version that is accepted and not
  older than the request, or the fields it read) and `OnTheWayOut` (a version being retired is
  rotated, older than every request in flight and, once the count was zero, named by no live row).
* `RefreshToken!RefreshInv` adds `FamiliesAreOwned` and `SuccessorIsNew`: a token that is live or
  being rotated has no successor yet.
* `QrEdits!EditInv` adds `RevisionPerWrite` (every revision but the first comes with a write of the
  row) and `ReadIsDated`: an edit that carries the row's `updatedAt` carries its destination. A
  restore and the policy mark both rest on it.
* `ScanVerify!AlertInv` is the property with its types: the meter takes each count once, and the
  e-mail for an allowance it reached is with one visit, sent, or dropped. `LimitInv` is a counting
  argument. Visits have rows of their own, so the rows a visit counts (for its device those that still
  name it) are at least as many as the visits admitted before it that have such a row, and what a
  limit lets through beyond itself was admitted and had none at that moment.
  `ScanTypeCorrect` takes the counts from these two and adds the jobs: a try is counted only while
  another one is left, so the rows of a visit are as many as its job has tries at most.
* `BatchSigner!SignerInv` adds `ClosingHolds`: once `flushAll` took the queue nothing is accepted.
  The refinement maps what is queued or being signed to `pending`. Every step then accepts or
  refuses a payload, answers one whole batch, closes the desk, or stutters (`DeskStep`); that a batch
  is answered as one rests on `SignedOnce`: no payload is in two places.
* `RenderSemaphore!SemInv` adds `OnePlace` (a waiter stands once, in one lane, so removing it or
  handing it a slot settles it) and the finiteness of `Rendering`, whose cardinality is `active`.
* `IssuanceLog!LogInv` adds that drawn indexes are below the sequence and that the tip an issuance
  holds is committed, so the index it draws later is larger. `LinkInv` adds `UnracedHoldsTip`: beside an
  issuance that did not race nobody is appending, the tip it read is still the tip and the index it
  draws is the highest.
* `BulkJobs!BulkInv` adds `OneOwner` (a worker past its claim owns, alone, a job that left QUEUED for
  good, whatever the queue repeats), `IssuedIsDone` (nothing is issued before the claim, and
  afterwards only what the owner has done) and `RecordedIsWhole` (what is about to be recorded as
  SUCCEEDED is whole, and the sweep marks what it takes, interrupted or expired). `OutcomeIsFinal` needs `OneOwner` for the
  results: a save of the progress is by id, and would change a job that succeeded if a worker were
  left that owns one.
* `WebhookDelivery!HooksInv` adds `AttemptsLeft`: a job that may still run has an attempt left, so
  the attempt that uses up the last one is the one `IsLastAttempt` recognises; it writes the outcome or
  is marked `cut`.

Each step proof has one case per action; steps that do the same thing to the invariant share a
lemma (`QuietStep`, `CloseStep`, `RequestMoves`, `FamiliesEnd`, `RowsGo`).

`TypeCorrect`, `EphemeralTypeCorrect`, `MemberTypeCorrect`, `CliTypeCorrect`, `ScanTypeCorrect` and
`EndingFinal`, and the parts `ErasedStaysUnlinked`, `BudgetIsExact`, `BoundToFirstClaimer`,
`ContentionIsProgress`, `SignedOnce`, `ResolvedIsStored`, `PointsBack`, `DrainEmptiesQueue`,
`EndedFamilyStaysEnded` and `ErasedHasNoTokens` of the others, are not repeated by a run: the
theorems say more than an instance would.

**Only model-checked:** the liveness properties `EveryItemAnswered`,
`IssueLaneDrains`, `SlotIsFreed` and `ApprovalReachesPage` (the prover does not reach fairness and
ENABLED), and with the last one the whole of `LoginWidget`; and the counterexamples of section 4.
What recursive definitions compute for every input is out of the prover's reach as well; none is
used.

## 6. Not modelled, and the plan

The modules cover the code in which state is shared between steps. By lines that is a small part of
the repository, and more of it cannot be modelled without transliterating data: the dashboard and
the marketing pages, the HTML renderers and e-mail texts, the published builds of the browser SDK
(`packages/api/public/sdk`, a copy of the components per version), request schemas and validation,
image and PDF drawing, text comparison and scoring tables make up most of it. They are sequential
or pure, and unit tests reach what can go wrong there.

Not modelled, by reason:

* **Cryptography**: hybrid signing, Merkle batches, the signer service. Calls that answer, fail or
  leave an unusable envelope (`BatchSigner`, `SigningKeys`).
* **Pure or heuristic code**: renderers, lookalike and fraud scores, trust score, animated frames,
  SDK, CLI, the AI analysis job.
* **Driven by an external service**: billing (Stripe's webhooks).
* **Single statements**: API keys other than CLI keys, folders and tags, the logo library, domains,
  most account routes (sign-up, OAuth linking, e-mail verification).
* **Device policies and the rate-limit store**: counters checked before an insert; their overrun is
  the one `ScanVerify` shows for the scan limits. `checkDeviceLimit` (`services/device-policy.ts`) has
  no caller in the repository, so there is no behaviour of it to model.

Worth doing next:

1. `QrIssuance`, composing `BatchSigner`, `IssuanceLog` and `MacRing` with the policy lock and the
   quota, and its theorem from the invariants of its parts, as `ExchangeProofs` does it.
2. Billing webhooks in arbitrary order.
