---------------------------- MODULE SigningKeys ----------------------------
(***************************************************************************)
(* The signing keys of one organization and one algorithm, and what is     *)
(* signed with them (services/signing.ts, workers/signing-key-rotation.ts, *)
(* lib/oidc-signing-keys.ts, the window floor of lib/config.ts).           *)
(*                                                                         *)
(* Creating or rotating a key mints material outside the database, and     *)
(* the signer may accept an envelope it cannot use afterwards.  Rotation   *)
(* signs a probe with the new key before one transaction demotes the old   *)
(* row and creates the new one.  A request that signs has read the active  *)
(* key earlier.  Time runs in ticks of the clock-skew allowance, which no  *)
(* signing request outlasts.                                               *)
(*                                                                         *)
(* The module follows the leg of a key that signs tokens, approvals and    *)
(* canonical payloads, ECDSA or RSA.  An ES256 row has a second one, the   *)
(* SLH-DSA key of batch roots, in an envelope of its own that is pushed    *)
(* with the first and that no probe tries: a rotation may bring a row that *)
(* cannot sign batch roots, and nothing here says otherwise.               *)
(***************************************************************************)
EXTENDS Naturals, FiniteSets

CONSTANTS
    KeyAdmin,       \* creations and rotations running at once
    KeyUser,        \* requests that sign
    MaxKeys,        \* keys the model mints
    IdTokenTtl,     \* ticks an ID token is valid
    ApprovalTtl,    \* ticks an auth-session approval can be verified
    ClockSkew,      \* JWKS_CLOCK_SKEW_ALLOWANCE_SECONDS, in ticks
    RevokeGrace,    \* SIGNING_KEY_REVOKE_GRACE_DAYS, in ticks
    NoKey

ASSUME KeysAssumption ==
    /\ {MaxKeys, IdTokenTtl, ApprovalTtl, ClockSkew, RevokeGrace} \subseteq Nat \ {0}
    /\ ApprovalTtl + ClockSkew <= RevokeGrace
    /\ IdTokenTtl + ClockSkew <= RevokeGrace
    /\ NoKey \notin Nat

Key == 1..MaxKeys
Artefact == {"id_token", "approval"}

VARIABLES
    keyRow,     \* the SigningKey rows and the material behind them
    admin,      \* running creations and rotations
    signing,    \* running signatures
    signed,     \* ticks at which the youngest artefact of a key and kind is still valid
    working     \* history: an active key that can sign a JWS has existed

keyVars == <<keyRow, admin, signing, signed, working>>

\* jws: the signer can use the ECDSA or RSA envelope.  since: ticks since
\* rotatedAt.
KeyRow == [st : {"none", "minted", "ACTIVE", "ROTATED", "REVOKED"}, jws : BOOLEAN,
           since : 0..(RevokeGrace + 1)]

AdminCall == [pc : {"idle", "mint", "probe", "commit"},
              cur : Key \cup {NoKey}, new : Key \cup {NoKey}]
SignCall == [pc : {"idle", "sign"}, k : Key \cup {NoKey}, waited : BOOLEAN]

KeysTypeOK ==
    /\ keyRow \in [Key -> KeyRow]
    /\ admin \in [KeyAdmin -> AdminCall]
    /\ signing \in [KeyUser -> SignCall]
    /\ signed \in [Key -> [Artefact -> 0..(1 + IdTokenTtl + ApprovalTtl)]]
    /\ working \in BOOLEAN

IdleAdmin == [pc |-> "idle", cur |-> NoKey, new |-> NoKey]
IdleSigning == [pc |-> "idle", k |-> NoKey, waited |-> FALSE]

KeysInit ==
    /\ keyRow = [k \in Key |-> [st |-> "none", jws |-> FALSE, since |-> 0]]
    /\ admin = [a \in KeyAdmin |-> IdleAdmin]
    /\ signing = [u \in KeyUser |-> IdleSigning]
    /\ signed = [k \in Key |-> [x \in Artefact |-> 0]]
    /\ working = FALSE

-----------------------------------------------------------------------------

Actives == {k \in Key : keyRow[k].st = "ACTIVE"}
AdminEnds(a) == admin' = [admin EXCEPT ![a] = IdleAdmin]
Works(rows) == \E k \in Key : rows[k].st = "ACTIVE" /\ rows[k].jws
NextKey(k) == keyRow[k].st = "none" /\ \A x \in Key : x < k => keyRow[x].st # "none"

\* createKeyPair at sign-up or onboarding, where the organization has no key;
\* rotateKey and rotateKeyById read the row they are going to replace.
CreateRead(a) ==
    /\ admin[a].pc = "idle"
    /\ Actives = {}
    /\ admin' = [admin EXCEPT ![a].pc = "mint"]
    /\ UNCHANGED <<keyRow, signing, signed, working>>
RotateRead(a, k) ==
    /\ admin[a].pc = "idle"
    /\ k \in Actives
    /\ admin' = [admin EXCEPT ![a].pc = "mint", ![a].cur = k]
    /\ UNCHANGED <<keyRow, signing, signed, working>>

\* mintKeyMaterial: the material is generated and pushed; a push that is
\* refused throws, one that is accepted may still leave an envelope that
\* cannot sign.
MintFails(a) ==
    /\ admin[a].pc = "mint"
    /\ AdminEnds(a)
    /\ UNCHANGED <<keyRow, signing, signed, working>>
Mint(a, k, jws) ==
    /\ admin[a].pc = "mint"
    /\ NextKey(k)
    /\ keyRow' = [keyRow EXCEPT ![k].st = "minted", ![k].jws = jws]
    /\ admin' = [admin EXCEPT ![a].pc = IF admin[a].cur = NoKey THEN "commit" ELSE "probe",
                              ![a].new = k]
    /\ UNCHANGED <<signing, signed, working>>

\* probeNewKeySignable, before anything is written: it signs one JWS with the
\* new key and verifies it; an unusable ECDSA or RSA envelope, or a signer
\* that does not answer, aborts the rotation.
ProbeSkipped(k) == TRUE  \* mutant
ProbePasses(k) == keyRow[k].jws
Probe(a) ==
    /\ admin[a].pc = "probe"
    /\ \/ ProbePasses(admin[a].new) /\ admin' = [admin EXCEPT ![a].pc = "commit"]
       \/ AdminEnds(a)
    /\ UNCHANGED <<keyRow, signing, signed, working>>

\* The write.  A rotation demotes the row it read only while it is ACTIVE and
\* creates the new one in the same transaction; the partial unique index
\* refuses a second ACTIVE row.  An error rolls everything back.
Rotated(cur, new) == [keyRow EXCEPT ![cur].st = "ROTATED", ![cur].since = 0, ![new].st = "ACTIVE"]
Created(new) == [keyRow EXCEPT ![new].st = "ACTIVE"]
DemotesById(a) ==  \* mutant
    LET cur == admin[a].cur
        new == admin[a].new
    IN
    /\ admin[a].pc = "commit"
    /\ IF cur = NoKey THEN Actives = {} /\ keyRow' = Created(new)
       ELSE keyRow' = IF Actives \ {cur} = {} THEN Rotated(cur, new)
                      ELSE [keyRow EXCEPT ![cur].st = "ROTATED", ![cur].since = 0]
    /\ working' = (working \/ Works(keyRow'))
    /\ AdminEnds(a)
    /\ UNCHANGED <<signing, signed>>
Commit(a) ==
    LET cur == admin[a].cur
        new == admin[a].new
    IN
    /\ admin[a].pc = "commit"
    /\ IF cur = NoKey THEN Actives = {} /\ keyRow' = Created(new)
       ELSE keyRow[cur].st = "ACTIVE" /\ keyRow' = Rotated(cur, new)
    /\ working' = (working \/ Works(keyRow'))
    /\ AdminEnds(a)
    /\ UNCHANGED <<signing, signed>>

\* The transaction fails, or the process stops anywhere: the material stays
\* behind without a row.
AdminStops(a) ==
    /\ admin[a].pc \in {"probe", "commit"}
    /\ AdminEnds(a)
    /\ UNCHANGED <<keyRow, signing, signed, working>>

-----------------------------------------------------------------------------
(* Signing, publication, time *)

\* getActiveKey / platformSigningKeyWhere.
SignRead(u, k) ==
    /\ signing[u].pc = "idle"
    /\ k \in Actives
    /\ signing' = [signing EXCEPT ![u].pc = "sign", ![u].k = k]
    /\ UNCHANGED <<keyRow, admin, signed, working>>

\* The signature over the artefact, by signJws, signRsaJws or
\* signCanonical, whatever became of the row meanwhile; a key
\* that cannot sign is an error to the caller.  An artefact is valid at its
\* last tick too: Life counts that one.
Life == [x \in Artefact |-> 1 + IF x = "id_token" THEN IdTokenTtl ELSE ApprovalTtl]
Sign(u, x) ==
    LET k == signing[u].k IN
    /\ signing[u].pc = "sign"
    /\ signed' = IF keyRow[k].jws THEN [signed EXCEPT ![k][x] = Life[x]] ELSE signed
    /\ signing' = [signing EXCEPT ![u] = IdleSigning]
    /\ UNCHANGED <<keyRow, admin, working>>

\* The shortest publication window assertJwksWindowAboveFloor accepts.
WindowWithoutSkew == IdTokenTtl  \* mutant
JwksWindow == IdTokenTtl + ClockSkew
platformJwksKeyWhere(k) ==
    keyRow[k].st = "ACTIVE" \/ (keyRow[k].st = "ROTATED" /\ keyRow[k].since <= JwksWindow)

\* verifyApprovalSignature and the proximity check accept these states.
StatusAccepted(k) == keyRow[k].st \in {"ACTIVE", "ROTATED"}

\* revokeExpiredRotatedKeys, some time after the grace window has passed.
RevokeExpired ==
    /\ \E k \in Key : keyRow[k].st = "ROTATED" /\ keyRow[k].since > RevokeGrace
    /\ keyRow' = [k \in Key |-> IF keyRow[k].st = "ROTATED" /\ keyRow[k].since > RevokeGrace
                                THEN [keyRow[k] EXCEPT !.st = "REVOKED"] ELSE keyRow[k]]
    /\ UNCHANGED <<admin, signing, signed, working>>

KeyTick ==
    /\ \A u \in KeyUser : ~signing[u].waited
    /\ \E k \in Key : keyRow[k].st \in {"ACTIVE", "ROTATED"}
    /\ keyRow' = [k \in Key |-> IF keyRow[k].st = "ROTATED" /\ keyRow[k].since <= RevokeGrace
                                THEN [keyRow[k] EXCEPT !.since = @ + 1] ELSE keyRow[k]]
    /\ signed' = [k \in Key |-> [x \in Artefact |->
                     IF signed[k][x] > 0 THEN signed[k][x] - 1 ELSE 0]]
    /\ signing' = [u \in KeyUser |-> [signing[u] EXCEPT !.waited = (signing[u].pc = "sign")]]
    /\ UNCHANGED <<admin, working>>

KeysNext ==
    \/ RevokeExpired \/ KeyTick
    \/ \E a \in KeyAdmin :
          \/ CreateRead(a) \/ MintFails(a) \/ Probe(a) \/ Commit(a) \/ AdminStops(a)
          \/ \E k \in Key : RotateRead(a, k) \/ (\E jws \in BOOLEAN : Mint(a, k, jws))
    \/ \E u \in KeyUser : (\E k \in Key : SignRead(u, k)) \/ (\E x \in Artefact : Sign(u, x))

KeysSpec == KeysInit /\ [][KeysNext]_keyVars

-----------------------------------------------------------------------------
(* Properties *)

\* An organization that can sign tokens and approvals stays able to: from the
\* first key with a usable ECDSA (or RSA) leg on there is always exactly one
\* ACTIVE key and the signer can sign a JWS with it, through racing
\* rotations, refused pushes, unusable envelopes, failed transactions and
\* stops at any point (rotateResolvedKey probes that leg before its one
\* conditional transaction).  It is no promise about batch roots, whose leg
\* the probe leaves out.
SigningNeverLost ==
    working => \E k \in Key : Actives = {k} /\ keyRow[k].jws

\* What was signed verifies for as long as it is valid: the key of an ID
\* token is in the published JWKS and the key of an approval has an accepted
\* status until it expires, although a rotation may demote the key between
\* the read and the signature of a request.
VerifiesWhileValid ==
    \A k \in Key :
        /\ signed[k]["id_token"] > 0 => platformJwksKeyWhere(k)
        /\ signed[k]["approval"] > 0 => StatusAccepted(k)

\* Demotion goes one way and its clock never restarts: of two rotations that
\* read the same active key, the late one neither stamps rotatedAt again nor
\* brings back a key that was revoked meanwhile, and a key is revoked only
\* after its whole grace window.
DemotionIsFinal ==
    [][\A k \in Key :
         /\ keyRow[k].st = "ROTATED" =>
              \/ keyRow'[k].st = "ROTATED" /\ keyRow'[k].since >= keyRow[k].since
              \/ keyRow'[k].st = "REVOKED" /\ keyRow[k].since > RevokeGrace
         /\ keyRow[k].st = "REVOKED" => keyRow'[k].st = "REVOKED"]_keyVars

-----------------------------------------------------------------------------
(* The inductive invariant.                                                *)

\* At most one row is ACTIVE, and once signing worked it can sign a JWS.
ActiveKey ==
    /\ \A j, k \in Key : keyRow[j].st = "ACTIVE" /\ keyRow[k].st = "ACTIVE" => j = k
    /\ working => Works(keyRow)

\* What a running creation or rotation is about to write: material of its
\* own, and for a rotation material that passed the probe.
AdminHolds ==
    /\ \A a \in KeyAdmin :
         /\ admin[a].pc = "idle" => admin[a] = IdleAdmin
         /\ admin[a].pc \in {"probe", "commit"} =>
              admin[a].new \in Key /\ keyRow[admin[a].new].st = "minted"
         /\ admin[a].pc = "commit" /\ admin[a].cur # NoKey => keyRow[admin[a].new].jws
    /\ \A a, b \in KeyAdmin :
         admin[a].pc \in {"probe", "commit"} /\ admin[b].pc \in {"probe", "commit"}
           /\ admin[a].new = admin[b].new => a = b

\* A request signs with a key that was demoted at most one tick ago.
SignsInTime ==
    \A u \in KeyUser :
        /\ signing[u].pc = "idle" => ~signing[u].waited
        /\ signing[u].pc = "sign" =>
             /\ signing[u].k \in Key
             /\ \/ keyRow[signing[u].k].st = "ACTIVE"
                \/ /\ keyRow[signing[u].k].st = "ROTATED"
                   /\ keyRow[signing[u].k].since <= IF signing[u].waited THEN 1 ELSE 0

\* The time since a key's demotion and the life left in what it signed add
\* up to no more than one artefact's life and the tick a request may take.
LifeRemains ==
    \A k \in Key, x \in Artefact :
        /\ signed[k][x] <= Life[x]
        /\ signed[k][x] > 0 =>
            \/ keyRow[k].st = "ACTIVE"
            \/ keyRow[k].st = "ROTATED" /\ keyRow[k].since + signed[k][x] <= 1 + Life[x]

KeysInv == KeysTypeOK /\ ActiveKey /\ AdminHolds /\ SignsInTime /\ LifeRemains

=============================================================================
