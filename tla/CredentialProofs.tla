-------------------------- MODULE CredentialProofs --------------------------
(***************************************************************************)
(* What authenticates artefacts, codes and dashboard users: signing keys,  *)
(* the ring of MAC keys, and refresh-token families.                       *)
(***************************************************************************)
EXTENDS SigningKeys, MacRing, RefreshToken, TLAPS

-----------------------------------------------------------------------------
(***************************************************************************)
(* An organization that can sign stays able to, and what it signed         *)
(* verifies while it is valid, for any number of keys, rotations and       *)
(* signing requests and any lifetimes the configuration accepts.           *)
(***************************************************************************)

\* The lifetimes are positive numbers of ticks, and the grace outlasts them.
LEMMA Lifetimes ==
    /\ MaxKeys \in Nat /\ IdTokenTtl \in Nat /\ ApprovalTtl \in Nat
    /\ ClockSkew \in Nat /\ ClockSkew >= 1 /\ RevokeGrace \in Nat /\ RevokeGrace >= 1
    /\ IdTokenTtl + ClockSkew <= RevokeGrace
    /\ ApprovalTtl + ClockSkew <= RevokeGrace
    /\ NoKey \notin Key
    /\ Key \subseteq Nat
    BY KeysAssumption DEF Key

\* A life is a number of ticks that the grace outlasts.
LEMMA Lives ==
    ASSUME NEW x \in Artefact
    PROVE  Life[x] \in 1..(1 + IdTokenTtl + ApprovalTtl) /\ Life[x] <= RevokeGrace
<1>1. CASE x = "id_token"
    BY <1>1, Lifetimes DEF Life, Artefact
<1>2. CASE x = "approval"
    BY <1>2, Lifetimes DEF Life, Artefact
<1> QED BY <1>1, <1>2 DEF Artefact

\* The time since a demotion is a number of ticks.
LEMMA SinceNat ==
    ASSUME KeysTypeOK, NEW k \in Key
    PROVE  keyRow[k] \in KeyRow /\ keyRow[k].since \in Nat
<1>1. keyRow[k] \in KeyRow
    BY DEF KeysTypeOK
<1> QED BY <1>1, Lifetimes DEF KeyRow

\* One creation or rotation goes on, the others stand still.
LEMMA OneAdmin ==
    ASSUME KeysTypeOK, NEW a \in KeyAdmin, NEW r \in AdminCall,
           admin' = [admin EXCEPT ![a] = r]
    PROVE  /\ admin' \in [KeyAdmin -> AdminCall]
           /\ admin'[a] = r
           /\ \A b \in KeyAdmin : b # a => admin'[b] = admin[b]
    BY DEF KeysTypeOK

\* A creation or rotation that ends stands idle.
LEMMA IdleIsCall == IdleAdmin \in AdminCall
    BY DEF IdleAdmin, AdminCall

\* The rows stay, and one creation or rotation goes on without claiming
\* anything it did not have.
LEMMA AdminMoves ==
    ASSUME KeysInv, NEW a \in KeyAdmin, NEW r \in AdminCall,
           admin' = [admin EXCEPT ![a] = r],
           \/ r = IdleAdmin
           \/ r.pc = "mint"
           \/ r.pc = "commit" /\ admin[a].pc = "probe" /\ r.new = admin[a].new
                /\ keyRow[r.new].jws,
           UNCHANGED <<keyRow, signing, signed, working>>
    PROVE  KeysInv'
<1> USE DEF KeysInv
<1>1. /\ admin' \in [KeyAdmin -> AdminCall]
      /\ admin'[a] = r
      /\ \A b \in KeyAdmin : b # a => admin'[b] = admin[b]
    BY OneAdmin
<1>2. KeysTypeOK'
    BY <1>1 DEF KeysTypeOK
<1>3. ActiveKey' /\ SignsInTime' /\ LifeRemains'
    BY DEF ActiveKey, Works, SignsInTime, LifeRemains
<1>4. AdminHolds'
    <2>1. CASE r.pc \notin {"probe", "commit"}
        BY <1>1, <2>1 DEF AdminHolds, IdleAdmin
    <2>2. CASE r.pc = "commit" /\ admin[a].pc = "probe" /\ r.new = admin[a].new
                 /\ keyRow[r.new].jws
        <3>1. r.new \in Key /\ keyRow[r.new].st = "minted"
            BY <2>2 DEF AdminHolds
        <3> QED BY <1>1, <2>2, <3>1 DEF AdminHolds
    <2> QED BY <2>1, <2>2 DEF IdleAdmin
<1> QED BY <1>2, <1>3, <1>4

\* Every step of a creation or rotation that writes nothing is such a move.
LEMMA QuietAdminStep ==
    ASSUME KeysInv, NEW a \in KeyAdmin,
           CreateRead(a) \/ MintFails(a) \/ Probe(a) \/ AdminStops(a)
             \/ (\E k \in Key : RotateRead(a, k))
    PROVE  KeysInv'
<1>0. admin[a] \in AdminCall
    BY DEF KeysInv, KeysTypeOK
<1>1. CASE MintFails(a) \/ AdminStops(a)
    BY <1>1, IdleIsCall, AdminMoves DEF MintFails, AdminStops, AdminEnds
<1>2. CASE CreateRead(a)
    <2>1. PICK r : r = [admin[a] EXCEPT !.pc = "mint"]
        OBVIOUS
    <2>2. r \in AdminCall /\ r.pc = "mint"
        BY <1>0, <2>1 DEF AdminCall
    <2>3. admin' = [admin EXCEPT ![a] = r]
        BY <1>2, <2>1 DEF CreateRead
    <2> QED BY <1>2, <2>2, <2>3, AdminMoves DEF CreateRead
<1>3. ASSUME NEW k \in Key, RotateRead(a, k) PROVE KeysInv'
    <2>1. PICK r : r = [admin[a] EXCEPT !.pc = "mint", !.cur = k]
        OBVIOUS
    <2>2. r \in AdminCall /\ r.pc = "mint"
        BY <1>0, <2>1 DEF AdminCall
    <2>3. admin' = [admin EXCEPT ![a] = r]
        BY <1>3, <2>1 DEF RotateRead
    <2> QED BY <1>3, <2>2, <2>3, AdminMoves DEF RotateRead
<1>4. CASE Probe(a)
    <2>0. UNCHANGED <<keyRow, signing, signed, working>>
        BY <1>4 DEF Probe
    <2>1. CASE AdminEnds(a)
        BY <2>0, <2>1, IdleIsCall, AdminMoves DEF AdminEnds
    <2>2. CASE ProbePasses(admin[a].new) /\ admin' = [admin EXCEPT ![a].pc = "commit"]
        <3>1. PICK r : r = [admin[a] EXCEPT !.pc = "commit"]
            OBVIOUS
        <3>2. r \in AdminCall /\ r.pc = "commit" /\ r.new = admin[a].new
            BY <1>0, <3>1 DEF AdminCall
        <3>3. admin' = [admin EXCEPT ![a] = r]
            BY <2>2, <3>1
        <3>4. admin[a].pc = "probe" /\ keyRow[r.new].jws
            BY <1>4, <2>2, <3>2 DEF Probe, ProbePasses
        <3> QED BY <2>0, <3>2, <3>3, <3>4, AdminMoves
    <2> QED BY <1>4, <2>1, <2>2 DEF Probe
<1> QED BY <1>1, <1>2, <1>3, <1>4

\* Minting takes a key nobody had and leaves every row that counts alone.
LEMMA MintStep ==
    ASSUME KeysInv, NEW a \in KeyAdmin, NEW k \in Key, NEW jws \in BOOLEAN, Mint(a, k, jws)
    PROVE  KeysInv'
<1> USE DEF KeysInv
<1>0. admin[a] \in AdminCall /\ keyRow[k] \in KeyRow
    BY DEF KeysTypeOK
<1>1. keyRow[k].st = "none" /\ admin[a].pc = "mint"
    BY DEF Mint, NextKey
<1>2. PICK m : m = [keyRow[k] EXCEPT !.st = "minted", !.jws = jws]
    OBVIOUS
<1>3. m \in KeyRow /\ m.st = "minted"
    BY <1>0, <1>2 DEF KeyRow
<1>4. keyRow' = [keyRow EXCEPT ![k] = m]
    BY <1>2 DEF Mint
<1>5. /\ \A j \in Key : j # k => keyRow'[j] = keyRow[j]
      /\ keyRow'[k] = m
      /\ keyRow' \in [Key -> KeyRow]
    BY <1>3, <1>4 DEF KeysTypeOK
<1>6. PICK r : r = [admin[a] EXCEPT
                      !.pc = IF admin[a].cur = NoKey THEN "commit" ELSE "probe", !.new = k]
    OBVIOUS
<1>7. /\ r \in AdminCall /\ r.new = k
      /\ r.pc \in {"probe", "commit"} /\ (r.pc = "commit" => r.cur = NoKey)
    BY <1>0, <1>6 DEF AdminCall
<1>8. admin' = [admin EXCEPT ![a] = r]
    BY <1>6 DEF Mint
<1>9. /\ admin' \in [KeyAdmin -> AdminCall]
      /\ admin'[a] = r
      /\ \A b \in KeyAdmin : b # a => admin'[b] = admin[b]
    BY <1>7, <1>8, OneAdmin
<1>10. UNCHANGED <<signing, signed, working>>
    BY DEF Mint
<1>11. KeysTypeOK'
    BY <1>5, <1>9, <1>10 DEF KeysTypeOK
<1>12. ActiveKey'
    BY <1>1, <1>3, <1>5, <1>10 DEF ActiveKey, Works
<1>13. AdminHolds'
    <2>1. \A b \in KeyAdmin : b # a /\ admin[b].pc \in {"probe", "commit"} => admin[b].new # k
        BY <1>1 DEF AdminHolds
    <2> QED BY <1>3, <1>5, <1>7, <1>9, <2>1 DEF AdminHolds, IdleAdmin
<1>14. SignsInTime'
    BY <1>1, <1>5, <1>10 DEF SignsInTime
<1>15. LifeRemains'
    BY <1>1, <1>5, <1>10 DEF LifeRemains
<1> QED BY <1>11, <1>12, <1>13, <1>14, <1>15

\* The transaction replaces the active row by a probed one, or creates the
\* first; the row it demotes starts its grace at zero.
LEMMA CommitStep ==
    ASSUME KeysInv, NEW a \in KeyAdmin, Commit(a)
    PROVE  KeysInv'
<1> USE DEF KeysInv
<1>0. PICK cur, new : cur = admin[a].cur /\ new = admin[a].new
    OBVIOUS
<1>1. /\ admin[a].pc = "commit" /\ new \in Key /\ keyRow[new].st = "minted"
      /\ cur # NoKey => keyRow[new].jws
    BY <1>0 DEF Commit, AdminHolds
<1>2. cur \in Key \cup {NoKey}
    BY <1>0 DEF KeysTypeOK, AdminCall
<1>3. /\ cur = NoKey => Actives = {} /\ keyRow' = Created(new)
      /\ cur # NoKey => /\ cur \in Key /\ keyRow[cur].st = "ACTIVE" /\ cur # new
                        /\ keyRow' = Rotated(cur, new)
    BY <1>0, <1>1, <1>2 DEF Commit
<1>4. keyRow \in [Key -> KeyRow] /\ keyRow[new] \in KeyRow
    BY <1>1 DEF KeysTypeOK
<1>5. PICK n : n = [keyRow[new] EXCEPT !.st = "ACTIVE"]
    OBVIOUS
<1>6. n \in KeyRow /\ n.st = "ACTIVE" /\ n.jws = keyRow[new].jws
    BY <1>4, <1>5 DEF KeyRow
<1>7. /\ keyRow' \in [Key -> KeyRow]
      /\ keyRow'[new] = n
      /\ cur # NoKey => keyRow'[cur].st = "ROTATED" /\ keyRow'[cur].since = 0
      /\ \A k \in Key : k # new /\ k # cur => keyRow'[k] = keyRow[k]
    <2>1. CASE cur = NoKey
        <3>1. keyRow' = [keyRow EXCEPT ![new] = n]
            BY <2>1, <1>3, <1>5 DEF Created
        <3> QED BY <2>1, <3>1, <1>1, <1>4, <1>6
    <2>2. CASE cur # NoKey
        <3>1. PICK o : o = [keyRow[cur] EXCEPT !.st = "ROTATED", !.since = 0]
            OBVIOUS
        <3>a. keyRow[cur] \in KeyRow
            BY <2>2, <1>3, <1>4
        <3>2. keyRow[cur] \in KeyRow /\ 0 \in 0..(RevokeGrace + 1)
            BY <3>a, Lifetimes
        <3>3. o \in KeyRow /\ o.st = "ROTATED" /\ o.since = 0
            BY <3>1, <3>2 DEF KeyRow
        <3>4. keyRow' = [keyRow EXCEPT ![cur] = o, ![new] = n]
            BY <2>2, <3>1, <1>1, <1>3, <1>4, <1>5 DEF Rotated
        <3> QED BY <2>2, <3>3, <3>4, <1>1, <1>3, <1>4, <1>6
    <2> QED BY <2>1, <2>2
<1>8. /\ admin' \in [KeyAdmin -> AdminCall]
      /\ admin'[a] = IdleAdmin
      /\ \A b \in KeyAdmin : b # a => admin'[b] = admin[b]
    BY IdleIsCall, OneAdmin DEF Commit, AdminEnds
<1>9. UNCHANGED <<signing, signed>> /\ working' = (working \/ Works(keyRow'))
    BY DEF Commit
<1>10. \A k \in Key : k # new => keyRow'[k].st # "ACTIVE"
    <2> SUFFICES ASSUME NEW k \in Key, k # new PROVE keyRow'[k].st # "ACTIVE"
        OBVIOUS
    <2>1. CASE k = cur
        BY <2>1, <1>7, Lifetimes
    <2>2. CASE k # cur
        <3>1. keyRow[k].st # "ACTIVE"
            BY <2>2, <1>2, <1>3 DEF ActiveKey, Actives
        <3> QED BY <2>2, <3>1, <1>7
    <2> QED BY <2>1, <2>2
<1>11. KeysTypeOK'
    <2>1. working' \in BOOLEAN
        BY <1>9 DEF KeysTypeOK, Works
    <2> QED BY <2>1, <1>7, <1>8, <1>9 DEF KeysTypeOK
<1>12. ActiveKey'
    <2>1. working => cur # NoKey
        BY <1>3 DEF ActiveKey, Works, Actives
    <2>2. working => Works(keyRow')
        BY <1>1, <1>6, <1>7, <2>1 DEF Works
    <2>3. working' => Works(keyRow')
        BY <1>9, <2>2
    <2> QED BY <1>10, <2>3 DEF ActiveKey, Works
<1>13. AdminHolds'
    <2>1. \A b \in KeyAdmin : b # a /\ admin[b].pc \in {"probe", "commit"} =>
             admin[b].new # new /\ admin[b].new # cur
        BY <1>0, <1>1, <1>3, Lifetimes DEF AdminHolds
    <2> QED BY <1>7, <1>8, <2>1 DEF AdminHolds, IdleAdmin
<1>14. \A k \in Key : keyRow[k].st \in {"ACTIVE", "ROTATED"} =>
          \/ keyRow'[k] = keyRow[k]
          \/ keyRow[k].st = "ACTIVE" /\ keyRow'[k].st = "ROTATED" /\ keyRow'[k].since = 0
    BY <1>1, <1>3, <1>7, Lifetimes
<1>15. SignsInTime'
    BY <1>9, <1>14 DEF SignsInTime
<1>16. LifeRemains'
    <2> SUFFICES ASSUME NEW k \in Key, NEW x \in Artefact
                 PROVE  /\ signed[k][x] <= Life[x]
                        /\ signed[k][x] > 0 =>
                             \/ keyRow'[k].st = "ACTIVE"
                             \/ /\ keyRow'[k].st = "ROTATED"
                                /\ keyRow'[k].since + signed[k][x] <= 1 + Life[x]
        BY <1>9 DEF LifeRemains, Life
    <2>1. signed[k][x] <= Life[x] /\ signed[k][x] \in Nat /\ Life[x] \in Nat
        BY Lives, Lifetimes DEF LifeRemains, KeysTypeOK
    <2>2. CASE keyRow'[k] = keyRow[k]
        BY <2>1, <2>2 DEF LifeRemains
    <2>3. CASE keyRow'[k].st = "ROTATED" /\ keyRow'[k].since = 0
        BY <2>1, <2>3
    <2> QED BY <2>1, <2>2, <2>3, <1>14 DEF LifeRemains
<1> QED BY <1>11, <1>12, <1>13, <1>15, <1>16

\* A request reads the active key, or signs with the one it read: it is
\* active still or was demoted a tick ago at most.
LEMMA SignStep ==
    ASSUME KeysInv, NEW u \in KeyUser,
           (\E k \in Key : SignRead(u, k)) \/ (\E x \in Artefact : Sign(u, x))
    PROVE  KeysInv'
<1> USE DEF KeysInv
<1>0. signing \in [KeyUser -> SignCall] /\ signing[u] \in SignCall
    BY DEF KeysTypeOK
<1>1. UNCHANGED <<keyRow, admin, working>>
    BY DEF SignRead, Sign
<1>2. ActiveKey' /\ AdminHolds'
    BY <1>1 DEF ActiveKey, Works, AdminHolds
<1>3. ASSUME NEW k \in Key, SignRead(u, k)
      PROVE  KeysTypeOK' /\ SignsInTime' /\ LifeRemains'
    <2>1. PICK r : r = [signing[u] EXCEPT !.pc = "sign", !.k = k]
        OBVIOUS
    <2>2. r \in SignCall /\ r.pc = "sign" /\ r.k = k /\ r.waited = signing[u].waited
        BY <1>0, <2>1 DEF SignCall
    <2>3. signing' = [signing EXCEPT ![u] = r] /\ signed' = signed
        BY <1>3, <2>1 DEF SignRead
    <2>4. keyRow[k].st = "ACTIVE"
        BY <1>3 DEF SignRead, Actives
    <2>5. KeysTypeOK'
        BY <1>0, <1>1, <2>2, <2>3 DEF KeysTypeOK
    <2>6. SignsInTime'
        BY <1>0, <1>1, <2>2, <2>3, <2>4 DEF SignsInTime
    <2>7. LifeRemains'
        BY <1>1, <2>3 DEF LifeRemains, Life
    <2> QED BY <2>5, <2>6, <2>7
<1>4. ASSUME NEW x \in Artefact, Sign(u, x)
      PROVE  KeysTypeOK' /\ SignsInTime' /\ LifeRemains'
    <2>0. PICK k : k = signing[u].k
        OBVIOUS
    <2>1. IdleSigning \in SignCall /\ IdleSigning.pc = "idle" /\ ~IdleSigning.waited
        BY DEF IdleSigning, SignCall
    <2>2. signing' = [signing EXCEPT ![u] = IdleSigning]
        BY <1>4 DEF Sign
    <2>3. /\ k \in Key
          /\ \/ keyRow[k].st = "ACTIVE"
             \/ keyRow[k].st = "ROTATED" /\ keyRow[k].since <= 1
        <3>1. /\ k \in Key
              /\ \/ keyRow[k].st = "ACTIVE"
                 \/ /\ keyRow[k].st = "ROTATED"
                    /\ keyRow[k].since <= IF signing[u].waited THEN 1 ELSE 0
            BY <1>4, <2>0 DEF Sign, SignsInTime
        <3>2. keyRow[k].since \in Nat
            BY <3>1, Lifetimes DEF KeysTypeOK, KeyRow
        <3> QED BY <3>1, <3>2
    <2>4. /\ \A j \in Key, y \in Artefact : j # k \/ y # x => signed'[j][y] = signed[j][y]
          /\ signed'[k][x] = Life[x] \/ signed'[k][x] = signed[k][x]
          /\ signed' \in [Key -> [Artefact -> 0..(1 + IdTokenTtl + ApprovalTtl)]]
        <3>1. signed \in [Key -> [Artefact -> 0..(1 + IdTokenTtl + ApprovalTtl)]]
            BY DEF KeysTypeOK
        <3>2. CASE signed' = signed
            BY <3>1, <3>2
        <3>3. CASE signed' = [signed EXCEPT ![k][x] = Life[x]]
            <4>1. Life[x] \in 0..(1 + IdTokenTtl + ApprovalTtl)
                BY Lives, Lifetimes
            <4> HIDE DEF Life
            <4> QED BY <3>1, <3>3, <4>1, <2>3
        <3> QED BY <1>4, <2>0, <3>2, <3>3 DEF Sign
    <2>5. KeysTypeOK'
        BY <1>0, <1>1, <2>1, <2>2, <2>4 DEF KeysTypeOK
    <2>6. SignsInTime'
        BY <1>0, <1>1, <2>1, <2>2 DEF SignsInTime
    <2>7. LifeRemains'
        <3> SUFFICES ASSUME NEW j \in Key, NEW y \in Artefact
                     PROVE  /\ signed'[j][y] <= Life[y]
                            /\ signed'[j][y] > 0 =>
                                 \/ keyRow[j].st = "ACTIVE"
                                 \/ /\ keyRow[j].st = "ROTATED"
                                    /\ keyRow[j].since + signed'[j][y] <= 1 + Life[y]
            BY <1>1 DEF LifeRemains, Life
        <3>1. CASE signed'[j][y] = signed[j][y]
            BY <3>1 DEF LifeRemains
        <3>2. CASE j = k /\ y = x /\ signed'[j][y] = Life[y]
            <4>1. Life[y] \in Nat /\ keyRow[j].since \in Nat
                BY Lives, Lifetimes DEF KeysTypeOK, KeyRow
            <4> QED BY <2>3, <3>2, <4>1
        <3> QED BY <2>4, <3>1, <3>2
    <2> QED BY <2>5, <2>6, <2>7
<1> QED BY <1>2, <1>3, <1>4

\* A key is revoked after its grace, when nothing it signed lives any more.
LEMMA RevokeStep ==
    ASSUME KeysInv, RevokeExpired
    PROVE  KeysInv'
<1> USE DEF KeysInv
<1>1. UNCHANGED <<admin, signing, signed, working>>
    BY DEF RevokeExpired
<1>2. /\ keyRow' \in [Key -> KeyRow]
      /\ \A k \in Key :
           \/ keyRow'[k] = keyRow[k]
           \/ /\ keyRow[k].st = "ROTATED" /\ keyRow[k].since > RevokeGrace
              /\ keyRow'[k].st = "REVOKED"
    <2>1. ASSUME NEW k \in Key
          PROVE  [keyRow[k] EXCEPT !.st = "REVOKED"] \in KeyRow
        BY DEF KeysTypeOK, KeyRow
    <2>2. \A k \in Key : keyRow[k] \in KeyRow
        BY DEF KeysTypeOK
    <2>3. ASSUME NEW k \in Key
          PROVE  [keyRow[k] EXCEPT !.st = "REVOKED"].st = "REVOKED"
        BY DEF KeysTypeOK, KeyRow
    <2> QED BY <2>1, <2>2, <2>3 DEF RevokeExpired
<1>3. KeysTypeOK'
    BY <1>1, <1>2 DEF KeysTypeOK
<1>4. ActiveKey'
    BY <1>1, <1>2 DEF ActiveKey, Works
<1>5. AdminHolds'
    BY <1>1, <1>2 DEF AdminHolds
<1>6. SignsInTime'
    <2> SUFFICES ASSUME NEW u \in KeyUser, signing[u].pc = "sign"
                 PROVE  keyRow'[signing[u].k] = keyRow[signing[u].k]
        BY <1>1 DEF SignsInTime
    <2>1. signing[u].k \in Key
        BY DEF SignsInTime
    <2>2. keyRow[signing[u].k].since \in Nat
        BY <2>1, SinceNat
    <2>3. ~(keyRow[signing[u].k].st = "ROTATED" /\ keyRow[signing[u].k].since > RevokeGrace)
        BY <2>1, <2>2, Lifetimes DEF SignsInTime
    <2> QED BY <1>2, <2>1, <2>3
<1>7. LifeRemains'
    <2> SUFFICES ASSUME NEW k \in Key, NEW x \in Artefact, signed[k][x] > 0
                 PROVE  keyRow'[k] = keyRow[k]
        BY <1>1 DEF LifeRemains, Life
    <2>1. keyRow[k].since \in Nat /\ signed[k][x] \in Nat /\ Life[x] \in Nat /\ Life[x] <= RevokeGrace
        BY Lives, Lifetimes DEF KeysTypeOK, KeyRow
    <2>2. keyRow[k].st = "ROTATED" => keyRow[k].since + signed[k][x] <= 1 + Life[x]
        BY DEF LifeRemains
    <2>3. ~(keyRow[k].st = "ROTATED" /\ keyRow[k].since > RevokeGrace)
        BY <2>1, <2>2, Lifetimes
    <2> QED BY <1>2, <2>3
<1> QED BY <1>3, <1>4, <1>5, <1>6, <1>7

\* A tick ages what was demoted and what was signed by the same amount, and
\* no request that signs sees two of them.
LEMMA TickStep ==
    ASSUME KeysInv, KeyTick
    PROVE  KeysInv'
<1> USE DEF KeysInv
<1>1. UNCHANGED <<admin, working>>
    BY DEF KeyTick
<1>2. /\ keyRow' \in [Key -> KeyRow]
      /\ \A k \in Key :
           /\ keyRow'[k].st = keyRow[k].st
           /\ keyRow'[k].jws = keyRow[k].jws
           /\ keyRow'[k].since = keyRow[k].since
                \/ (keyRow'[k].since = keyRow[k].since + 1 /\ keyRow[k].st = "ROTATED"
                      /\ keyRow[k].since <= RevokeGrace)
    <2>1. ASSUME NEW k \in Key, keyRow[k].since <= RevokeGrace
          PROVE  /\ [keyRow[k] EXCEPT !.since = @ + 1] \in KeyRow
                 /\ [keyRow[k] EXCEPT !.since = @ + 1].st = keyRow[k].st
                 /\ [keyRow[k] EXCEPT !.since = @ + 1].jws = keyRow[k].jws
                 /\ [keyRow[k] EXCEPT !.since = @ + 1].since = keyRow[k].since + 1
        <3>1. keyRow[k] \in KeyRow /\ keyRow[k].since \in Nat
            BY SinceNat
        <3>2. keyRow[k].since + 1 \in 0..(RevokeGrace + 1)
            BY <2>1, <3>1, Lifetimes
        <3> QED BY <3>1, <3>2 DEF KeyRow
    <2>2. \A k \in Key : keyRow[k] \in KeyRow
        BY SinceNat
    <2>3. \A k \in Key : keyRow'[k] = IF keyRow[k].st = "ROTATED" /\ keyRow[k].since <= RevokeGrace
                                      THEN [keyRow[k] EXCEPT !.since = @ + 1] ELSE keyRow[k]
        BY DEF KeyTick
    <2>4. keyRow' \in [Key -> KeyRow]
        <3>1. \A k \in Key : keyRow'[k] \in KeyRow
            BY <2>1, <2>2, <2>3
        <3>2. keyRow' = [k \in Key |-> keyRow'[k]]
            BY DEF KeyTick
        <3> QED BY <3>1, <3>2
    <2> QED BY <2>1, <2>3, <2>4
<1>3. /\ signing' \in [KeyUser -> SignCall]
      /\ \A u \in KeyUser : /\ ~signing[u].waited
                            /\ signing'[u].pc = signing[u].pc
                            /\ signing'[u].k = signing[u].k
                            /\ signing'[u].waited = (signing[u].pc = "sign")
    <2>1. ASSUME NEW u \in KeyUser
          PROVE  LET r == [signing[u] EXCEPT !.waited = (signing[u].pc = "sign")]
                 IN  /\ r \in SignCall /\ r.pc = signing[u].pc /\ r.k = signing[u].k
                     /\ r.waited = (signing[u].pc = "sign")
        <3>1. signing[u] \in SignCall
            BY DEF KeysTypeOK
        <3>2. PICK w \in BOOLEAN : w = (signing[u].pc = "sign")
            OBVIOUS
        <3>3. [signing[u] EXCEPT !.waited = w] \in SignCall
            BY <3>1 DEF SignCall
        <3>4. /\ [signing[u] EXCEPT !.waited = w].pc = signing[u].pc
              /\ [signing[u] EXCEPT !.waited = w].k = signing[u].k
              /\ [signing[u] EXCEPT !.waited = w].waited = w
            BY <3>1 DEF SignCall
        <3> QED BY <3>2, <3>3, <3>4, Zenon
    <2>2. signing' = [u \in KeyUser |-> [signing[u] EXCEPT !.waited = (signing[u].pc = "sign")]]
        BY DEF KeyTick
    <2>3. \A u \in KeyUser : ~signing[u].waited
        BY DEF KeyTick
    <2> QED BY <2>1, <2>2, <2>3, Zenon
<1>4. /\ signed' \in [Key -> [Artefact -> 0..(1 + IdTokenTtl + ApprovalTtl)]]
      /\ \A k \in Key, x \in Artefact :
           /\ signed[k][x] \in Nat
           /\ signed'[k][x] = IF signed[k][x] > 0 THEN signed[k][x] - 1 ELSE 0
    <2>1. \A k \in Key, x \in Artefact : signed[k][x] \in 0..(1 + IdTokenTtl + ApprovalTtl)
        BY DEF KeysTypeOK
    <2>2. \A k \in Key, x \in Artefact :
             (IF signed[k][x] > 0 THEN signed[k][x] - 1 ELSE 0)
                \in 0..(1 + IdTokenTtl + ApprovalTtl)
        BY <2>1, Lifetimes
    <2>3. signed' = [k \in Key |-> [x \in Artefact |->
                       IF signed[k][x] > 0 THEN signed[k][x] - 1 ELSE 0]]
        BY DEF KeyTick
    <2> QED BY <2>1, <2>2, <2>3, Lifetimes
<1>5. KeysTypeOK'
    BY <1>1, <1>2, <1>3, <1>4 DEF KeysTypeOK
<1>6. ActiveKey'
    BY <1>1, <1>2 DEF ActiveKey, Works
<1>7. AdminHolds'
    BY <1>1, <1>2 DEF AdminHolds
<1>8. SignsInTime'
    <2> SUFFICES ASSUME NEW u \in KeyUser
                 PROVE  /\ signing'[u].pc = "idle" => ~signing'[u].waited
                        /\ signing'[u].pc = "sign" =>
                             /\ signing'[u].k \in Key
                             /\ \/ keyRow'[signing'[u].k].st = "ACTIVE"
                                \/ /\ keyRow'[signing'[u].k].st = "ROTATED"
                                   /\ keyRow'[signing'[u].k].since <= 1
                             /\ signing'[u].waited
        BY DEF SignsInTime
    <2>1. signing[u].pc = "idle" => ~signing'[u].waited
        BY <1>3
    <2>2. ASSUME signing[u].pc = "sign"
          PROVE  /\ signing[u].k \in Key
                 /\ \/ keyRow'[signing[u].k].st = "ACTIVE"
                    \/ /\ keyRow'[signing[u].k].st = "ROTATED"
                       /\ keyRow'[signing[u].k].since <= 1
        <3>1. /\ signing[u].k \in Key
              /\ \/ keyRow[signing[u].k].st = "ACTIVE"
                 \/ keyRow[signing[u].k].st = "ROTATED" /\ keyRow[signing[u].k].since <= 0
            BY <1>3, <2>2 DEF SignsInTime
        <3>2. keyRow[signing[u].k].since \in Nat
            BY <3>1, SinceNat
        <3> QED BY <1>2, <3>1, <3>2
    <2> QED BY <1>3, <2>1, <2>2
<1>9. LifeRemains'
    <2> SUFFICES ASSUME NEW k \in Key, NEW x \in Artefact
                 PROVE  /\ signed'[k][x] <= Life[x]
                        /\ signed'[k][x] > 0 =>
                             \/ keyRow'[k].st = "ACTIVE"
                             \/ /\ keyRow'[k].st = "ROTATED"
                                /\ keyRow'[k].since + signed'[k][x] <= 1 + Life[x]
        BY DEF LifeRemains, Life
    <2>1. keyRow[k].since \in Nat /\ Life[x] \in Nat /\ signed[k][x] \in Nat
        BY <1>4, SinceNat, Lives, Lifetimes
    <2>2. /\ signed[k][x] <= Life[x]
          /\ signed[k][x] > 0 =>
               \/ keyRow[k].st = "ACTIVE"
               \/ keyRow[k].st = "ROTATED" /\ keyRow[k].since + signed[k][x] <= 1 + Life[x]
        BY DEF LifeRemains
    <2>3. signed'[k][x] = IF signed[k][x] > 0 THEN signed[k][x] - 1 ELSE 0
        BY <1>4
    <2>4. keyRow'[k].st = keyRow[k].st
          /\ (keyRow'[k].since = keyRow[k].since
                \/ (keyRow'[k].since = keyRow[k].since + 1 /\ keyRow[k].st = "ROTATED"))
        BY <1>2
    <2> HIDE DEF KeysInv
    <2> QED BY <2>1, <2>2, <2>3, <2>4
<1> QED BY <1>5, <1>6, <1>7, <1>8, <1>9

-----------------------------------------------------------------------------

\* The invariant is inductive.
LEMMA KeysStep == KeysInv /\ [KeysNext]_keyVars => KeysInv'
<1> SUFFICES ASSUME KeysInv, [KeysNext]_keyVars PROVE KeysInv'
    OBVIOUS
<1>1. CASE RevokeExpired
    BY <1>1, RevokeStep
<1>2. CASE KeyTick
    BY <1>2, TickStep
<1>3. ASSUME NEW a \in KeyAdmin,
             CreateRead(a) \/ MintFails(a) \/ Probe(a) \/ AdminStops(a)
               \/ (\E k \in Key : RotateRead(a, k))
      PROVE  KeysInv'
    BY <1>3, QuietAdminStep
<1>4. ASSUME NEW a \in KeyAdmin, Commit(a) PROVE KeysInv'
    BY <1>4, CommitStep
<1>5. ASSUME NEW a \in KeyAdmin, NEW k \in Key, NEW jws \in BOOLEAN, Mint(a, k, jws)
      PROVE  KeysInv'
    BY <1>5, MintStep
<1>6. ASSUME NEW u \in KeyUser,
             (\E k \in Key : SignRead(u, k)) \/ (\E x \in Artefact : Sign(u, x))
      PROVE  KeysInv'
    BY <1>6, SignStep
<1>7. CASE UNCHANGED keyVars
    BY <1>7 DEF keyVars, KeysInv, KeysTypeOK, ActiveKey, Works, AdminHolds, SignsInTime,
                LifeRemains, Life
<1> QED BY <1>1, <1>2, <1>3, <1>4, <1>5, <1>6, <1>7 DEF KeysNext

\* It holds before the first key.
LEMMA KeysStart == KeysInit => KeysInv
<1> SUFFICES ASSUME KeysInit PROVE KeysInv
    OBVIOUS
<1>1. KeysTypeOK
    <2>1. [st |-> "none", jws |-> FALSE, since |-> 0] \in KeyRow
        BY Lifetimes DEF KeyRow
    <2>2. IdleAdmin \in AdminCall /\ IdleSigning \in SignCall
        BY DEF IdleAdmin, AdminCall, IdleSigning, SignCall
    <2>3. 0 \in 0..(1 + IdTokenTtl + ApprovalTtl)
        BY Lifetimes
    <2> QED BY <2>1, <2>2, <2>3 DEF KeysInit, KeysTypeOK
<1>2. ActiveKey
    BY DEF KeysInit, ActiveKey
<1>3. AdminHolds
    BY DEF KeysInit, AdminHolds, IdleAdmin
<1>4. SignsInTime
    BY DEF KeysInit, SignsInTime, IdleSigning
<1>5. LifeRemains
    <2>1. \A x \in Artefact : 0 <= Life[x]
        BY Lives, Lifetimes
    <2> QED BY <2>1 DEF KeysInit, LifeRemains
<1> QED BY <1>1, <1>2, <1>3, <1>4, <1>5 DEF KeysInv

\* The rows, the running requests and what was signed keep their types, and
\* the invariant holds in every state of every behaviour.
LEMMA KeysAlways == KeysSpec => []KeysInv
    BY KeysStart, KeysStep, PTL DEF KeysSpec

\* From the first usable key on there is always exactly one ACTIVE key and the
\* signer can sign with it (rotateResolvedKey's probe and its conditional
\* transaction, createKeyPair against the partial unique index).
THEOREM SigningSafety == KeysSpec => []SigningNeverLost
<1>1. KeysInv => SigningNeverLost
    <2> SUFFICES ASSUME KeysInv, working
                 PROVE  \E k \in Key : Actives = {k} /\ keyRow[k].jws
        BY DEF SigningNeverLost
    <2>1. PICK k \in Key : keyRow[k].st = "ACTIVE" /\ keyRow[k].jws
        BY DEF KeysInv, ActiveKey, Works
    <2>2. Actives = {k}
        BY <2>1 DEF KeysInv, ActiveKey, Actives
    <2> QED BY <2>1, <2>2
<1> QED BY <1>1, KeysAlways, PTL

\* What a step does to one row: a demoted key stays demoted with a clock that
\* runs on until the revocation after the grace window, a revoked one stays
\* revoked.
LEMMA RowDemotion ==
    ASSUME KeysInv, [KeysNext]_keyVars, NEW k \in Key
    PROVE  /\ keyRow[k].st = "ROTATED" =>
                \/ keyRow'[k].st = "ROTATED" /\ keyRow'[k].since >= keyRow[k].since
                \/ keyRow'[k].st = "REVOKED" /\ keyRow[k].since > RevokeGrace
           /\ keyRow[k].st = "REVOKED" => keyRow'[k].st = "REVOKED"
<1>1. keyRow \in [Key -> KeyRow] /\ keyRow[k] \in KeyRow /\ keyRow[k].since \in Nat
    BY SinceNat DEF KeysInv, KeysTypeOK
<1>2. CASE keyRow'[k] = keyRow[k]
    BY <1>1, <1>2
<1>3. ASSUME NEW a \in KeyAdmin, NEW i \in Key, NEW jws \in BOOLEAN, Mint(a, i, jws),
             keyRow[k].st \in {"ROTATED", "REVOKED"}
      PROVE  keyRow'[k] = keyRow[k]
    BY <1>1, <1>3 DEF Mint, NextKey
<1>4. ASSUME NEW a \in KeyAdmin, Commit(a), keyRow[k].st \in {"ROTATED", "REVOKED"}
      PROVE  keyRow'[k] = keyRow[k]
    <2>1. admin[a].new \in Key /\ keyRow[admin[a].new].st = "minted"
        BY <1>4 DEF KeysInv, AdminHolds, Commit
    <2>2. CASE admin[a].cur = NoKey
        BY <1>1, <1>4, <2>1, <2>2 DEF Commit, Created
    <2>3. CASE admin[a].cur # NoKey
        <3>1. keyRow[admin[a].cur].st = "ACTIVE" /\ keyRow' = Rotated(admin[a].cur, admin[a].new)
            BY <1>4, <2>3 DEF Commit
        <3>2. k # admin[a].cur /\ k # admin[a].new
            BY <1>4, <2>1, <3>1
        <3> QED BY <1>1, <3>1, <3>2 DEF Rotated
    <2> QED BY <2>2, <2>3
<1>5. CASE RevokeExpired
    <2>1. keyRow'[k] = IF keyRow[k].st = "ROTATED" /\ keyRow[k].since > RevokeGrace
                       THEN [keyRow[k] EXCEPT !.st = "REVOKED"] ELSE keyRow[k]
        BY <1>5 DEF RevokeExpired
    <2> QED BY <1>1, <2>1 DEF KeyRow
<1>6. CASE KeyTick
    <2>1. keyRow'[k] = IF keyRow[k].st = "ROTATED" /\ keyRow[k].since <= RevokeGrace
                       THEN [keyRow[k] EXCEPT !.since = @ + 1] ELSE keyRow[k]
        BY <1>6 DEF KeyTick
    <2> QED BY <1>1, <2>1 DEF KeyRow
<1>7. CASE UNCHANGED keyRow
    BY <1>2, <1>7
<1> QED BY <1>2, <1>3, <1>4, <1>5, <1>6, <1>7 DEF KeysNext, keyVars, CreateRead, RotateRead,
           MintFails, Probe, AdminStops, SignRead, Sign

\* A demoted key is never stamped, activated or revoked out of turn: the
\* conditional demotion of rotateResolvedKey lets a rotation that read the key
\* before another one demoted it change nothing, and revokeExpiredRotatedKeys
\* waits for the whole grace window.
THEOREM DemotionFinal == KeysSpec => DemotionIsFinal
<1>1. KeysInv /\ [KeysNext]_keyVars =>
        [\A k \in Key :
           /\ keyRow[k].st = "ROTATED" =>
                \/ keyRow'[k].st = "ROTATED" /\ keyRow'[k].since >= keyRow[k].since
                \/ keyRow'[k].st = "REVOKED" /\ keyRow[k].since > RevokeGrace
           /\ keyRow[k].st = "REVOKED" => keyRow'[k].st = "REVOKED"]_keyVars
    BY RowDemotion
<1> QED BY <1>1, KeysAlways, PTL DEF KeysSpec, DemotionIsFinal

\* What was signed verifies while it is valid: the key of an ID token is in
\* the published JWKS (platformJwksKeyWhere over the window floor of
\* assertJwksWindowAboveFloor), that of an approval has an accepted status.
THEOREM KeysVerify == KeysSpec => []VerifiesWhileValid
<1>1. KeysInv => VerifiesWhileValid
    <2> SUFFICES ASSUME KeysInv, NEW k \in Key
                 PROVE  /\ signed[k]["id_token"] > 0 => platformJwksKeyWhere(k)
                        /\ signed[k]["approval"] > 0 => StatusAccepted(k)
        BY DEF VerifiesWhileValid
    <2>1. {"id_token", "approval"} = Artefact
        BY DEF Artefact
    <2>2. ASSUME signed[k]["id_token"] > 0 PROVE platformJwksKeyWhere(k)
        <3>1. \/ keyRow[k].st = "ACTIVE"
              \/ /\ keyRow[k].st = "ROTATED"
                 /\ keyRow[k].since + signed[k]["id_token"] <= 1 + Life["id_token"]
            BY <2>1, <2>2 DEF KeysInv, LifeRemains
        <3>2. Life["id_token"] = 1 + IdTokenTtl
            BY <2>1 DEF Life
        <3>3. keyRow[k].since \in Nat
            BY SinceNat DEF KeysInv
        <3>4. signed[k]["id_token"] \in Nat
            BY <2>1, Lifetimes DEF KeysInv, KeysTypeOK
        <3> QED BY <2>2, <3>1, <3>2, <3>3, <3>4, Lifetimes
                DEF platformJwksKeyWhere, JwksWindow
    <2>3. ASSUME signed[k]["approval"] > 0 PROVE StatusAccepted(k)
        BY <2>1, <2>3 DEF KeysInv, LifeRemains, StatusAccepted
    <2> QED BY <2>2, <2>3
<1> QED BY <1>1, KeysAlways, PTL

-----------------------------------------------------------------------------
(***************************************************************************)
(* A code whose row was written uncontended verifies under every state of  *)
(* the MAC ring, for any number of versions, writers and row writes.       *)
(***************************************************************************)

\* The parts of the type invariant the steps need.
LEMMA RingTypes ==
    ASSUME RingInv
    PROVE  /\ ring \in [Version -> {"UNUSED", "ACTIVE", "ROTATED", "RETIRED", "PURGED"}]
           /\ row \in Row /\ writer \in [Writer -> RingWriter] /\ sweep \in RingSweep
           /\ stale \in BOOLEAN
           /\ Version \subseteq Nat \ {0}
    BY RingAssumption DEF RingInv, RingTypeOK, Version

\* The active version, and what the ring looks like around it.
LEMMA ActiveIs ==
    ASSUME RingInv
    PROVE  /\ ActiveVersion \in Version
           /\ \A v \in Version : (ring[v] = "ACTIVE" <=> v = ActiveVersion)
                                 /\ (ring[v] = "UNUSED" <=> v > ActiveVersion)
<1>1. PICK a \in Version :
         \A v \in Version : (ring[v] = "ACTIVE" <=> v = a) /\ (ring[v] = "UNUSED" <=> v > a)
    BY DEF RingInv, OneActive
<1>2. ActiveVersion = a
    BY <1>1 DEF ActiveVersion
<1> QED BY <1>1, <1>2

\* What stands for nothing is well typed.
LEMMA NothingTyped ==
    /\ AnyContent \in Content /\ NoRow \in Row /\ NoRow.mac \in Mac
    /\ NoWriter \in RingWriter /\ NoWriter.pc = "idle"
    /\ NoSweep \in RingSweep /\ NoSweep.pc = "idle" /\ NoSweep.retiring = 0
<1>1. AnyContent \in Content
    BY RingAssumption DEF AnyContent
<1>2. [content |-> AnyContent, version |-> 0] \in Mac
    BY <1>1, RingAssumption DEF Mac
<1>3. NoRow \in Row /\ NoRow.mac \in Mac
    BY <1>1, <1>2, RingAssumption DEF NoRow, Row
<1>4. NoWriter \in RingWriter /\ NoWriter.pc = "idle"
    BY <1>1, <1>3, RingAssumption DEF NoWriter, RingWriter, Version
<1>5. NoSweep \in RingSweep /\ NoSweep.pc = "idle" /\ NoSweep.retiring = 0
    BY <1>3, RingAssumption DEF NoSweep, RingSweep
<1> QED BY <1>1, <1>3, <1>4, <1>5

\* The types inside the records.
LEMMA FieldTypes ==
    ASSUME RingInv
    PROVE  /\ row.mac \in Mac /\ row.mac.version \in {0} \cup Version /\ row.content \in Content
           /\ row.writes \in 0 .. MaxRowWrites
           /\ sweep.retiring \in {0} \cup Version /\ sweep.read \in Row /\ sweep.read.content \in Content
           /\ \A w \in Writer :
                /\ writer[w].born \in Version /\ writer[w].mac \in Mac
                /\ writer[w].mac.version \in {0} \cup Version
                /\ writer[w].new \in Content /\ writer[w].read \in Row
                /\ writer[w].read.mac \in Mac /\ writer[w].read.content \in Content
<1>1. \A m \in Mac : m.version \in {0} \cup Version
    BY RingAssumption DEF Mac, Version
<1>2. \A r \in Row : r.mac \in Mac /\ r.content \in Content /\ r.writes \in 0 .. MaxRowWrites
    BY DEF Row
<1>3. \A x \in RingWriter : x.born \in Version /\ x.mac \in Mac /\ x.new \in Content /\ x.read \in Row
    BY DEF RingWriter
<1>4. sweep.retiring \in {0} \cup Version /\ sweep.read \in Row
    BY RingTypes, RingAssumption DEF RingSweep, Version
<1>5. \A w \in Writer : writer[w] \in RingWriter
    BY RingTypes
<1> QED BY <1>1, <1>2, <1>3, <1>4, <1>5, RingTypes

\* A request moves while the keys, the row and the worker stand still.
LEMMA WriterMoves ==
    ASSUME RingInv, NEW w \in Writer, NEW x \in RingWriter, writer' = [writer EXCEPT ![w] = x],
           UNCHANGED <<ring, row, sweep, stale>>,
           x.pc # "idle" => /\ \A v \in Version : ring[v] = "UNUSED" => x.born < v
                            /\ sweep.retiring # 0 => x.born > sweep.retiring,
           x.pc = "write" => StoresAccepted(w)'
    PROVE  RingInv'
<1>1. /\ writer' \in [Writer -> RingWriter] /\ writer'[w] = x
      /\ \A u \in Writer : u # w => writer'[u] = writer[u]
    BY RingTypes
<1>2. RingTypeOK' /\ OneActive' /\ UncontendedCodeVerifies'
    BY <1>1, RingTypes DEF RingInv, RingTypeOK, OneActive, UncontendedCodeVerifies, MacAccepted
<1>3. WritersAccepted'
    <2>1. \A u \in Writer :
             writer'[u].pc # "idle" => \A v \in Version : ring'[v] = "UNUSED" => writer'[u].born < v
        BY <1>1 DEF RingInv, WritersAccepted
    <2>2. ASSUME NEW u \in Writer, writer'[u].pc = "write" PROVE StoresAccepted(u)'
        <3>1. CASE u = w
            BY <1>1, <2>2, <3>1
        <3>2. CASE u # w
            BY <1>1, <2>2, <3>2 DEF RingInv, WritersAccepted, StoresAccepted
        <3> QED BY <3>1, <3>2
    <2> QED BY <2>1, <2>2 DEF WritersAccepted
<1>4. OnTheWayOut'
    BY <1>1 DEF RingInv, OnTheWayOut
<1> QED BY <1>2, <1>3, <1>4 DEF RingInv

\* The keys stand still and no request goes on: what is left is the row.
LEMMA RowFollows ==
    ASSUME RingInv, ring' = ring, row' \in Row, stale' \in BOOLEAN, sweep' \in RingSweep,
           writer' \in [Writer -> RingWriter],
           \A u \in Writer : writer'[u] = writer[u] \/ writer'[u].pc = "idle",
           UncontendedCodeVerifies', OnTheWayOut'
    PROVE  RingInv'
<1>1. RingTypeOK' /\ OneActive'
    BY RingTypes DEF RingInv, RingTypeOK, OneActive
<1>2. WritersAccepted'
    BY DEF RingInv, WritersAccepted, StoresAccepted
<1> QED BY <1>1, <1>2 DEF RingInv

\* The requests that issue and edit, up to their write.
LEMMA RequestStep ==
    ASSUME RingInv, NEW w \in Writer, (\E new \in Content : WriteRead(w, new)) \/ SignMac(w) \/ WriteRefused(w)
    PROVE  RingInv'
<1>1. ASSUME NEW new \in Content, WriteRead(w, new) PROVE RingInv'
    <2>1. PICK pc \in {"sign", "write"} :
             pc = IF row.status = "ABSENT" \/ new # row.content THEN "sign" ELSE "write"
        OBVIOUS
    <2>2. PICK x : x = [pc |-> pc, new |-> new, mac |-> row.mac, read |-> row, born |-> ActiveVersion]
        OBVIOUS
    <2>3. /\ x \in RingWriter /\ x.pc = pc /\ x.new = new /\ x.mac = row.mac /\ x.read = row
          /\ x.born = ActiveVersion
        BY <2>2, ActiveIs, FieldTypes, RingTypes DEF RingWriter
    <2>4. writer' = [writer EXCEPT ![w] = x] /\ UNCHANGED <<ring, row, sweep, stale>>
        BY <1>1, <2>1, <2>2 DEF WriteRead
    <2>5. writer'[w] = x
        BY <2>4, RingTypes
    <2>6. x.pc = "write" => StoresAccepted(w)'
        BY <2>1, <2>3, <2>5 DEF StoresAccepted
    <2>7. /\ \A v \in Version : ring[v] = "UNUSED" => x.born < v
          /\ sweep.retiring # 0 => x.born > sweep.retiring
        <3>1. \A v \in Version : ring[v] = "UNUSED" => x.born < v
            BY <2>3, ActiveIs, RingTypes
        <3>2. ASSUME sweep.retiring # 0 PROVE x.born > sweep.retiring
            <4>1. sweep.retiring \in Version /\ ring[sweep.retiring] = "ROTATED"
                BY <3>2, FieldTypes DEF RingInv, OnTheWayOut
            <4>2. sweep.retiring # ActiveVersion /\ ~(sweep.retiring > ActiveVersion)
                BY <4>1, ActiveIs
            <4> QED BY <2>3, <4>1, <4>2, ActiveIs, RingTypes
        <3> QED BY <3>1, <3>2
    <2> QED BY <2>3, <2>4, <2>6, <2>7, WriterMoves
<1>2. CASE SignMac(w)
    <2>1. PICK v \in {ActiveVersion, 0} :
             writer' = [writer EXCEPT ![w].pc = "write", ![w].mac = [content |-> writer[w].new, version |-> v]]
        BY <1>2 DEF SignMac
    <2>2. PICK m : m = [content |-> writer[w].new, version |-> v]
        OBVIOUS
    <2>3. m \in Mac /\ m.content = writer[w].new /\ m.version = v
        BY <2>2, FieldTypes, ActiveIs, RingAssumption DEF Mac, Version
    <2>4. PICK x : x = [writer[w] EXCEPT !.pc = "write", !.mac = m]
        OBVIOUS
    <2>5. /\ x \in RingWriter /\ x.pc = "write" /\ x.mac = m /\ x.new = writer[w].new
          /\ x.born = writer[w].born
        BY <2>3, <2>4, RingTypes DEF RingWriter
    <2>6. writer' = [writer EXCEPT ![w] = x] /\ writer'[w] = x
        BY <2>1, <2>2, <2>4, RingTypes
    <2>7. writer[w].pc = "sign" /\ UNCHANGED <<ring, row, sweep, stale>>
        BY <1>2 DEF SignMac
    <2>8. x.born <= ActiveVersion
        <3>1. x.born \in Version /\ ActiveVersion \in Version
            BY <2>5, FieldTypes, ActiveIs
        <3>2. ASSUME x.born > ActiveVersion PROVE FALSE
            <4>1. ring[x.born] = "UNUSED"
                BY <3>1, <3>2, ActiveIs
            <4>2. x.born < x.born
                BY <2>5, <2>7, <3>1, <4>1 DEF RingInv, WritersAccepted
            <4> QED BY <3>1, <4>2, RingTypes
        <3> QED BY <3>1, <3>2, RingTypes
    <2>9. StoresAccepted(w)'
        BY <2>3, <2>5, <2>6, <2>7, <2>8, ActiveIs DEF StoresAccepted
    <2>10. /\ \A u \in Version : ring[u] = "UNUSED" => x.born < u
           /\ sweep.retiring # 0 => x.born > sweep.retiring
        BY <2>5, <2>7 DEF RingInv, WritersAccepted, OnTheWayOut
    <2> QED BY <2>5, <2>6, <2>7, <2>9, <2>10, WriterMoves
<1>3. CASE WriteRefused(w)
    <2>1. writer' = [writer EXCEPT ![w] = NoWriter] /\ UNCHANGED <<ring, row, sweep, stale>>
        BY <1>3 DEF WriteRefused
    <2> QED BY <2>1, NothingTyped, WriterMoves
<1> QED BY <1>1, <1>2, <1>3

\* The write: nothing was overwritten unread, so the row keeps what it had or
\* gets what the request signed.
LEMMA WriteRowStep ==
    ASSUME RingInv, NEW w \in Writer, WriteRow(w)
    PROVE  RingInv'
<1>1. /\ writer[w].pc = "write" /\ row.writes < MaxRowWrites
      /\ row.status = "ABSENT" <=> writer[w].read.status = "ABSENT"
      /\ row' = [status |-> IF row.status = "ABSENT" THEN "ACTIVE" ELSE row.status,
                 content |-> writer[w].new, mac |-> writer[w].mac, writes |-> row.writes + 1]
      /\ stale' = (stale \/ Moved(writer[w].read))
      /\ writer' = [writer EXCEPT ![w] = NoWriter]
      /\ ring' = ring /\ sweep' = sweep
    BY DEF WriteRow
<1>2. /\ row' \in Row /\ row'.content = writer[w].new /\ row'.mac = writer[w].mac
      /\ row'.status = IF row.status = "ABSENT" THEN "ACTIVE" ELSE row.status
    <2>1. row.writes + 1 \in 0 .. MaxRowWrites /\ writer[w].new \in Content /\ writer[w].mac \in Mac
        BY <1>1, FieldTypes, RingAssumption
    <2>2. row.status \in {"ABSENT", "ACTIVE", "REVOKED"}
        BY RingTypes DEF Row
    <2> QED BY <1>1, <2>1, <2>2 DEF Row
<1>3. /\ writer' \in [Writer -> RingWriter]
      /\ \A u \in Writer : writer'[u] = writer[u] \/ writer'[u].pc = "idle"
    BY <1>1, RingTypes, NothingTyped
<1>4. stale' \in BOOLEAN /\ (~stale' => ~stale /\ writer[w].read = row)
    BY <1>1, RingTypes DEF Moved
<1>5. StoresAccepted(w)
    BY <1>1 DEF RingInv, WritersAccepted
<1>6. UncontendedCodeVerifies'
    <2> SUFFICES ASSUME row'.status = "ACTIVE", ~stale' PROVE MacAccepted'
        BY DEF UncontendedCodeVerifies
    <2>1. CASE /\ writer[w].mac.content = writer[w].new
               /\ writer[w].mac.version # 0 =>
                    /\ writer[w].mac.version >= writer[w].born
                    /\ ring[writer[w].mac.version] \in {"ACTIVE", "ROTATED"}
        <3>1. row'.mac.content = row'.content
            BY <1>2, <2>1
        <3>2. row'.mac.version # 0 => ring'[row'.mac.version] \in {"ACTIVE", "ROTATED"}
            BY <1>1, <1>2, <2>1
        <3> QED BY <3>1, <3>2 DEF MacAccepted
    <2>2. CASE /\ writer[w].read.status # "ABSENT"
               /\ writer[w].new = writer[w].read.content
               /\ writer[w].mac = writer[w].read.mac
        <3>1. row.status = "ACTIVE" /\ ~stale /\ row'.content = row.content /\ row'.mac = row.mac
            BY <1>2, <1>4, <2>2
        <3> QED BY <1>1, <3>1 DEF RingInv, UncontendedCodeVerifies, MacAccepted
    <2> QED BY <1>5, <2>1, <2>2 DEF StoresAccepted
<1>7. OnTheWayOut'
    <2>1. \A u \in Writer : sweep.retiring # 0 /\ writer'[u].pc # "idle" => writer'[u].born > sweep.retiring
        BY <1>3 DEF RingInv, OnTheWayOut
    <2>2. ASSUME sweep.pc = "retire", sweep.retiring # 0, row'.status = "ACTIVE", ~stale'
          PROVE  row'.mac.version # sweep.retiring
        <3>1. writer[w].born > sweep.retiring /\ sweep.retiring \in Version
            BY <1>1, <2>2, FieldTypes DEF RingInv, OnTheWayOut
        <3>2. CASE writer[w].mac.version # 0 => writer[w].mac.version >= writer[w].born
            BY <1>2, <3>1, <3>2, FieldTypes, RingTypes
        <3>3. CASE /\ writer[w].read.status # "ABSENT"
                   /\ writer[w].mac = writer[w].read.mac
            BY <1>2, <1>4, <2>2, <3>3 DEF RingInv, OnTheWayOut
        <3> QED BY <1>5, <3>2, <3>3 DEF StoresAccepted
    <2> QED BY <1>1, <2>1, <2>2 DEF RingInv, OnTheWayOut
<1>8. ring' = ring /\ sweep' \in RingSweep
    BY <1>1, RingTypes
<1> QED BY <1>2, <1>3, <1>4, <1>6, <1>7, <1>8, RowFollows

\* Revoking keeps every promise.
LEMMA RevokeRowStep ==
    ASSUME RingInv, RevokeRow
    PROVE  RingInv'
<1>1. row.writes < MaxRowWrites /\ row' = [row EXCEPT !.status = "REVOKED", !.writes = @ + 1]
      /\ UNCHANGED <<ring, writer, sweep, stale>>
    BY DEF RevokeRow
<1>2. row.writes + 1 \in 0 .. MaxRowWrites /\ row \in Row
    BY <1>1, FieldTypes, RingTypes, RingAssumption
<1>3. row' \in Row /\ row'.status = "REVOKED"
    BY <1>1, <1>2 DEF Row
<1>4. OnTheWayOut' /\ UncontendedCodeVerifies'
    BY <1>1, <1>3 DEF RingInv, OnTheWayOut, UncontendedCodeVerifies
<1> QED BY <1>1, <1>3, <1>4, RingTypes, RowFollows

\* Where the rewriting of the rows ends.
LEMMA AfterRemacIs ==
    ASSUME RingInv
    PROVE  /\ AfterRemac \in RingSweep
           /\ AfterRemac.pc \in {"idle", "count"}
           /\ AfterRemac.retiring \in {0, sweep.retiring}
           /\ AfterRemac.pc = "count" => AfterRemac.retiring # 0
    BY NothingTyped, RingTypes DEF AfterRemac, RingSweep

\* The worker goes on without the keys.
LEMMA SweepMoves ==
    ASSUME RingInv, UNCHANGED <<ring, row, writer, stale>>, sweep' \in RingSweep,
           sweep'.retiring \in {0, sweep.retiring},
           sweep'.pc \in {"count", "retire"} => sweep'.retiring # 0,
           sweep'.pc = "retire" => ~(row.status = "ACTIVE" /\ row.mac.version = sweep'.retiring)
    PROVE  RingInv'
<1>1. UncontendedCodeVerifies'
    BY DEF RingInv, UncontendedCodeVerifies, MacAccepted
<1>2. OnTheWayOut'
    BY DEF RingInv, OnTheWayOut
<1> QED BY <1>1, <1>2, RingTypes, RowFollows

\* The cleanup worker: rotation, rewriting, counting, retiring.
LEMMA WorkerStep ==
    ASSUME RingInv, RemacRead \/ RemacWrite \/ RetireCount \/ SweepFails
    PROVE  RingInv'
<1>1. CASE RemacRead
    <2>1. PICK x : x = [sweep EXCEPT !.pc = "rewrite", !.read = row]
        OBVIOUS
    <2>2. x \in RingSweep /\ x.pc = "rewrite" /\ x.retiring = sweep.retiring
        BY <2>1, RingTypes DEF RingSweep
    <2>3. sweep' \in {x, AfterRemac} /\ UNCHANGED <<ring, row, writer, stale>>
        BY <1>1, <2>1 DEF RemacRead
    <2> QED BY <2>2, <2>3, AfterRemacIs, SweepMoves
<1>2. CASE RemacWrite
    <2>1. sweep' = AfterRemac /\ row.writes < MaxRowWrites /\ UNCHANGED <<ring, writer>>
        BY <1>2 DEF RemacWrite
    <2>2. CASE UNCHANGED <<row, stale>>
        BY <2>1, <2>2, AfterRemacIs, SweepMoves
    <2>3. CASE /\ row' = [row EXCEPT !.writes = @ + 1,
                            !.mac = [content |-> sweep.read.content, version |-> ActiveVersion]]
               /\ stale' = (stale \/ Moved(sweep.read))
        <3>1. PICK m : m = [content |-> sweep.read.content, version |-> ActiveVersion]
            OBVIOUS
        <3>2. m \in Mac /\ m.content = sweep.read.content /\ m.version = ActiveVersion
            BY <3>1, FieldTypes, ActiveIs DEF Mac, Version
        <3>3. row.writes + 1 \in 0 .. MaxRowWrites /\ row \in Row
            BY <2>1, FieldTypes, RingTypes, RingAssumption
        <3>4. row' \in Row /\ row'.mac = m /\ row'.content = row.content
            BY <2>3, <3>1, <3>2, <3>3 DEF Row
        <3>5. stale' \in BOOLEAN /\ (~stale' => sweep.read = row)
            BY <2>3, RingTypes DEF Moved
        <3>6. UncontendedCodeVerifies'
            BY <2>1, <3>2, <3>4, <3>5, ActiveIs DEF UncontendedCodeVerifies, MacAccepted
        <3>7. OnTheWayOut'
            <4>1. sweep'.pc # "retire" /\ sweep'.retiring \in {0, sweep.retiring}
                  /\ (sweep'.pc = "count" => sweep'.retiring # 0)
                BY <2>1, AfterRemacIs
            <4> QED BY <2>1, <4>1 DEF RingInv, OnTheWayOut
        <3> QED BY <2>1, <3>4, <3>5, <3>6, <3>7, AfterRemacIs, RingTypes, RowFollows
    <2> QED BY <1>2, <2>2, <2>3 DEF RemacWrite
<1>3. CASE RetireCount
    <2>1. PICK x : x = [sweep EXCEPT !.pc = "retire"]
        OBVIOUS
    <2>2. x \in RingSweep /\ x.pc = "retire" /\ x.retiring = sweep.retiring
        BY <2>1, RingTypes DEF RingSweep
    <2>3. /\ sweep.pc = "count" /\ sweep' = IF Dependents THEN NoSweep ELSE x
          /\ UNCHANGED <<ring, row, writer, stale>>
        BY <1>3, <2>1 DEF RetireCount
    <2>4. sweep.retiring # 0
        BY <2>3 DEF RingInv, OnTheWayOut
    <2>5. CASE Dependents
        BY <2>3, <2>5, NothingTyped, SweepMoves
    <2>6. CASE ~Dependents
        BY <2>2, <2>3, <2>4, <2>6, SweepMoves DEF Dependents
    <2> QED BY <2>5, <2>6
<1>4. CASE SweepFails
    BY <1>4, NothingTyped, SweepMoves DEF SweepFails
<1> QED BY <1>1, <1>2, <1>3, <1>4

\* The steps that change the status of a key.
LEMMA KeyStep ==
    ASSUME RingInv,
           \/ RotateMac \/ RetireMac
           \/ \E v \in Version : RetireStart(v) \/ PurgeMac(v)
    PROVE  RingInv'
<1>0. /\ ring \in [Version -> {"UNUSED", "ACTIVE", "ROTATED", "RETIRED", "PURGED"}]
      /\ Version = 1 .. MaxVersion /\ MaxVersion \in Nat
      /\ row \in Row /\ writer \in [Writer -> RingWriter] /\ stale \in BOOLEAN
    BY RingTypes, RingAssumption DEF Version
<1>1. ASSUME NEW v \in Version, RetireStart(v) PROVE RingInv'
    <2>1. PICK x : x = [NoSweep EXCEPT !.pc = "read", !.retiring = v]
        OBVIOUS
    <2>2. x \in RingSweep /\ x.pc = "read" /\ x.retiring = v
        <3>1. NoSweep \in RingSweep /\ v \in 0 .. MaxVersion
            BY <1>0, NothingTyped
        <3> QED BY <2>1, <3>1 DEF RingSweep
    <2>3. /\ sweep' = x /\ ring[v] = "ROTATED" /\ UNCHANGED <<ring, row, writer, stale>>
          /\ \A w \in Writer : writer[w].pc # "idle" => writer[w].born > v
        BY <1>1, <2>1 DEF RetireStart
    <2>4. OnTheWayOut'
        BY <2>2, <2>3 DEF OnTheWayOut
    <2>5. UncontendedCodeVerifies'
        BY <2>3 DEF RingInv, UncontendedCodeVerifies, MacAccepted
    <2> QED BY <1>0, <2>2, <2>3, <2>4, <2>5, RowFollows
<1>2. CASE RotateMac
    <2>1. PICK a \in Version : a = ActiveVersion
        BY ActiveIs
    <2>2. PICK x : x = [NoSweep EXCEPT !.pc = "read"]
        OBVIOUS
    <2>3. x \in RingSweep /\ x.pc = "read" /\ x.retiring = 0
        BY <2>2, NothingTyped DEF RingSweep
    <2>4. /\ a < MaxVersion /\ ring' = [ring EXCEPT ![a] = "ROTATED", ![a + 1] = "ACTIVE"]
          /\ sweep' = x /\ UNCHANGED <<row, writer, stale>>
        BY <1>2, <2>1, <2>2 DEF RotateMac
    <2>5. a + 1 \in Version /\ a + 1 # a
        BY <1>0, <2>4
    <2>6. /\ ring' \in [Version -> {"UNUSED", "ACTIVE", "ROTATED", "RETIRED", "PURGED"}]
          /\ ring'[a] = "ROTATED" /\ ring'[a + 1] = "ACTIVE"
          /\ \A v \in Version : v # a /\ v # a + 1 => ring'[v] = ring[v]
        BY <1>0, <2>4, <2>5
    <2>7. \A v \in Version : (ring[v] = "ACTIVE" <=> v = a) /\ (ring[v] = "UNUSED" <=> v > a)
        BY <2>1, ActiveIs
    <2>8. \A v \in Version : (ring'[v] = "ACTIVE" <=> v = a + 1) /\ (ring'[v] = "UNUSED" <=> v > a + 1)
        BY <1>0, <2>5, <2>6, <2>7
    <2>9. OneActive'
        BY <2>5, <2>8 DEF OneActive
    <2>10. \A v \in Version : ring[v] \in {"ACTIVE", "ROTATED"} => ring'[v] \in {"ACTIVE", "ROTATED"}
        BY <2>6, <2>7
    <2>11. \A v \in Version : ring'[v] = "UNUSED" => ring[v] = "UNUSED"
        BY <1>0, <2>7, <2>8
    <2>12. WritersAccepted'
        <3>1. \A w \in Writer : StoresAccepted(w) => StoresAccepted(w)'
            BY <2>4, <2>10, FieldTypes DEF StoresAccepted
        <3> QED BY <2>4, <2>11, <3>1 DEF RingInv, WritersAccepted
    <2>13. UncontendedCodeVerifies'
        BY <2>4, <2>10, FieldTypes DEF RingInv, UncontendedCodeVerifies, MacAccepted
    <2>14. OnTheWayOut'
        BY <2>3, <2>4 DEF OnTheWayOut
    <2>15. RingTypeOK'
        BY <1>0, <2>3, <2>4, <2>6 DEF RingTypeOK
    <2> QED BY <2>9, <2>12, <2>13, <2>14, <2>15 DEF RingInv
<1>3. ASSUME NEW v \in Version, NEW st \in {"RETIRED", "PURGED"}, ring[v] \in {"ROTATED", "RETIRED"},
             ring' = [ring EXCEPT ![v] = st], UNCHANGED <<row, writer, stale>>,
             ring[v] = "ROTATED" =>
                /\ \A w \in Writer : writer[w].pc # "idle" => writer[w].born > v
                /\ row.status = "ACTIVE" /\ ~stale => row.mac.version # v,
             sweep' = NoSweep \/ (sweep' = sweep /\ ring[v] = "RETIRED")
      PROVE  RingInv'
    <2>1. /\ ring' \in [Version -> {"UNUSED", "ACTIVE", "ROTATED", "RETIRED", "PURGED"}]
          /\ ring'[v] = st /\ \A u \in Version : u # v => ring'[u] = ring[u]
        BY <1>0, <1>3
    <2>2. \A u \in Version : (ring'[u] = "ACTIVE" <=> ring[u] = "ACTIVE")
                             /\ (ring'[u] = "UNUSED" <=> ring[u] = "UNUSED")
        BY <1>3, <2>1
    <2>3. OneActive'
        BY <2>2 DEF RingInv, OneActive
    <2>4. WritersAccepted'
        <3>1. ASSUME NEW w \in Writer, writer[w].pc = "write", StoresAccepted(w) PROVE StoresAccepted(w)'
            <4>1. CASE /\ writer[w].mac.version # 0
                       /\ writer[w].mac.version >= writer[w].born
                       /\ ring[writer[w].mac.version] \in {"ACTIVE", "ROTATED"}
                <5>1. writer[w].mac.version \in Version /\ writer[w].born \in Version
                    BY <4>1, FieldTypes
                <5>2. writer[w].mac.version # v
                    BY <1>0, <1>3, <3>1, <4>1, <5>1
                <5>3. ring'[writer[w].mac.version] = ring[writer[w].mac.version]
                    BY <2>1, <5>1, <5>2
                <5> QED BY <1>3, <3>1, <5>3 DEF StoresAccepted
            <4> QED BY <1>3, <3>1, <4>1 DEF StoresAccepted
        <3> QED BY <1>3, <2>2, <3>1 DEF RingInv, WritersAccepted
    <2>5. UncontendedCodeVerifies'
        <3> SUFFICES ASSUME row.status = "ACTIVE", ~stale, row.mac.version # 0
                     PROVE  row.mac.content = row.content /\ ring'[row.mac.version] \in {"ACTIVE", "ROTATED"}
            BY <1>3 DEF UncontendedCodeVerifies, MacAccepted
        <3>1. /\ row.mac.content = row.content /\ row.mac.version \in Version
              /\ ring[row.mac.version] \in {"ACTIVE", "ROTATED"}
            BY FieldTypes DEF RingInv, UncontendedCodeVerifies, MacAccepted
        <3>2. row.mac.version # v
            BY <1>3, <3>1
        <3> QED BY <2>1, <3>1, <3>2
    <2>6. OnTheWayOut'
        <3>1. CASE sweep' = NoSweep
            BY <3>1, NothingTyped DEF OnTheWayOut
        <3>2. CASE sweep' = sweep /\ ring[v] = "RETIRED"
            <4>1. sweep.retiring # 0 => sweep.retiring \in Version /\ sweep.retiring # v
                BY <3>2, FieldTypes DEF RingInv, OnTheWayOut
            <4> QED BY <1>3, <2>1, <3>2, <4>1 DEF RingInv, OnTheWayOut
        <3> QED BY <1>3, <3>1, <3>2
    <2>7. RingTypeOK'
        BY <1>0, <1>3, <2>1, NothingTyped, RingTypes DEF RingTypeOK
    <2> QED BY <2>3, <2>4, <2>5, <2>6, <2>7 DEF RingInv
<1>4. CASE RetireMac
    <2>1. /\ sweep.pc = "retire" /\ ring' = [ring EXCEPT ![sweep.retiring] = "RETIRED"]
          /\ sweep' = NoSweep /\ UNCHANGED <<row, writer, stale>>
        BY <1>4 DEF RetireMac
    <2>2. PICK v \in Version : v = sweep.retiring
        BY <2>1, FieldTypes DEF RingInv, OnTheWayOut
    <2>3. /\ ring[v] = "ROTATED"
          /\ \A w \in Writer : writer[w].pc # "idle" => writer[w].born > v
          /\ row.status = "ACTIVE" /\ ~stale => row.mac.version # v
        BY <2>1, <2>2 DEF RingInv, OnTheWayOut
    <2> QED BY <1>3, <2>1, <2>2, <2>3
<1>5. ASSUME NEW v \in Version, PurgeMac(v) PROVE RingInv'
    BY <1>3, <1>5 DEF PurgeMac
<1> QED BY <1>1, <1>2, <1>4, <1>5

\* The inductive step.
LEMMA RingStep == RingInv /\ [RingNext]_ringVars => RingInv'
<1> SUFFICES ASSUME RingInv, [RingNext]_ringVars PROVE RingInv'
    OBVIOUS
<1>1. CASE UNCHANGED ringVars
    BY <1>1 DEF ringVars, RingInv, RingTypeOK, OneActive, WritersAccepted, StoresAccepted,
                OnTheWayOut, UncontendedCodeVerifies, MacAccepted
<1>2. CASE RingNext
    BY <1>2, RequestStep, WriteRowStep, RevokeRowStep, WorkerStep, KeyStep DEF RingNext
<1> QED BY <1>1, <1>2

\* An organization starts with its first key and no request.
LEMMA RingStart == RingInit => RingInv
<1> SUFFICES ASSUME RingInit PROVE RingInv
    OBVIOUS
<1>1. RingTypeOK
    BY NothingTyped DEF RingInit, RingTypeOK
<1>2. OneActive
    <2>1. 1 \in Version /\ Version \subseteq Nat \ {0}
        BY RingAssumption DEF Version
    <2> QED BY <2>1 DEF RingInit, OneActive
<1>3. NoRow.status = "ABSENT"
    BY DEF NoRow
<1> QED BY <1>1, <1>2, <1>3, NothingTyped
        DEF RingInit, RingInv, WritersAccepted, OnTheWayOut, UncontendedCodeVerifies

\* Through every rotation, retirement, purge and failure of the cleanup
\* worker, a live code that nobody overwrote unread keeps a MAC the verifier
\* accepts, for any number of keys and requests.
THEOREM CodeVerifies == RingSpec => []UncontendedCodeVerifies
<1>1. RingInv => UncontendedCodeVerifies
    BY DEF RingInv
<1> QED BY <1>1, RingStart, RingStep, PTL DEF RingSpec

-----------------------------------------------------------------------------
(***************************************************************************)
(* Token families stay single threads, and revoked ones stay revoked, for  *)
(* any number of tokens, families, accounts and concurrent requests.       *)
(***************************************************************************)

\* Before anybody signs in the invariant holds.
LEMMA InitRefreshInv == RefreshInit => RefreshInv
<1> SUFFICES ASSUME RefreshInit PROVE RefreshInv
    OBVIOUS
<1>1. Idle \in Request /\ Idle.pc = "idle"
    BY DEF Idle, Request, Pc
<1>2. RefreshTypeOK
    BY <1>1 DEF RefreshInit, RefreshTypeOK, State
<1> QED
    BY <1>1, <1>2, RefreshAssumption DEF RefreshInit, RefreshInv, FamiliesAreOwned, SuccessorIsNew,
       OneThreadPerFamily, EndedFamilyStaysEnded, ErasedHasNoTokens, Rotating, Rotates, Stored

\* A request that moves without writing a row: it starts no rotation, and a
\* rotation it goes on with is the one it was in.
LEMMA RequestMoves ==
    ASSUME RefreshInv, NEW r \in Req, NEW q \in Request,
           req' = [req EXCEPT ![r] = q],
           q.pc # "idle" => q.t \in Token /\ state[q.t] # "absent",
           q.pc \in {"fetch", "create"} => req[r].pc \in {"fetch", "create"} /\ q.t = req[r].t,
           UNCHANGED <<state, fam, owner, expired, gone, spent, ended, escaped>>
    PROVE  RefreshInv'
<1>1. \A s \in Req : req'[s] = req[s] \/ (s = r /\ req'[s] = q)
    BY DEF RefreshInv, RefreshTypeOK
<1>2. RefreshTypeOK'
    BY <1>1 DEF RefreshInv, RefreshTypeOK
<1>3. FamiliesAreOwned' /\ SuccessorIsNew'
    BY <1>1 DEF RefreshInv, FamiliesAreOwned, SuccessorIsNew
<1>4. \A s \in Req, f \in Family : Rotates(s, f)' => Rotates(s, f)
    BY <1>1 DEF Rotates
<1>5. OneThreadPerFamily' /\ EndedFamilyStaysEnded'
    BY <1>4 DEF RefreshInv, RefreshTypeOK, OneThreadPerFamily, EndedFamilyStaysEnded, Rotating
<1> QED
    BY <1>2, <1>3, <1>5 DEF RefreshInv, ErasedHasNoTokens, Stored

\* The conditional update that wins: the token presented was the only live
\* one of its family, and its request becomes the family's only rotation.
LEMMA RotationStarts ==
    ASSUME RefreshInv, NEW r \in Req, NEW t \in Token, req[r].pc = "idle", state[t] = "live",
           state' = [state EXCEPT ![t] = "revoked"],
           req' = [req EXCEPT ![r] = [pc |-> "fetch", t |-> t]],
           UNCHANGED <<fam, owner, expired, gone, spent, ended, escaped>>
    PROVE  RefreshInv'
<1> DEFINE q == [pc |-> "fetch", t |-> t]
<1>1. q \in Request /\ q.pc = "fetch" /\ q.t = t
    BY DEF Request, Pc
<1>2. /\ \A s \in Req : s # r => req'[s] = req[s]
      /\ req'[r] = q
      /\ \A x \in Token : x # t => state'[x] = state[x]
      /\ state'[t] = "revoked"
    BY DEF RefreshInv, RefreshTypeOK
<1>3. RefreshTypeOK'
    BY <1>1, <1>2 DEF RefreshInv, RefreshTypeOK, State
<1>4. FamiliesAreOwned' /\ SuccessorIsNew'
    BY <1>1, <1>2 DEF RefreshInv, RefreshTypeOK, FamiliesAreOwned, SuccessorIsNew
<1>5. \A f \in Family : fam[t] = f => ~Rotating(f) /\ f \notin ended \ escaped
    BY DEF RefreshInv, OneThreadPerFamily, EndedFamilyStaysEnded
<1>6. \A s \in Req, f \in Family : Rotates(s, f)' => Rotates(s, f) \/ (s = r /\ f = fam[t])
    BY <1>1, <1>2 DEF Rotates
<1>7. OneThreadPerFamily'
    BY <1>2, <1>5, <1>6 DEF RefreshInv, RefreshTypeOK, OneThreadPerFamily, Rotating
<1>8. EndedFamilyStaysEnded'
    BY <1>2, <1>5, <1>6 DEF RefreshInv, RefreshTypeOK, EndedFamilyStaysEnded, Rotating
<1> QED
    BY <1>2, <1>3, <1>4, <1>7, <1>8 DEF RefreshInv, ErasedHasNoTokens, Stored

\* A revocation of owned families ends every one of them but those that a
\* rotation is running in, which it records as escaped.
LEMMA FamiliesEnd ==
    ASSUME RefreshInv, NEW F \in SUBSET Family, \A f \in F : owner[f] # None,
           RevokeFamilies(F),
           req' \in [Req -> Request],
           \A s \in Req :
               req'[s] = req[s] \/ (req'[s] = Idle /\ req[s].pc \notin {"fetch", "create"}),
           UNCHANGED <<fam, owner, expired, gone, spent>>
    PROVE  RefreshInv'
<1>1. Idle.pc = "idle"
    BY DEF Idle
<1>2. \A t \in Token : \/ state'[t] = state[t] /\ ~(state[t] = "live" /\ fam[t] \in F)
                       \/ state[t] = "live" /\ fam[t] \in F /\ state'[t] = "revoked"
    BY DEF RevokeFamilies
<1>3. ended' = ended \cup F /\ escaped' = escaped \cup {f \in F : Rotating(f)}
    BY DEF RevokeFamilies
<1>4. RefreshTypeOK'
    <2>1. state' \in [Token -> State]
        BY DEF RefreshInv, RefreshTypeOK, RevokeFamilies, State
    <2>2. ended' \in SUBSET Family /\ escaped' \in SUBSET ended'
        BY <1>3 DEF RefreshInv, RefreshTypeOK
    <2> QED
        BY <1>1, <2>1, <2>2 DEF RefreshInv, RefreshTypeOK
<1>5. FamiliesAreOwned' /\ SuccessorIsNew'
    BY <1>1, <1>2, <1>3 DEF RefreshInv, RefreshTypeOK, FamiliesAreOwned, SuccessorIsNew
<1>6. \A s \in Req, f \in Family : Rotates(s, f)' <=> Rotates(s, f)
    BY <1>1 DEF Rotates
<1>7. OneThreadPerFamily'
    BY <1>2, <1>6 DEF RefreshInv, OneThreadPerFamily, Rotating
<1>8. EndedFamilyStaysEnded'
    BY <1>2, <1>3, <1>6 DEF RefreshInv, RefreshTypeOK, EndedFamilyStaysEnded, Rotating
<1> QED
    BY <1>2, <1>4, <1>5, <1>7, <1>8 DEF RefreshInv, ErasedHasNoTokens, Stored

\* Deleting rows, or letting them expire, disturbs nothing as long as no row
\* of an erased account is left.
LEMMA RowsGo ==
    ASSUME RefreshInv, state' \in [Token -> State],
           \A t \in Token : state'[t] = state[t] \/ (Stored(t) /\ state'[t] = "deleted"),
           expired' \in SUBSET Token, gone' \in SUBSET User,
           \A t \in Token : Stored(t)' => owner[fam[t]] \in User \ gone',
           UNCHANGED <<fam, owner, req, spent, ended, escaped>>
    PROVE  RefreshInv'
<1>1. RefreshTypeOK'
    BY DEF RefreshInv, RefreshTypeOK
<1>2. FamiliesAreOwned' /\ SuccessorIsNew'
    BY DEF RefreshInv, RefreshTypeOK, FamiliesAreOwned, SuccessorIsNew, Stored
<1>3. \A s \in Req, f \in Family : Rotates(s, f)' <=> Rotates(s, f)
    BY DEF Rotates
<1>4. OneThreadPerFamily' /\ EndedFamilyStaysEnded'
    BY <1>3 DEF RefreshInv, RefreshTypeOK, OneThreadPerFamily, EndedFamilyStaysEnded, Rotating
<1> QED
    BY <1>1, <1>2, <1>4 DEF RefreshInv, ErasedHasNoTokens

\* A sign-in opens a family that no token, rotation or revocation knows.
LEMMA LoginKeeps ==
    ASSUME RefreshInv, NEW u \in User, NEW t \in Token, NEW f \in Family, Login(u, t, f)
    PROVE  RefreshInv'
<1>1. /\ u \in User \ gone /\ owner[f] = None /\ state[t] = "absent"
      /\ UNCHANGED <<expired, gone, req, spent, ended, escaped>>
    BY DEF Login, UserExists, CreateRefreshToken
<1>2. /\ owner'[f] = u /\ \A g \in Family : g # f => owner'[g] = owner[g]
      /\ state'[t] = "live" /\ fam'[t] = f
      /\ \A x \in Token : x # t => state'[x] = state[x] /\ fam'[x] = fam[x]
    BY DEF RefreshInv, RefreshTypeOK, Login, CreateRefreshToken
<1>3. RefreshTypeOK'
    BY <1>1 DEF RefreshInv, RefreshTypeOK, Login, CreateRefreshToken, State
<1>4. \A x \in Token : fam[x] # f
    BY <1>1, RefreshAssumption DEF RefreshInv, FamiliesAreOwned
<1>5. f \notin ended
    BY <1>1 DEF RefreshInv, FamiliesAreOwned
<1>6. \A s \in Req : req[s].pc # "idle" => req[s].t \in Token /\ req[s].t # t
    BY <1>1 DEF RefreshInv, RefreshTypeOK, FamiliesAreOwned
<1>7. FamiliesAreOwned' /\ SuccessorIsNew'
    BY <1>1, <1>2, <1>4, <1>5, <1>6, RefreshAssumption
       DEF RefreshInv, RefreshTypeOK, FamiliesAreOwned, SuccessorIsNew
<1>8. \A s \in Req, g \in Family : Rotates(s, g)' => Rotates(s, g) /\ g # f
    BY <1>1, <1>2, <1>4, <1>6 DEF Rotates
<1>9. OneThreadPerFamily'
    BY <1>1, <1>2, <1>4, <1>8 DEF RefreshInv, OneThreadPerFamily, Rotating
<1>10. EndedFamilyStaysEnded'
    BY <1>1, <1>2, <1>5, <1>8 DEF RefreshInv, RefreshTypeOK, EndedFamilyStaysEnded, Rotating
<1>11. ErasedHasNoTokens'
    BY <1>1, <1>2, <1>4 DEF RefreshInv, RefreshTypeOK, FamiliesAreOwned, ErasedHasNoTokens, Stored
<1> QED
    BY <1>3, <1>7, <1>9, <1>10, <1>11 DEF RefreshInv

\* A rotation ends with the only live token of its family.
LEMMA RefreshCreateKeeps ==
    ASSUME RefreshInv, NEW r \in Req, NEW t \in Token, RefreshCreate(r, t)
    PROVE  RefreshInv'
<1> PICK o \in Token : o = req[r].t
    BY DEF RefreshInv, RefreshTypeOK, RefreshCreate
<1> PICK f \in Family : f = fam[o]
    BY DEF RefreshInv, RefreshTypeOK, RefreshCreate, FamiliesAreOwned
<1>1. /\ req[r].pc = "create" /\ owner[f] \in User \ gone /\ state[t] = "absent"
      /\ UNCHANGED <<owner, expired, gone, ended, escaped>>
    BY DEF RefreshCreate, UserExists, CreateRefreshToken
<1>2. /\ state[o] \notin {"absent", "live"} /\ spent[o] = 0 /\ o # t
    BY <1>1 DEF RefreshInv, FamiliesAreOwned, SuccessorIsNew
<1>3. /\ state'[t] = "live" /\ fam'[t] = f
      /\ \A x \in Token : x # t => state'[x] = state[x] /\ fam'[x] = fam[x]
      /\ spent' = [spent EXCEPT ![o] = @ + 1] /\ req' = [req EXCEPT ![r] = Idle]
    BY DEF RefreshInv, RefreshTypeOK, RefreshCreate, CreateRefreshToken, Finish
<1>4. /\ spent'[o] = 1 /\ \A x \in Token : x # o => spent'[x] = spent[x]
      /\ req'[r].pc = "idle" /\ \A s \in Req : s # r => req'[s] = req[s]
    BY <1>2, <1>3 DEF RefreshInv, RefreshTypeOK, Idle
<1>5. RefreshTypeOK'
    <2>1. state' \in [Token -> State] /\ fam' \in [Token -> Family \cup {None}]
        BY DEF RefreshInv, RefreshTypeOK, RefreshCreate, CreateRefreshToken, State
    <2>2. Idle \in Request
        BY DEF Idle, Request, Pc
    <2>3. req' \in [Req -> Request] /\ \A s \in Req : req'[s].pc # "idle" => req'[s].t \in Token
        BY <1>3, <1>4, <2>2 DEF RefreshInv, RefreshTypeOK
    <2>4. spent' \in [Token -> 0..1]
        BY <1>2, <1>3 DEF RefreshInv, RefreshTypeOK
    <2> QED
        BY <1>1, <2>1, <2>3, <2>4 DEF RefreshInv, RefreshTypeOK
<1>6. Rotates(r, f)
    BY <1>1 DEF Rotates
<1>7. /\ \A s \in Req : Rotates(s, f) => s = r
      /\ \A x \in Token : fam[x] = f => state[x] # "live"
      /\ f \notin ended \ escaped
    BY <1>6 DEF RefreshInv, OneThreadPerFamily, EndedFamilyStaysEnded, Rotating
<1>8. \A s \in Req : req[s].pc # "idle" => req[s].t \in Token /\ req[s].t # t
    BY <1>1 DEF RefreshInv, RefreshTypeOK, FamiliesAreOwned
<1>9. \A s \in Req, g \in Family : Rotates(s, g)' => Rotates(s, g) /\ g # f
    BY <1>3, <1>4, <1>7, <1>8 DEF Rotates
<1>10. FamiliesAreOwned'
    BY <1>1, <1>3, <1>4, <1>8, RefreshAssumption
       DEF RefreshInv, RefreshTypeOK, FamiliesAreOwned
<1>11. SuccessorIsNew'
    <2>1. \A s \in Req : s # r /\ req[s].pc \in {"fetch", "create"} => req[s].t # o
        BY <1>7 DEF Rotates
    <2> QED
        BY <1>1, <1>2, <1>3, <1>4, <1>8, <2>1 DEF RefreshInv, RefreshTypeOK, SuccessorIsNew
<1>12. OneThreadPerFamily'
    BY <1>3, <1>7, <1>9 DEF RefreshInv, OneThreadPerFamily, Rotating
<1>13. EndedFamilyStaysEnded'
    BY <1>1, <1>3, <1>7, <1>9 DEF RefreshInv, RefreshTypeOK, EndedFamilyStaysEnded, Rotating
<1>14. ErasedHasNoTokens'
    BY <1>1, <1>3 DEF RefreshInv, ErasedHasNoTokens, Stored
<1> QED
    BY <1>5, <1>10, <1>11, <1>12, <1>13, <1>14 DEF RefreshInv

\* Erasure, expiry and the cleanup only take rows away.
LEMMA RemovalKeeps ==
    ASSUME RefreshInv,
           \/ \E u \in User : EraseAccount(u)
           \/ \E t \in Token : Elapse(t)
           \/ Cleanup
    PROVE  RefreshInv'
<1>1. CASE \E u \in User : EraseAccount(u)
    <2> PICK u \in User : EraseAccount(u)
        BY <1>1
    <2>1. state' \in [Token -> State]
        BY DEF RefreshInv, RefreshTypeOK, EraseAccount, State
    <2>2. \A t \in Token : \/ state'[t] = state[t] /\ ~(Stored(t) /\ owner[fam[t]] = u)
                           \/ Stored(t) /\ state'[t] = "deleted"
        BY DEF EraseAccount
    <2>3. \A t \in Token : Stored(t)' => owner[fam[t]] \in User \ gone'
        BY <2>2 DEF RefreshInv, ErasedHasNoTokens, EraseAccount, Stored
    <2> QED
        BY <2>1, <2>2, <2>3, RowsGo DEF RefreshInv, RefreshTypeOK, EraseAccount
<1>2. CASE \E t \in Token : Elapse(t)
    BY <1>2, RowsGo DEF RefreshInv, RefreshTypeOK, ErasedHasNoTokens, Elapse, Stored
<1>3. CASE Cleanup
    <2>1. state' \in [Token -> State]
        BY <1>3 DEF RefreshInv, RefreshTypeOK, Cleanup, State
    <2>2. \A t \in Token : state'[t] = state[t] \/ (Stored(t) /\ state'[t] = "deleted")
        BY <1>3 DEF Cleanup, Stored
    <2>3. \A t \in Token : Stored(t)' => owner[fam[t]] \in User \ gone'
        BY <1>3, <2>2 DEF RefreshInv, ErasedHasNoTokens, Cleanup, Stored
    <2> QED
        BY <1>3, <2>1, <2>2, <2>3, RowsGo DEF RefreshInv, RefreshTypeOK, Cleanup
<1> QED BY <1>1, <1>2, <1>3

\* The statements of a refresh or a logout, up to the insert.
LEMMA RequestKeeps ==
    ASSUME RefreshInv, NEW r \in Req,
           \/ \E t \in Token : RefreshCas(r, t) \/ LogoutRead(r, t)
           \/ ReplayRead(r) \/ ReplayKill(r) \/ RefreshFetch(r) \/ RefreshFails(r)
           \/ LogoutWrite(r)
    PROVE  RefreshInv'
<1> USE DEF Go, Finish
<1>1. Idle \in Request /\ Idle.pc = "idle"
    BY DEF Idle, Request, Pc
<1>2. \A pc \in Pc, t \in Token : /\ [pc |-> pc, t |-> t] \in Request
                                 /\ [pc |-> pc, t |-> t].pc = pc
                                 /\ [pc |-> pc, t |-> t].t = t
    BY DEF Request
<1>3. req[r].pc # "idle" => /\ req[r].t \in Token
                            /\ state[req[r].t] # "absent"
                            /\ fam[req[r].t] \in Family
                            /\ owner[fam[req[r].t]] # None
    BY DEF RefreshInv, RefreshTypeOK, FamiliesAreOwned
<1>4. CASE \E t \in Token : RefreshCas(r, t)
    <2> PICK t \in Token : RefreshCas(r, t)
        BY <1>4
    <2>1. CASE state[t] = "live"
        BY <2>1, RotationStarts DEF RefreshCas, Unrevoked
    <2>2. CASE state[t] # "live"
        <3> DEFINE q == [pc |-> "replay", t |-> t]
        <3>1. q \in Request /\ q.pc = "replay" /\ q.t = t
            BY <1>2 DEF Pc
        <3>2. req' = [req EXCEPT ![r] = q] /\ state[t] # "absent"
              /\ UNCHANGED <<state, fam, owner, expired, gone, spent, ended, escaped>>
            BY <2>2 DEF RefreshCas, Unrevoked
        <3> HIDE DEF q
        <3> QED BY <3>1, <3>2, RequestMoves
    <2> QED BY <2>1, <2>2
<1>5. CASE \E t \in Token : LogoutRead(r, t)
    <2> PICK t \in Token : LogoutRead(r, t)
        BY <1>5
    <2> DEFINE q == [pc |-> "logout", t |-> t]
    <2>1. q \in Request /\ q.pc = "logout" /\ q.t = t
        BY <1>2 DEF Pc
    <2>2. req' = [req EXCEPT ![r] = q] /\ state[t] # "absent"
          /\ UNCHANGED <<state, fam, owner, expired, gone, spent, ended, escaped>>
        BY DEF LogoutRead, Stored
    <2> HIDE DEF q
    <2> QED BY <2>1, <2>2, RequestMoves
<1>6. CASE ReplayRead(r)
    <2>1. CASE state[req[r].t] = "revoked"
        <3> DEFINE q == [pc |-> "kill", t |-> req[r].t]
        <3>1. q \in Request /\ q.pc = "kill" /\ q.t = req[r].t
            BY <1>2, <1>3, <1>6 DEF Pc, ReplayRead
        <3>2. req' = [req EXCEPT ![r] = q]
              /\ UNCHANGED <<state, fam, owner, expired, gone, spent, ended, escaped>>
            BY <1>6, <2>1 DEF ReplayRead
        <3> HIDE DEF q
        <3> QED BY <1>3, <1>6, <3>1, <3>2, RequestMoves DEF ReplayRead
    <2>2. CASE state[req[r].t] # "revoked"
        BY <1>1, <1>6, <2>2, RequestMoves DEF ReplayRead
    <2> QED BY <2>1, <2>2
<1>7. CASE RefreshFetch(r)
    <2>1. CASE req' = [req EXCEPT ![r] = Idle]
        BY <1>1, <1>7, <2>1, RequestMoves DEF RefreshFetch
    <2>2. CASE req' = [req EXCEPT ![r] = [pc |-> "create", t |-> req[r].t]]
        <3> DEFINE q == [pc |-> "create", t |-> req[r].t]
        <3>1. q \in Request /\ q.pc = "create" /\ q.t = req[r].t
            BY <1>2, <1>3, <1>7 DEF Pc, RefreshFetch
        <3>2. req' = [req EXCEPT ![r] = q] /\ req[r].pc = "fetch"
              /\ UNCHANGED <<state, fam, owner, expired, gone, spent, ended, escaped>>
            BY <1>7, <2>2 DEF RefreshFetch
        <3> HIDE DEF q
        <3> QED BY <1>3, <3>1, <3>2, RequestMoves
    <2> QED BY <1>7, <2>1, <2>2 DEF RefreshFetch
<1>8. CASE RefreshFails(r)
    BY <1>1, <1>8, RequestMoves DEF RefreshFails
<1>9. CASE ReplayKill(r) \/ LogoutWrite(r)
    <2> PICK F \in SUBSET Family : F = {fam[req[r].t]}
        BY <1>3, <1>9 DEF ReplayKill, LogoutWrite
    <2>1. /\ RevokeFamilies(F) /\ req[r].pc \notin {"fetch", "create"}
          /\ req' = [req EXCEPT ![r] = Idle] /\ \A f \in F : owner[f] # None
          /\ UNCHANGED <<fam, owner, expired, gone, spent>>
        BY <1>3, <1>9 DEF ReplayKill, LogoutWrite
    <2>2. req' \in [Req -> Request]
        BY <1>1, <2>1 DEF RefreshInv, RefreshTypeOK
    <2>3. \A s \in Req :
               req'[s] = req[s] \/ (req'[s] = Idle /\ req[s].pc \notin {"fetch", "create"})
        <3>1. req'[r] = Idle /\ \A s \in Req : s # r => req'[s] = req[s]
            BY <2>1 DEF RefreshInv, RefreshTypeOK
        <3> QED BY <2>1, <3>1
    <2> QED BY <2>1, <2>2, <2>3, FamiliesEnd
<1> QED
    BY <1>4, <1>5, <1>6, <1>7, <1>8, <1>9

\* Every step of the refresh-token code keeps the invariant.
LEMMA StepRefreshInv == RefreshInv /\ [RefreshNext]_vars => RefreshInv'
<1> SUFFICES ASSUME RefreshInv, [RefreshNext]_vars PROVE RefreshInv'
    OBVIOUS
<1>1. CASE \E u \in User, t \in Token, f \in Family : Login(u, t, f) \/ PasskeyLogin(u, t, f)
    BY <1>1, LoginKeeps DEF PasskeyLogin
<1>2. CASE \E r \in Req, t \in Token : RefreshCreate(r, t)
    BY <1>2, RefreshCreateKeeps
<1>3. CASE \E r \in Req : \/ \E t \in Token : RefreshCas(r, t) \/ LogoutRead(r, t)
                          \/ ReplayRead(r) \/ ReplayKill(r) \/ RefreshFetch(r)
                          \/ RefreshFails(r) \/ LogoutWrite(r)
    BY <1>3, RequestKeeps
<1>4. CASE \E u \in User : RevokeAllUserTokens(u)
    <2> PICK u \in User : RevokeAllUserTokens(u)
        BY <1>4
    <2> PICK F \in SUBSET Family : F = {f \in Family : owner[f] = u}
        OBVIOUS
    <2>1. /\ RevokeFamilies(F) /\ req' = req /\ \A f \in F : owner[f] # None
          /\ UNCHANGED <<fam, owner, expired, gone, spent>>
        BY RefreshAssumption DEF RevokeAllUserTokens
    <2>2. req' \in [Req -> Request]
        BY <2>1 DEF RefreshInv, RefreshTypeOK
    <2> QED BY <2>1, <2>2, FamiliesEnd
<1>5. CASE \/ \E u \in User : EraseAccount(u)
           \/ \E t \in Token : Elapse(t)
           \/ Cleanup
    BY <1>5, RemovalKeeps
<1>6. CASE UNCHANGED vars
    BY <1>6 DEF vars, RefreshInv, RefreshTypeOK, FamiliesAreOwned, SuccessorIsNew,
       OneThreadPerFamily, EndedFamilyStaysEnded, ErasedHasNoTokens, Rotating, Rotates, Stored
<1> QED
    BY <1>1, <1>2, <1>3, <1>4, <1>5, <1>6
       DEF RefreshNext, RevokeSessionRead, RevokeSessionWrite, SignOutEverywhere

\* For any tokens, families, accounts and concurrent requests: a family has
\* at most one live token or one running rotation, never both, a family that
\* was revoked while no rotation ran in it has no live token again, and an
\* erased account keeps no token (rotateRefreshToken, revokeTokenFamily,
\* revokeAllUserTokens and the erasure of gdpr.ts).
THEOREM RefreshSafety ==
    RefreshSpec => [](RefreshTypeOK /\ OneThreadPerFamily /\ EndedFamilyStaysEnded
                      /\ ErasedHasNoTokens)
<1>1. RefreshInv => RefreshTypeOK /\ OneThreadPerFamily /\ EndedFamilyStaysEnded
                    /\ ErasedHasNoTokens
    BY DEF RefreshInv
<1> QED
    BY <1>1, InitRefreshInv, StepRefreshInv, PTL DEF RefreshSpec

=============================================================================
