------------------------------ MODULE MacRing ------------------------------
(***************************************************************************)
(* The MAC keys of an organization (services/mac.ts) and the MAC stored on *)
(* a QR code: who computes it (issuance and edits: services/qr-create.ts,  *)
(* routes/qrcodes.ts), who rewrites it (the cleanup worker, workers/       *)
(* index.ts) and who rejects on it (routes/verify-signatures.ts).          *)
(*                                                                         *)
(* A MAC is named by the content it covers and the key version it was made *)
(* with.  A key retires thirty days after its rotation and no request      *)
(* lives that long, so a write in flight then began after the rotation.    *)
(***************************************************************************)
EXTENDS Naturals

CONSTANTS
    Content,        \* what the canonical form of a code commits to
    Writer,         \* concurrent issuing and editing requests
    MaxVersion,     \* bound: key versions
    MaxRowWrites    \* bound: writes of the row

ASSUME RingAssumption ==
    Content # {} /\ MaxVersion \in Nat \ {0} /\ MaxRowWrites \in Nat

VARIABLES
    ring,       \* the status of each key version
    row,        \* the code: its content, its MAC, whether it is live
    writer,     \* the requests in flight
    sweep,      \* the cleanup worker
    stale       \* history: some write replaced a row it had not read

ringVars == <<ring, row, writer, sweep, stale>>

-----------------------------------------------------------------------------

Version == 1 .. MaxVersion
Mac == [content : Content, version : 0 .. MaxVersion]   \* version 0: none stored
Row == [status : {"ABSENT", "ACTIVE", "REVOKED"}, content : Content, mac : Mac,
        writes : 0 .. MaxRowWrites]

AnyContent == CHOOSE c \in Content : TRUE
NoRow == [status |-> "ABSENT", content |-> AnyContent,
          mac |-> [content |-> AnyContent, version |-> 0], writes |-> 0]
NoWriter == [pc |-> "idle", new |-> AnyContent, mac |-> NoRow.mac, read |-> NoRow, born |-> 1]
NoSweep == [pc |-> "idle", retiring |-> 0, read |-> NoRow]

RingWriter == [pc : {"idle", "sign", "write"}, new : Content, mac : Mac, read : Row, born : Version]
RingSweep == [pc : {"idle", "read", "rewrite", "count", "retire"}, retiring : 0 .. MaxVersion, read : Row]

RingTypeOK ==
    /\ ring \in [Version -> {"UNUSED", "ACTIVE", "ROTATED", "RETIRED", "PURGED"}]
    /\ row \in Row
    /\ writer \in [Writer -> RingWriter]
    /\ sweep \in RingSweep
    /\ stale \in BOOLEAN

RingInit ==
    /\ ring = [v \in Version |-> IF v = 1 THEN "ACTIVE" ELSE "UNUSED"]
    /\ row = NoRow
    /\ writer = [w \in Writer |-> NoWriter]
    /\ sweep = NoSweep
    /\ stale = FALSE

ActiveVersion == CHOOSE v \in Version : ring[v] = "ACTIVE"

\* verifyCanonical, behind the fail-closed filter of verifyRowSignatures: a
\* stored MAC must cover the row under a version that is not retired; a row
\* without a MAC is left to the signatures.
MacAccepted ==
    row.mac.version # 0 =>
        /\ row.mac.content = row.content
        /\ ring[row.mac.version] \in {"ACTIVE", "ROTATED"}

-----------------------------------------------------------------------------
(* Issuing and editing.                                                    *)

\* A request reads the row.  One that changes the content signs again; any
\* other will store the fields as it read them.
WriteRead(w, new) ==
    /\ writer[w].pc = "idle"
    /\ writer' = [writer EXCEPT ![w] =
         [pc |-> IF row.status = "ABSENT" \/ new # row.content THEN "sign" ELSE "write",
          new |-> new, mac |-> row.mac, read |-> row, born |-> ActiveVersion]]
    /\ UNCHANGED <<ring, row, sweep, stale>>

\* recomputeAndSignMac: under the active key, or no MAC when that fails.
SignMac(w) ==
    /\ writer[w].pc = "sign"
    /\ \E v \in {ActiveVersion, 0} :
         writer' = [writer EXCEPT ![w].pc = "write",
                                  ![w].mac = [content |-> writer[w].new, version |-> v]]
    /\ UNCHANGED <<ring, row, sweep, stale>>

Moved(r) == r # row

\* The row is created, or all of it is written back under its lock.
WriteRow(w) ==
    /\ writer[w].pc = "write" /\ row.writes < MaxRowWrites
    /\ row.status = "ABSENT" <=> writer[w].read.status = "ABSENT"
    /\ row' = [status |-> IF row.status = "ABSENT" THEN "ACTIVE" ELSE row.status,
               content |-> writer[w].new, mac |-> writer[w].mac, writes |-> row.writes + 1]
    /\ stale' = (stale \/ Moved(writer[w].read))
    /\ writer' = [writer EXCEPT ![w] = NoWriter]
    /\ UNCHANGED <<ring, sweep>>

WriteRefused(w) ==
    /\ writer[w].pc # "idle"
    /\ writer' = [writer EXCEPT ![w] = NoWriter]
    /\ UNCHANGED <<ring, row, sweep, stale>>

RevokeRow ==
    /\ row.status = "ACTIVE" /\ row.writes < MaxRowWrites
    /\ row' = [row EXCEPT !.status = "REVOKED", !.writes = @ + 1]
    /\ UNCHANGED <<ring, writer, sweep, stale>>

-----------------------------------------------------------------------------
(* The cleanup worker, one at a time.                                      *)

\* rotateKey: the next version becomes active; the rows are rewritten next.
RotateMac ==
    /\ sweep.pc = "idle" /\ ActiveVersion < MaxVersion
    /\ ring' = [ring EXCEPT ![ActiveVersion] = "ROTATED", ![ActiveVersion + 1] = "ACTIVE"]
    /\ sweep' = [NoSweep EXCEPT !.pc = "read"]
    /\ UNCHANGED <<row, writer, stale>>

RetireByAge(v) ==  \* mutant
    /\ sweep.pc = "idle" /\ ring[v] = "ROTATED"
    /\ \A w \in Writer : writer[w].pc # "idle" => writer[w].born > v
    /\ sweep' = [NoSweep EXCEPT !.pc = "retire", !.retiring = v]
    /\ UNCHANGED <<ring, row, writer, stale>>

\* The retirement step takes up a key whose grace window has elapsed.
RetireStart(v) ==
    /\ sweep.pc = "idle" /\ ring[v] = "ROTATED"
    /\ \A w \in Writer : writer[w].pc # "idle" => writer[w].born > v
    /\ sweep' = [NoSweep EXCEPT !.pc = "read", !.retiring = v]
    /\ UNCHANGED <<ring, row, writer, stale>>

\* After a rotation the worker goes on; a retirement counts what is left.
AfterRemac == IF sweep.retiring = 0 THEN NoSweep
              ELSE [NoSweep EXCEPT !.pc = "count", !.retiring = sweep.retiring]

\* remacOrgRows selects the live rows under another version than the active.
RemacRead ==
    /\ sweep.pc = "read"
    /\ sweep' = IF row.status = "ACTIVE" /\ row.mac.version \notin {0, ActiveVersion}
                THEN [sweep EXCEPT !.pc = "rewrite", !.read = row]
                ELSE AfterRemac
    /\ UNCHANGED <<ring, row, writer, stale>>

\* The row read does not reproduce its MAC under a key that still exists.
Mismatch(r) == ring[r.mac.version] # "PURGED" /\ r.mac.content # r.content

\* The MAC of the row as it was read is stored by id; a mismatch is left.
RemacWrite ==
    /\ sweep.pc = "rewrite" /\ row.writes < MaxRowWrites
    /\ sweep' = AfterRemac
    /\ IF Mismatch(sweep.read) THEN UNCHANGED <<row, stale>>
       ELSE /\ row' = [row EXCEPT !.writes = @ + 1,
                         !.mac = [content |-> sweep.read.content, version |-> ActiveVersion]]
            /\ stale' = (stale \/ Moved(sweep.read))
    /\ UNCHANGED <<ring, writer>>

\* A live row still references the key: it is held for another cycle.
Dependents == row.status = "ACTIVE" /\ row.mac.version = sweep.retiring

RetireCount ==
    /\ sweep.pc = "count"
    /\ sweep' = IF Dependents THEN NoSweep ELSE [sweep EXCEPT !.pc = "retire"]
    /\ UNCHANGED <<ring, row, writer, stale>>

RetireMac ==
    /\ sweep.pc = "retire"
    /\ ring' = [ring EXCEPT ![sweep.retiring] = "RETIRED"]
    /\ sweep' = NoSweep
    /\ UNCHANGED <<row, writer, stale>>

\* Seven days after its retirement the secret is deleted.
PurgeMac(v) ==
    /\ ring[v] = "RETIRED"
    /\ ring' = [ring EXCEPT ![v] = "PURGED"]
    /\ UNCHANGED <<row, writer, sweep, stale>>

\* The worker stops, or one of its statements throws and is logged.
SweepFails ==
    /\ sweep.pc # "idle"
    /\ sweep' = NoSweep
    /\ UNCHANGED <<ring, row, writer, stale>>

-----------------------------------------------------------------------------

RingNext ==
    \/ \E w \in Writer :
         \/ \E new \in Content : WriteRead(w, new)
         \/ SignMac(w) \/ WriteRow(w) \/ WriteRefused(w)
    \/ RevokeRow
    \/ RotateMac \/ RemacRead \/ RemacWrite \/ RetireCount \/ RetireMac \/ SweepFails
    \/ \E v \in Version : RetireStart(v) \/ PurgeMac(v)

RingSpec == RingInit /\ [][RingNext]_ringVars

-----------------------------------------------------------------------------
(* Properties.                                                             *)

\* As long as no write replaced a row it had not read, a live code keeps a
\* MAC the verifier accepts through every rotation, worker failure and
\* retirement (the guard of workers/index.ts, remacOrgRows in mac.ts).
UncontendedCodeVerifies == row.status = "ACTIVE" /\ ~stale => MacAccepted

-----------------------------------------------------------------------------
(* The inductive invariant.                                                *)

\* One version is active; later ones are unused, earlier ones are not.
OneActive ==
    \E a \in Version :
        \A v \in Version : (ring[v] = "ACTIVE" <=> v = a) /\ (ring[v] = "UNUSED" <=> v > a)

\* What a request is about to store: a MAC of its content under a key that is
\* still accepted and not older than the request, or the fields it read.
StoresAccepted(w) ==
    \/ /\ writer[w].mac.content = writer[w].new
       /\ writer[w].mac.version # 0 =>
            /\ writer[w].mac.version >= writer[w].born
            /\ ring[writer[w].mac.version] \in {"ACTIVE", "ROTATED"}
    \/ /\ writer[w].read.status # "ABSENT"
       /\ writer[w].new = writer[w].read.content
       /\ writer[w].mac = writer[w].read.mac

WritersAccepted ==
    \A w \in Writer :
        /\ writer[w].pc # "idle" => \A v \in Version : ring[v] = "UNUSED" => writer[w].born < v
        /\ writer[w].pc = "write" => StoresAccepted(w)

\* A key on its way out is rotated, older than every request in flight, and
\* named by no live row once the count was zero.
OnTheWayOut ==
    /\ sweep.pc \in {"count", "retire"} => sweep.retiring # 0
    /\ sweep.retiring # 0 =>
         /\ ring[sweep.retiring] = "ROTATED"
         /\ \A w \in Writer : writer[w].pc # "idle" => writer[w].born > sweep.retiring
         /\ sweep.pc = "retire" /\ row.status = "ACTIVE" /\ ~stale =>
              row.mac.version # sweep.retiring

RingInv ==
    RingTypeOK /\ OneActive /\ WritersAccepted /\ OnTheWayOut /\ UncontendedCodeVerifies
=============================================================================
