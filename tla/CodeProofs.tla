----------------------------- MODULE CodeProofs -----------------------------
(***************************************************************************)
(* A QR code after it was issued: its revisions, its scan limits, and the  *)
(* meter its verifications feed.                                           *)
(***************************************************************************)
EXTENDS QrEdits, ScanVerify, FiniteSetTheorems, SequenceTheorems, TLAPS

-----------------------------------------------------------------------------
(***************************************************************************)
(* Edits, restores, revocations and purges of one code, for any number of  *)
(* editors, destinations and writes.                                       *)
(***************************************************************************)

\* The tracked fields of a row are a snapshot.
LEMMA SnapshotTyped ==
    ASSUME NEW r \in CodeRow
    PROVE  /\ snapshot(r) \in Tracked
           /\ snapshot(r).dest = r.dest /\ snapshot(r).status = r.status
    BY DEF CodeRow, Tracked, snapshot

\* A write of the row moves updatedAt and nothing else of what it was given.
LEMMA TouchedRow ==
    ASSUME EditInv, CanWrite, NEW r \in CodeRow, r.updatedAt = code.updatedAt
    PROVE  /\ Touched(r) \in CodeRow
           /\ Touched(r).updatedAt = code.updatedAt + 1
           /\ Touched(r).dest = r.dest /\ Touched(r).status = r.status
           /\ Touched(r).flagged = r.flagged /\ Touched(r).outside = r.outside
<1>1. code.updatedAt \in 0 .. MaxWrites /\ code.updatedAt < MaxWrites /\ MaxWrites \in Nat
    BY EditAssumption DEF EditInv, EditTypeOK, CodeRow, CanWrite
<1> QED BY <1>1 DEF Touched, CodeRow

\* updateWithRevision keeps the history unbroken.
LEMMA RevisionWritten ==
    ASSUME EditInv, CanWrite, NEW kind \in {"CREATED", "UPDATED", "RESTORED", "REVOKED"},
           NEW after \in CodeRow, after.updatedAt = code.updatedAt,
           updateWithRevision(kind, after)
    PROVE  /\ code' = Touched(after)
           /\ hist' \in Seq(Revision) /\ Len(hist') <= MaxWrites + 1
           /\ RevisionPerWrite' /\ HistoryIsUnbroken'
<1>1. code' = Touched(after)
    BY DEF updateWithRevision
<1>2. /\ code' \in CodeRow /\ code'.updatedAt = code.updatedAt + 1
      /\ code'.dest = after.dest /\ code'.status = after.status
    BY <1>1, TouchedRow
<1>3. snapshot(code') = snapshot(after)
    BY <1>2 DEF snapshot
<1>4. /\ code \in CodeRow /\ hist \in Seq(Revision) /\ Len(hist) \in 1 .. code.updatedAt + 1
      /\ code.updatedAt \in Nat /\ code.updatedAt < MaxWrites /\ MaxWrites \in Nat
    BY EditAssumption DEF EditInv, EditTypeOK, RevisionPerWrite, CanWrite, CodeRow
<1>5. CASE snapshot(code) = snapshot(after)
    <2>1. hist' = hist
        BY <1>5 DEF updateWithRevision
    <2>2. HistoryIsUnbroken'
        BY <1>3, <1>5, <2>1 DEF EditInv, HistoryIsUnbroken
    <2> QED BY <1>1, <1>2, <1>4, <2>1, <2>2 DEF RevisionPerWrite
<1>6. CASE snapshot(code) # snapshot(after)
    <2>1. PICK v : v = [kind |-> kind, before |-> snapshot(code), after |-> snapshot(after)]
        OBVIOUS
    <2>2. v \in Revision /\ v.before = snapshot(code) /\ v.after = snapshot(after)
        BY <1>4, <2>1, SnapshotTyped DEF Revision
    <2>3. hist' = Append(hist, v)
        BY <1>6, <2>1 DEF updateWithRevision
    <2>4. /\ hist' \in Seq(Revision)
          /\ Len(hist') = Len(hist) + 1
          /\ \A i \in 1 .. Len(hist) : hist'[i] = hist[i]
          /\ hist'[Len(hist) + 1] = v
        BY <1>4, <2>2, <2>3, AppendProperties
    <2>5. RevisionPerWrite' /\ Len(hist') <= MaxWrites + 1
        BY <1>2, <1>4, <2>4 DEF RevisionPerWrite
    <2>6. HistoryIsUnbroken'
        <3>1. hist'[Len(hist')].after = snapshot(code')
            BY <1>3, <2>2, <2>4
        <3>2. ASSUME NEW i \in 1 .. Len(hist') - 1 PROVE hist'[i + 1].before = hist'[i].after
            <4>1. Len(hist) \in Nat /\ Len(hist) >= 1
                BY <1>4
            <4>2. CASE i = Len(hist)
                <5>1. hist'[i + 1] = v /\ hist'[i] = hist[Len(hist)]
                    BY <2>4, <4>1, <4>2
                <5>2. hist[Len(hist)].after = snapshot(code)
                    BY DEF EditInv, HistoryIsUnbroken
                <5> QED BY <2>2, <5>1, <5>2
            <4>3. CASE i # Len(hist)
                <5>1. i \in 1 .. Len(hist) - 1 /\ i + 1 \in 1 .. Len(hist) /\ i \in 1 .. Len(hist)
                    BY <2>4, <4>1, <4>3
                <5>2. hist'[i + 1] = hist[i + 1] /\ hist'[i] = hist[i]
                    BY <2>4, <5>1
                <5> QED BY <5>1, <5>2 DEF EditInv, HistoryIsUnbroken
            <4> QED BY <4>2, <4>3
        <3> QED BY <3>1, <3>2 DEF HistoryIsUnbroken
    <2> QED BY <1>1, <2>4, <2>5, <2>6
<1> QED BY <1>5, <1>6

\* An edit request moves: what it read stays dated, also when the row is
\* written.
LEMMA EditMoves ==
    ASSUME EditInv, NEW e \in Edit, NEW x \in EditState, edit' = [edit EXCEPT ![e] = x],
           x.pc = "write" => x.updatedAt = code'.updatedAt /\ x.dest = code'.dest,
           code'.updatedAt \in Nat,
           \/ code'.updatedAt > code.updatedAt
           \/ code'.updatedAt = code.updatedAt /\ code'.dest = code.dest
    PROVE  edit' \in [Edit -> EditState] /\ ReadIsDated'
<1>1. edit \in [Edit -> EditState] /\ code.updatedAt \in Nat
    BY EditAssumption DEF EditInv, EditTypeOK, CodeRow
<1>2. \A f \in Edit : edit'[f] = IF f = e THEN x ELSE edit[f]
    BY <1>1
<1>3. \A f \in Edit : edit[f].updatedAt \in Nat
    BY <1>1, EditAssumption DEF EditState
<1>4. ASSUME NEW f \in Edit, edit'[f].pc = "write"
      PROVE  /\ edit'[f].updatedAt <= code'.updatedAt
             /\ edit'[f].updatedAt = code'.updatedAt => edit'[f].dest = code'.dest
    <2>1. CASE f = e
        BY <1>2, <1>4, <2>1
    <2>2. CASE f # e
        BY <1>1, <1>2, <1>3, <1>4, <2>2 DEF EditInv, ReadIsDated
    <2> QED BY <2>1, <2>2
<1> QED BY <1>1, <1>4 DEF ReadIsDated

\* The edits stand still while the row is written.
LEMMA EditsStand ==
    ASSUME EditInv, edit' = edit, code'.updatedAt \in Nat,
           \/ code'.updatedAt > code.updatedAt
           \/ code'.updatedAt = code.updatedAt /\ code'.dest = code.dest
    PROVE  edit' \in [Edit -> EditState] /\ ReadIsDated'
<1>1. edit \in [Edit -> EditState] /\ code.updatedAt \in Nat
    BY EditAssumption DEF EditInv, EditTypeOK, CodeRow
<1>2. \A f \in Edit : edit[f].updatedAt \in Nat
    BY <1>1, EditAssumption DEF EditState
<1> QED BY <1>1, <1>2 DEF EditInv, ReadIsDated

\* A request that ended.
LEMMA IdleEditTyped ==
    ASSUME EditInv
    PROVE  IdleEdit \in EditState /\ IdleEdit.pc = "idle"
<1>1. code.dest \in Dest /\ MaxWrites \in Nat
    BY EditAssumption DEF EditInv, EditTypeOK, CodeRow
<1>2. (CHOOSE d \in Dest : TRUE) \in Dest
    BY <1>1
<1> QED BY <1>1, <1>2 DEF IdleEdit, EditState

\* A step that leaves the row and its history alone.
LEMMA ReadStep ==
    ASSUME EditInv, UNCHANGED <<code, hist, allow, raced>>,
           listed' \in SUBSET Dest, screen' \in Dest \cup {Keep}, flaggedFor' \in SUBSET Dest,
           \/ edit' = edit
           \/ \E e \in Edit, x \in EditState :
                /\ edit' = [edit EXCEPT ![e] = x]
                /\ x.pc = "write" => x.updatedAt = code.updatedAt /\ x.dest = code.dest
    PROVE  EditInv'
<1>1. code.updatedAt \in Nat
    BY EditAssumption DEF EditInv, EditTypeOK, CodeRow
<1>2. edit' \in [Edit -> EditState] /\ ReadIsDated'
    BY <1>1, EditMoves, EditsStand
<1> QED BY <1>2 DEF EditInv, EditTypeOK, RevisionPerWrite, HistoryIsUnbroken, UncontendedMarkIsTrue,
           snapshot

\* The edits, restores and revocations up to their write.
LEMMA RequestReads ==
    ASSUME EditInv, NEW e \in Edit,
           \/ \E want \in Dest \cup {Keep} : Patch(e, want)
           \/ \E i \in DOMAIN hist : RestoreRead(e, i)
           \/ Restore(e) \/ EditRefused(e) \/ RevokeRead(e)
    PROVE  EditInv'
<1>1. /\ edit \in [Edit -> EditState] /\ edit[e] \in EditState /\ code \in CodeRow
      /\ hist \in Seq(Revision) /\ listed \in SUBSET Dest /\ screen \in Dest \cup {Keep}
      /\ flaggedFor \in SUBSET Dest
    BY DEF EditInv, EditTypeOK
<1>2. ASSUME NEW kind \in {"UPDATED", "RESTORED"}, NEW want \in Dest \cup {Keep},
             applyUpdate(e, kind, want)
      PROVE  EditInv'
    <2>1. PICK x : x = [pc |-> "write", kind |-> kind,
                        want |-> IF want \notin {Keep, code.dest} THEN want ELSE Keep,
                        clear |-> (want \notin {Keep, code.dest}) /\ code.flagged, dest |-> code.dest,
                        updatedAt |-> code.updatedAt]
        OBVIOUS
    <2>2. x \in EditState /\ x.updatedAt = code.updatedAt /\ x.dest = code.dest
        BY <1>1, <2>1 DEF EditState, CodeRow
    <2>3. /\ edit' = [edit EXCEPT ![e] = x]
          /\ UNCHANGED <<code, hist, listed, allow, screen, raced, flaggedFor>>
        BY <1>2, <2>1 DEF applyUpdate
    <2> QED BY <1>1, <2>2, <2>3, ReadStep
<1>3. ASSUME NEW want \in Dest \cup {Keep}, Patch(e, want) PROVE EditInv'
    BY <1>2, <1>3 DEF Patch
<1>4. CASE Restore(e)
    BY <1>1, <1>2, <1>4 DEF Restore, EditState
<1>5. ASSUME NEW i \in DOMAIN hist, RestoreRead(e, i) PROVE EditInv'
    <2>1. hist[i].after.dest \in Dest
        <3>1. hist[i] \in Revision
            BY <1>1
        <3> QED BY <3>1 DEF Revision, Tracked
    <2>2. PICK x : x = [edit[e] EXCEPT !.pc = "restore", !.want = hist[i].after.dest]
        OBVIOUS
    <2>3. x \in EditState /\ x.pc = "restore"
        BY <1>1, <2>1, <2>2 DEF EditState
    <2>4. edit' = [edit EXCEPT ![e] = x] /\ UNCHANGED <<code, hist, listed, allow, screen, raced, flaggedFor>>
        BY <1>1, <1>5, <2>2 DEF RestoreRead
    <2> QED BY <1>1, <2>3, <2>4, ReadStep
<1>6. CASE EditRefused(e)
    BY <1>1, <1>6, IdleEditTyped, ReadStep DEF EditRefused
<1>7. CASE RevokeRead(e)
    <2>1. PICK x : x = [edit[e] EXCEPT !.pc = "revoke"]
        OBVIOUS
    <2>2. x \in EditState /\ x.pc = "revoke"
        BY <1>1, <2>1 DEF EditState
    <2>3. edit' = [edit EXCEPT ![e] = x] /\ UNCHANGED <<code, hist, listed, allow, screen, raced, flaggedFor>>
        BY <1>1, <1>7, <2>1 DEF RevokeRead
    <2> QED BY <1>1, <2>2, <2>3, ReadStep
<1> QED BY <1>3, <1>4, <1>5, <1>6, <1>7

\* persistUpdate: only an edit that finds the row as it read it is not a race.
LEMMA EditWriteStep ==
    ASSUME EditInv, NEW e \in Edit, EditWrite(e)
    PROVE  EditInv'
<1>1. /\ edit \in [Edit -> EditState] /\ edit[e] \in EditState /\ code \in CodeRow
      /\ edit[e].pc = "write" /\ edit[e].kind \in {"UPDATED", "RESTORED"} /\ CanWrite
    BY DEF EditInv, EditTypeOK, EditWrite, EditState
<1>2. PICK d : d = IF edit[e].want = Keep THEN edit[e].dest ELSE edit[e].want
    OBVIOUS
<1>3. d \in Dest
    BY <1>1, <1>2 DEF EditState
<1>4. PICK after : after = [code EXCEPT !.dest = d, !.flagged = @ /\ ~edit[e].clear,
                                        !.outside = @ /\ edit[e].want = Keep]
    OBVIOUS
<1>5. /\ after \in CodeRow /\ after.updatedAt = code.updatedAt /\ after.dest = d
      /\ after.status = code.status /\ after.outside = (code.outside /\ edit[e].want = Keep)
    BY <1>1, <1>3, <1>4 DEF CodeRow
<1>6. updateWithRevision(edit[e].kind, after)
    BY <1>2, <1>4 DEF EditWrite
<1>7. /\ code' = Touched(after)
      /\ hist' \in Seq(Revision) /\ Len(hist') <= MaxWrites + 1
      /\ RevisionPerWrite' /\ HistoryIsUnbroken'
    BY <1>1, <1>5, <1>6, RevisionWritten
<1>8. /\ code' \in CodeRow /\ code'.updatedAt = code.updatedAt + 1 /\ code'.dest = d
      /\ code'.status = code.status /\ code'.outside = (code.outside /\ edit[e].want = Keep)
    BY <1>1, <1>5, <1>7, TouchedRow
<1>9. edit' \in [Edit -> EditState] /\ ReadIsDated'
    <2>1. code.updatedAt \in Nat
        BY <1>1, EditAssumption DEF CodeRow
    <2>2. edit' = [edit EXCEPT ![e] = IdleEdit]
        BY DEF EditWrite
    <2>3. code'.updatedAt \in Nat /\ code'.updatedAt > code.updatedAt
        BY <1>8, <2>1
    <2> QED BY <2>2, <2>3, IdleEditTyped, EditMoves
<1>10. raced' \in BOOLEAN /\ EditTypeOK'
    <2>1. raced' \in BOOLEAN
        BY DEF EditWrite, EditInv, EditTypeOK
    <2> QED BY <1>7, <1>8, <1>9, <2>1 DEF EditWrite, EditInv, EditTypeOK
<1>11. UncontendedMarkIsTrue'
    <2> SUFFICES ASSUME ~raced', code'.status = "ACTIVE" PROVE code'.outside = (code'.dest \notin allow')
        BY DEF UncontendedMarkIsTrue
    <2>1. ~raced /\ code.updatedAt = edit[e].updatedAt /\ allow' = allow /\ PolicyAllows(e)
        BY DEF EditWrite
    <2>2. code.dest = edit[e].dest
        BY <1>1, <2>1 DEF EditInv, ReadIsDated
    <2>3. code.outside = (code.dest \notin allow)
        BY <1>8, <2>1 DEF EditInv, UncontendedMarkIsTrue
    <2>4. CASE edit[e].want = Keep
        <3>1. code'.dest = code.dest
            BY <1>2, <1>8, <2>2, <2>4
        <3>2. code'.outside = code.outside
            BY <1>1, <1>8, <2>4 DEF CodeRow
        <3> QED BY <2>1, <2>3, <3>1, <3>2
    <2>5. CASE edit[e].want # Keep
        <3>1. code'.dest \in allow'
            BY <1>2, <1>8, <2>1, <2>5 DEF PolicyAllows
        <3>2. code'.outside = FALSE
            BY <1>8, <2>5
        <3> QED BY <3>1, <3>2
    <2> QED BY <2>4, <2>5
<1> QED BY <1>7, <1>9, <1>10, <1>11 DEF EditInv

\* Revoking changes the status, and a revoked code carries no promise about
\* its mark.
LEMMA RevokeStep ==
    ASSUME EditInv, revokeWithRevisions \/ \E e \in Edit : RevokeWrite(e)
    PROVE  EditInv'
<1>1. code \in CodeRow /\ CanWrite /\ edit \in [Edit -> EditState]
    BY DEF EditInv, EditTypeOK, revokeWithRevisions, RevokeWrite
<1>2. PICK after : after = [code EXCEPT !.status = "REVOKED"]
    OBVIOUS
<1>3. /\ after \in CodeRow /\ after.updatedAt = code.updatedAt
      /\ after.status = "REVOKED"
    BY <1>1, <1>2 DEF CodeRow
<1>4. updateWithRevision("REVOKED", after) /\ UNCHANGED <<listed, allow, screen, raced, flaggedFor>>
    BY <1>2 DEF revokeWithRevisions, RevokeWrite
<1>5. /\ code' = Touched(after)
      /\ hist' \in Seq(Revision) /\ Len(hist') <= MaxWrites + 1
      /\ RevisionPerWrite' /\ HistoryIsUnbroken'
    BY <1>1, <1>3, <1>4, RevisionWritten
<1>6. code' \in CodeRow /\ code'.updatedAt = code.updatedAt + 1 /\ code'.status = "REVOKED"
    BY <1>1, <1>3, <1>5, TouchedRow
<1>7. edit' \in [Edit -> EditState] /\ ReadIsDated'
    <2>1. code.updatedAt \in Nat
        BY <1>1, EditAssumption DEF CodeRow
    <2>2. edit' = edit \/ \E e \in Edit : edit' = [edit EXCEPT ![e] = IdleEdit]
        BY DEF revokeWithRevisions, RevokeWrite
    <2> QED BY <1>6, <2>1, <2>2, IdleEditTyped, EditMoves, EditsStand
<1> QED BY <1>4, <1>5, <1>6, <1>7 DEF EditInv, EditTypeOK, UncontendedMarkIsTrue

\* The oldest revision goes; what is left is as unbroken as it was.
LEMMA PurgeStep ==
    ASSUME EditInv, purgeExpiredRevisions
    PROVE  EditInv'
<1>1. /\ hist \in Seq(Revision) /\ Len(hist) \in 1 .. code.updatedAt + 1 /\ Len(hist) > 1
      /\ code.updatedAt \in Nat /\ MaxWrites \in Nat /\ Len(hist) <= MaxWrites + 1
    BY EditAssumption DEF EditInv, EditTypeOK, RevisionPerWrite, CodeRow, purgeExpiredRevisions
<1>2. /\ hist' \in Seq(Revision) /\ Len(hist') = Len(hist) - 1
      /\ \A i \in 1 .. Len(hist') : hist'[i] = hist[i + 1]
    <2>1. hist # << >>
        BY <1>1
    <2> QED BY <1>1, <2>1, HeadTailProperties DEF purgeExpiredRevisions
<1>3. HistoryIsUnbroken'
    <2>1. hist'[Len(hist')] = hist[Len(hist)]
        BY <1>1, <1>2
    <2>2. \A i \in 1 .. Len(hist') - 1 : hist'[i + 1].before = hist'[i].after
        <3> TAKE i \in 1 .. Len(hist') - 1
        <3>1. i + 1 \in 1 .. Len(hist) - 1 /\ i \in 1 .. Len(hist') /\ i + 1 \in 1 .. Len(hist')
            BY <1>1, <1>2
        <3>2. hist'[i] = hist[i + 1] /\ hist'[i + 1] = hist[(i + 1) + 1]
            BY <1>2, <3>1
        <3> QED BY <3>1, <3>2 DEF EditInv, HistoryIsUnbroken
    <2> QED BY <2>1, <2>2 DEF EditInv, HistoryIsUnbroken, purgeExpiredRevisions, snapshot
<1>4. EditTypeOK' /\ RevisionPerWrite'
    BY <1>1, <1>2 DEF EditInv, EditTypeOK, RevisionPerWrite, purgeExpiredRevisions
<1> QED BY <1>3, <1>4 DEF EditInv, ReadIsDated, UncontendedMarkIsTrue, purgeExpiredRevisions

\* A write that no revision records leaves the tracked fields alone.
LEMMA QuietWrite ==
    ASSUME EditInv, code' \in CodeRow, UNCHANGED <<hist, listed, edit, raced>>,
           code'.dest = code.dest, code'.status = code.status,
           code'.updatedAt \in {code.updatedAt, code.updatedAt + 1},
           screen' \in Dest \cup {Keep}, flaggedFor' \in SUBSET Dest, allow' \in SUBSET Dest,
           \/ allow' = allow /\ code'.outside = code.outside
           \/ code'.status = "ACTIVE" => code'.outside = (code'.dest \notin allow')
    PROVE  EditInv'
<1>1. code.updatedAt \in Nat
    BY EditAssumption DEF EditInv, EditTypeOK, CodeRow
<1>2. edit' \in [Edit -> EditState] /\ ReadIsDated'
    BY <1>1, EditsStand
<1>3. EditTypeOK' /\ RevisionPerWrite'
    BY <1>1, <1>2 DEF EditInv, EditTypeOK, RevisionPerWrite
<1>4. HistoryIsUnbroken'
    BY DEF EditInv, HistoryIsUnbroken, snapshot
<1>5. UncontendedMarkIsTrue'
    BY DEF EditInv, UncontendedMarkIsTrue
<1> QED BY <1>2, <1>3, <1>4, <1>5 DEF EditInv

\* Screening and policy.
LEMMA ScreenStep ==
    ASSUME EditInv,
           \/ (\E d \in Dest : ListDangerous(d)) \/ ScreenRead \/ flagQrCode \/ ClearFlag
           \/ (\E list \in SUBSET Dest : updatePolicy(list))
    PROVE  EditInv'
<1>1. /\ code \in CodeRow /\ code.dest \in Dest /\ code.updatedAt \in Nat
      /\ listed \in SUBSET Dest /\ screen \in Dest \cup {Keep}
      /\ flaggedFor \in SUBSET Dest /\ allow \in SUBSET Dest
    BY EditAssumption DEF EditInv, EditTypeOK, CodeRow
<1>2. ASSUME NEW d \in Dest, ListDangerous(d) PROVE EditInv'
    BY <1>1, <1>2, ReadStep DEF ListDangerous
<1>3. CASE ScreenRead
    BY <1>1, <1>3, ReadStep DEF ScreenRead
<1>4. ASSUME NEW f \in BOOLEAN, CanWrite, code' = Touched([code EXCEPT !.flagged = f]),
             UNCHANGED <<hist, listed, allow, edit, raced>>,
             screen' \in Dest \cup {Keep}, flaggedFor' \in SUBSET Dest
      PROVE  EditInv'
    <2>1. PICK r : r = [code EXCEPT !.flagged = f]
        OBVIOUS
    <2>2. /\ r \in CodeRow /\ r.updatedAt = code.updatedAt /\ r.dest = code.dest
          /\ r.status = code.status /\ r.outside = code.outside
        BY <1>1, <2>1 DEF CodeRow
    <2>3. /\ code' \in CodeRow /\ code'.updatedAt = code.updatedAt + 1 /\ code'.dest = code.dest
          /\ code'.status = code.status /\ code'.outside = code.outside
        BY <1>4, <2>1, <2>2, TouchedRow
    <2> QED BY <1>1, <1>4, <2>3, QuietWrite
<1>5. CASE flagQrCode
    <2>1. flaggedFor' \in SUBSET Dest /\ screen' \in Dest \cup {Keep} /\ CanWrite
          /\ UNCHANGED <<hist, listed, allow, edit, raced>>
        BY <1>1, <1>5 DEF flagQrCode
    <2>2. CASE code' = code
        BY <1>1, <2>1, <2>2, QuietWrite
    <2>3. CASE code' = Touched([code EXCEPT !.flagged = TRUE])
        BY <1>4, <2>1, <2>3
    <2> QED BY <1>5, <2>2, <2>3 DEF flagQrCode
<1>6. CASE ClearFlag
    <2>1. flaggedFor' \in SUBSET Dest /\ screen' \in Dest \cup {Keep} /\ CanWrite
          /\ UNCHANGED <<hist, listed, allow, edit, raced>>
        BY <1>1, <1>6 DEF ClearFlag
    <2> QED BY <1>4, <1>6, <2>1 DEF ClearFlag
<1>7. ASSUME NEW list \in SUBSET Dest, updatePolicy(list) PROVE EditInv'
    <2>1. PICK o \in BOOLEAN : o = (code.status # "REVOKED" /\ code.dest \notin list)
        OBVIOUS
    <2>2. code' = [code EXCEPT !.outside = o]
        BY <1>7, <2>1 DEF updatePolicy
    <2>3. /\ code' \in CodeRow /\ code'.updatedAt = code.updatedAt /\ code'.dest = code.dest
          /\ code'.status = code.status /\ code'.outside = o
        BY <1>1, <2>2 DEF CodeRow
    <2>4. allow' = list /\ UNCHANGED <<hist, listed, edit, screen, raced, flaggedFor>>
        BY <1>7 DEF updatePolicy
    <2>5. code'.status = "ACTIVE" => code'.outside = (code'.dest \notin allow')
        BY <2>1, <2>3, <2>4
    <2> QED BY <1>1, <2>3, <2>4, <2>5, QuietWrite
<1> QED BY <1>2, <1>3, <1>5, <1>6, <1>7

\* The inductive step.
LEMMA EditStep == EditInv /\ [EditNext]_editVars => EditInv'
<1> SUFFICES ASSUME EditInv, [EditNext]_editVars PROVE EditInv'
    OBVIOUS
<1>1. CASE UNCHANGED editVars
    BY <1>1 DEF editVars, EditInv, EditTypeOK, RevisionPerWrite, ReadIsDated, HistoryIsUnbroken,
                UncontendedMarkIsTrue, snapshot
<1>2. CASE EditNext
    BY <1>2, RequestReads, EditWriteStep, RevokeStep, PurgeStep, ScreenStep DEF EditNext
<1> QED BY <1>1, <1>2

\* A new code has one revision, which ends at the row.
LEMMA EditStart == EditInit => EditInv
<1> SUFFICES ASSUME EditInit PROVE EditInv
    OBVIOUS
<1>1. PICK d \in Dest : NewCode(d)
    BY DEF EditInit
<1>2. /\ code = [dest |-> d, status |-> "ACTIVE", flagged |-> FALSE, outside |-> FALSE, updatedAt |-> 0]
      /\ hist = <<[kind |-> "CREATED", before |-> snapshot(code), after |-> snapshot(code)]>>
    BY <1>1 DEF NewCode
<1>3. code \in CodeRow /\ code.updatedAt = 0 /\ MaxWrites \in Nat
    BY <1>2, EditAssumption DEF CodeRow
<1>4. PICK v : v = [kind |-> "CREATED", before |-> snapshot(code), after |-> snapshot(code)]
    OBVIOUS
<1>5. v \in Revision /\ v.after = snapshot(code)
    BY <1>3, <1>4, SnapshotTyped DEF Revision
<1>6. hist \in Seq(Revision) /\ Len(hist) = 1 /\ hist[1] = v
    BY <1>2, <1>4, <1>5
<1>7. IdleEdit \in EditState /\ IdleEdit.pc = "idle"
    <2>1. (CHOOSE c \in Dest : TRUE) \in Dest
        OBVIOUS
    <2> QED BY <1>3, <2>1 DEF IdleEdit, EditState
<1>8. EditTypeOK
    <2>1. edit \in [Edit -> EditState] /\ listed \in SUBSET Dest /\ allow \in SUBSET Dest
        BY <1>7 DEF EditInit
    <2>2. screen \in Dest \cup {Keep} /\ flaggedFor \in SUBSET Dest /\ raced \in BOOLEAN
        BY DEF EditInit
    <2>3. Len(hist) <= MaxWrites + 1
        BY <1>3, <1>6
    <2> QED BY <1>3, <1>6, <2>1, <2>2, <2>3 DEF EditTypeOK
<1>9. RevisionPerWrite /\ HistoryIsUnbroken
    BY <1>3, <1>5, <1>6 DEF RevisionPerWrite, HistoryIsUnbroken
<1>10. ReadIsDated
    BY <1>7 DEF EditInit, ReadIsDated
<1>11. UncontendedMarkIsTrue
    BY <1>2 DEF EditInit, UncontendedMarkIsTrue
<1> QED BY <1>8, <1>9, <1>10, <1>11 DEF EditInv

\* For any destinations and any number of concurrent edits, restores,
\* revocations, screenings and retention runs, the edit history of a code is
\* an unbroken chain that ends at the stored row.
THEOREM HistoryUnbroken == EditSpec => []HistoryIsUnbroken
<1>1. EditInv => HistoryIsUnbroken
    BY DEF EditInv
<1> QED BY <1>1, EditStart, EditStep, PTL DEF EditSpec

\* Until an edit replaces a row it had not read, the mark of a live code says
\* whether its destination is outside the enforced allowlist.
THEOREM MarkIsTrue == EditSpec => []UncontendedMarkIsTrue
<1>1. EditInv => UncontendedMarkIsTrue
    BY DEF EditInv
<1> QED BY <1>1, EditStart, EditStep, PTL DEF EditSpec

\* A restore is written over the destination it was decided on, or not at all.
THEOREM RestoreIsCurrent == EditSpec => RestoreReplacesWhatItRead
<1>1. ASSUME EditInv, [EditNext]_editVars, NEW e \in Edit, edit[e].pc = "write",
             edit[e].kind = "RESTORED", code' # code, edit'[e] # edit[e]
      PROVE  code.dest = edit[e].dest /\ code.status = "ACTIVE"
    <2>1. edit \in [Edit -> EditState] /\ code \in CodeRow
        BY <1>1 DEF EditInv, EditTypeOK
    <2>2. EditWrite(e)
        BY <1>1, <2>1 DEF editVars, EditNext, Patch, Restore, applyUpdate, RestoreRead, EditRefused,
             EditWrite, RevokeRead, RevokeWrite, revokeWithRevisions, purgeExpiredRevisions,
             ListDangerous, ScreenRead, flagQrCode, ClearFlag, updatePolicy
    <2>3. code.status # "REVOKED" /\ code.updatedAt = edit[e].updatedAt
        BY <1>1, <2>2 DEF EditWrite, assertRestorable
    <2> QED BY <1>1, <2>1, <2>3 DEF EditInv, ReadIsDated, CodeRow
<1>2. EditInv /\ [EditNext]_editVars =>
        [\A e \in Edit :
           edit[e].pc = "write" /\ edit[e].kind = "RESTORED" /\ code' # code /\ edit'[e] # edit[e]
             => code.dest = edit[e].dest /\ code.status = "ACTIVE"]_editVars
    BY <1>1
<1> QED BY <1>2, EditStart, EditStep, PTL DEF EditSpec, RestoreReplacesWhatItRead

-----------------------------------------------------------------------------
(***************************************************************************)
(* The allowance e-mail of the verification meter, for any number of       *)
(* visits.                                                                 *)
(***************************************************************************)

\* A step of one visit moves that visit alone, and no device changes.
LEMMA VisitMoves ==
    ASSUME visit \in [Visit -> VisitRun], NEW v \in Visit, NEW to \in VisitPc, VisitGoto(v, to)
    PROVE  /\ visit' \in [Visit -> VisitRun]
           /\ visit'[v].pc = to
           /\ \A w \in Visit : w # v => visit'[w] = visit[w]
           /\ \A d : From(d)' = From(d)
<1>1. PICK x : x = [visit[v] EXCEPT !.pc = to]
    OBVIOUS
<1>2. visit[v] \in VisitRun /\ x \in VisitRun /\ x.pc = to /\ x.device = visit[v].device
    BY <1>1 DEF VisitRun
<1>3. visit' = [visit EXCEPT ![v] = x]
    BY <1>1 DEF VisitGoto
<1>4. \A w \in Visit : visit'[w] = IF w = v THEN x ELSE visit[w]
    BY <1>3
<1>5. \A w \in Visit : visit'[w].device = visit[w].device
    BY <1>2, <1>4
<1> QED BY <1>2, <1>3, <1>4, <1>5 DEF From

\* Steps that leave the meter alone and move at most one visit, which has no
\* e-mail to send.
LEMMA MeterStays ==
    ASSUME AlertInv, UNCHANGED meterVars, visit' \in [Visit -> VisitRun],
           \A v \in Visit : visit'[v] = visit[v] \/ visit[v].pc # "shown"
    PROVE  AlertInv'
<1>1. UNCHANGED <<meter, alert, mailed, dropped>>
    BY DEF meterVars
<1>2. \A n \in Allowance : Alerting(n)' = Alerting(n)
    BY <1>1 DEF Alerting
<1>3. AlertedAtMostOnce'
    BY <1>1, <1>2 DEF AlertInv, AlertedAtMostOnce
<1> QED BY <1>1, <1>3 DEF AlertInv

\* The increment: the count it gets is nobody else's, so the e-mail for it
\* was neither sent nor lost before.
LEMMA IncrementStep ==
    ASSUME AlertInv, NEW v \in Visit, Increment(v)
    PROVE  AlertInv'
<1>0. /\ meter \in Nat /\ mailed \in [Allowance -> Nat] /\ Allowance \subseteq Nat \ {0}
      /\ dropped \subseteq Allowance /\ alert \in [Visit -> SUBSET Allowance]
      /\ visit \in [Visit -> VisitRun]
    BY ScanAssumption DEF AlertInv
<1>1. visit[v].pc = "meter" /\ mailed' = mailed /\ VisitGoto(v, "shown")
    BY DEF Increment
<1>2. alert[v] = {}
    BY <1>1 DEF AlertInv
<1>3. /\ visit' \in [Visit -> VisitRun] /\ visit'[v].pc = "shown"
      /\ \A w \in Visit : w # v => visit'[w] = visit[w]
    BY <1>0, <1>1, VisitMoves DEF VisitPc
<1>4. PICK c \in SUBSET Allowance : c = {n \in Allowance : meter + 1 = n}
    OBVIOUS
<1>5. CASE UNCHANGED <<meter, alert, dropped>>
    BY <1>1, <1>3, <1>5, MeterStays DEF meterVars
<1>6. \A n \in Allowance : /\ n \in c <=> n = meter + 1
                           /\ n \in c => ~(meter >= n) /\ meter + 1 >= n
                           /\ n \notin c => (meter + 1 >= n <=> meter >= n)
    BY <1>0, <1>4
<1>7. \A n \in c : mailed[n] = 0 /\ Alerting(n) = {} /\ n \notin dropped
    BY <1>6 DEF AlertInv, AlertedAtMostOnce
<1>8. CASE meter' = meter + 1 /\ alert' = [alert EXCEPT ![v] = c] /\ dropped' = dropped
    <2>1. /\ alert' \in [Visit -> SUBSET Allowance] /\ alert'[v] = c
          /\ \A w \in Visit : w # v => alert'[w] = alert[w]
        BY <1>0, <1>8
    <2>2. \A n \in Allowance : n \notin c => Alerting(n)' = Alerting(n)
        BY <1>2, <2>1 DEF Alerting
    <2>3. \A n \in c : Alerting(n)' = {v}
        BY <1>7, <2>1 DEF Alerting
    <2>4. AlertedAtMostOnce'
        <3> SUFFICES ASSUME NEW n \in Allowance
                     PROVE /\ mailed'[n] \in {0, 1}
                           /\ mailed'[n] = 1 => Alerting(n)' = {} /\ n \notin dropped'
                           /\ Alerting(n)' # {} => n \notin dropped' /\ \E w \in Visit : Alerting(n)' = {w}
                           /\ meter' >= n <=> mailed'[n] = 1 \/ Alerting(n)' # {} \/ n \in dropped'
            BY DEF AlertedAtMostOnce
        <3>1. CASE n \in c
            BY <1>1, <1>6, <1>7, <1>8, <2>3, <3>1
        <3>2. CASE n \notin c
            BY <1>1, <1>6, <1>8, <2>2, <3>2 DEF AlertInv, AlertedAtMostOnce
        <3> QED BY <3>1, <3>2
    <2> QED BY <1>0, <1>1, <1>3, <1>8, <2>1, <2>4 DEF AlertInv
<1>9. CASE meter' = meter + 1 /\ dropped' = dropped \cup c /\ alert' = alert
    <2>1. \A n \in Allowance : Alerting(n)' = Alerting(n)
        BY <1>9 DEF Alerting
    <2>2. AlertedAtMostOnce'
        <3> SUFFICES ASSUME NEW n \in Allowance
                     PROVE /\ mailed'[n] \in {0, 1}
                           /\ mailed'[n] = 1 => Alerting(n)' = {} /\ n \notin dropped'
                           /\ Alerting(n)' # {} => n \notin dropped' /\ \E w \in Visit : Alerting(n)' = {w}
                           /\ meter' >= n <=> mailed'[n] = 1 \/ Alerting(n)' # {} \/ n \in dropped'
            BY DEF AlertedAtMostOnce
        <3>1. CASE n \in c
            BY <1>1, <1>6, <1>7, <1>9, <2>1, <3>1
        <3>2. CASE n \notin c
            BY <1>1, <1>6, <1>9, <2>1, <3>2 DEF AlertInv, AlertedAtMostOnce
        <3> QED BY <3>1, <3>2
    <2> QED BY <1>0, <1>1, <1>3, <1>9, <2>2 DEF AlertInv
<1>10. crossedThreshold(meter + 1) = c
    BY <1>4 DEF crossedThreshold
<1> QED BY <1>5, <1>8, <1>9, <1>10 DEF Increment

\* The e-mail is sent, or lost: its visit has none to send any more.
LEMMA NotifyStep ==
    ASSUME AlertInv, NEW v \in Visit, SendAlert(v) \/ AlertFails(v)
    PROVE  AlertInv'
<1>0. /\ meter \in Nat /\ mailed \in [Allowance -> Nat]
      /\ dropped \subseteq Allowance /\ alert \in [Visit -> SUBSET Allowance]
      /\ alert' = [alert EXCEPT ![v] = {}] /\ UNCHANGED <<meter, visit>>
    BY DEF AlertInv, SendAlert, AlertFails
<1>1. /\ alert' \in [Visit -> SUBSET Allowance] /\ alert'[v] = {}
      /\ \A w \in Visit : w # v => alert'[w] = alert[w]
    BY <1>0
<1>2. \A n \in Allowance :
         /\ n \in alert[v] => Alerting(n) = {v}
         /\ n \in alert[v] => mailed[n] = 0 /\ n \notin dropped
         /\ Alerting(n)' = IF n \in alert[v] THEN {} ELSE Alerting(n)
    <2> SUFFICES ASSUME NEW n \in Allowance
                 PROVE  /\ n \in alert[v] => Alerting(n) = {v}
                        /\ n \in alert[v] => mailed[n] = 0 /\ n \notin dropped
                        /\ Alerting(n)' = IF n \in alert[v] THEN {} ELSE Alerting(n)
        OBVIOUS
    <2>1. CASE n \in alert[v]
        <3>1. v \in Alerting(n)
            BY <2>1 DEF Alerting
        <3>2. Alerting(n) = {v} /\ mailed[n] = 0 /\ n \notin dropped
            BY <3>1 DEF AlertInv, AlertedAtMostOnce
        <3>3. \A w \in Visit : n \in alert[w] => w = v
            BY <3>2 DEF Alerting
        <3> QED BY <1>1, <2>1, <3>2, <3>3 DEF Alerting
    <2>2. CASE n \notin alert[v]
        BY <1>1, <2>2 DEF Alerting
    <2> QED BY <2>1, <2>2
<1>3. CASE SendAlert(v)
    <2>1. /\ mailed' \in [Allowance -> Nat] /\ dropped' = dropped
          /\ \A n \in Allowance : mailed'[n] = IF n \in alert[v] THEN mailed[n] + 1 ELSE mailed[n]
        BY <1>0, <1>3 DEF SendAlert
    <2>2. AlertedAtMostOnce'
        BY <1>0, <1>2, <2>1 DEF AlertInv, AlertedAtMostOnce
    <2> QED BY <1>0, <1>1, <2>1, <2>2 DEF AlertInv
<1>4. CASE AlertFails(v)
    <2>1. dropped' = dropped \cup alert[v] /\ mailed' = mailed
        BY <1>4 DEF AlertFails
    <2>2. AlertedAtMostOnce'
        BY <1>0, <1>2, <2>1 DEF AlertInv, AlertedAtMostOnce
    <2> QED BY <1>0, <1>1, <2>1, <2>2 DEF AlertInv
<1> QED BY <1>3, <1>4

\* Every step keeps the invariant of the e-mails.
LEMMA AlertStep == AlertInv /\ [ScanNext]_scanVars => AlertInv'
<1> SUFFICES ASSUME AlertInv, [ScanNext]_scanVars PROVE AlertInv'
    OBVIOUS
<1>0. visit \in [Visit -> VisitRun]
    BY DEF AlertInv
<1>1. ASSUME NEW v \in Visit, VerifyRead(v) \/ CountTotal(v) \/ CountDevice(v) \/ VerifyAnswer(v)
      PROVE  AlertInv'
    <2>1. /\ visit[v].pc # "shown" /\ UNCHANGED meterVars
          /\ \E to \in VisitPc : VisitGoto(v, to)
        BY <1>1 DEF VerifyRead, CountTotal, CountDevice, VerifyAnswer, VisitPc
    <2> QED BY <1>0, <2>1, VisitMoves, MeterStays
<1>2. CASE UNCHANGED <<visit, meterVars>>
    BY <1>0, <1>2, MeterStays
<1> QED BY <1>1, <1>2, IncrementStep, NotifyStep
        DEF ScanNext, scanVars, Enqueue, StoreScan, FinishScan, ScanJobFails, AnonymiseScan

\* The invariant of the meter holds throughout.
LEMMA AlertAlways == ScanSpec => []AlertInv
<1>1. ScanInit => AlertInv
    <2> SUFFICES ASSUME ScanInit PROVE AlertInv
        OBVIOUS
    <2>1. visit \in [Visit -> VisitRun]
        BY DEF ScanInit, VisitRun, VisitPc
    <2>2. \A n \in Allowance : Alerting(n) = {} /\ mailed[n] = 0 /\ ~(meter >= n)
        BY ScanAssumption DEF ScanInit, Alerting
    <2>3. AlertedAtMostOnce
        BY <2>2 DEF ScanInit, AlertedAtMostOnce
    <2> QED BY <2>1, <2>3 DEF ScanInit, AlertInv
<1> QED BY <1>1, AlertStep, PTL DEF ScanSpec

\* However many verifications are metered at once, no allowance e-mail is sent
\* twice or early, and one whose count is reached was sent, is on its way or
\* failed.
THEOREM AlertedOnce == ScanSpec => []AlertedAtMostOnce
<1>1. AlertInv => AlertedAtMostOnce
    BY DEF AlertInv
<1> QED BY <1>1, AlertAlways, PTL

-----------------------------------------------------------------------------
(***************************************************************************)
(* The scan limits, for any number of visits, devices and tries and any    *)
(* limits.                                                                 *)
(***************************************************************************)

\* Some visits are no more than their rows among some and those of them that
\* none of these stands for: every visit has rows of its own.
LEMMA Recorded ==
    ASSUME NEW A, NEW rows, IsFiniteSet(A), IsFiniteSet(rows)
    PROVE  /\ IsFiniteSet(RowsOf(rows, A)) /\ IsFiniteSet({v \in A : RowsOf(rows, {v}) = {}})
           /\ Cardinality(A) <= Cardinality(RowsOf(rows, A)) + Cardinality({v \in A : RowsOf(rows, {v}) = {}})
<1>1. PICK U : U = {v \in A : RowsOf(rows, {v}) = {}}
    OBVIOUS
<1>2. PICK R : R = A \ U
    OBVIOUS
<1>3. RowsOf(rows, A) \in SUBSET rows /\ U \in SUBSET A /\ R \in SUBSET A
    BY <1>1, <1>2 DEF RowsOf
<1>4. IsFiniteSet(RowsOf(rows, A)) /\ IsFiniteSet(U) /\ IsFiniteSet(R)
    BY <1>3, FS_Subset
<1>5. PICK f : f = [s \in RowsOf(rows, A) |-> s.visit]
    OBVIOUS
<1>6. PICK V : V = {s.visit : s \in RowsOf(rows, A)}
    OBVIOUS
<1>7. f \in Surjection(RowsOf(rows, A), V)
    BY <1>5, <1>6 DEF Surjection
<1>8. IsFiniteSet(V) /\ Cardinality(V) <= Cardinality(RowsOf(rows, A))
    BY <1>4, <1>7, FS_Surjection
<1>9. R \in SUBSET V
    BY <1>1, <1>2, <1>6 DEF RowsOf
<1>10. Cardinality(R) <= Cardinality(V)
    BY <1>8, <1>9, FS_Subset
<1>11. R \cup U = A /\ R \cap U = {}
    BY <1>1, <1>2
<1>12. Cardinality(A) = Cardinality(R) + Cardinality(U) - Cardinality({})
    BY <1>4, <1>11, FS_Union
<1>13. Cardinality(A) = Cardinality(R) + Cardinality(U)
    BY <1>4, <1>12, FS_EmptySet, FS_CardinalityType
<1>14. /\ Cardinality(R) \in Nat /\ Cardinality(U) \in Nat /\ Cardinality(V) \in Nat
       /\ Cardinality(RowsOf(rows, A)) \in Nat
    BY <1>4, <1>8, FS_CardinalityType
<1>15. Cardinality(A) <= Cardinality(RowsOf(rows, A)) + Cardinality(U)
    BY <1>8, <1>10, <1>13, <1>14
<1> QED BY <1>1, <1>4, <1>15

\* A step that lets nobody in keeps the invariant.
LEMMA NobodyAdmitted ==
    ASSUME LimitInv, visit' \in [Visit -> VisitRun], IsFiniteSet(scans'), outstanding' = outstanding,
           Admitted' \subseteq Admitted,
           \A d \in ScanDevice : AdmittedFrom(d)' \subseteq AdmittedFrom(d)
    PROVE  LimitInv'
<1>1. IsFiniteSet(Admitted') /\ Cardinality(Admitted') <= Cardinality(Admitted)
    BY FS_Subset DEF LimitInv
<1>2. Cardinality(Admitted) \in Nat /\ Cardinality(Admitted') \in Nat
    BY <1>1, FS_CardinalityType DEF LimitInv
<1>3. ASSUME NEW d \in ScanDevice
      PROVE  Cardinality(AdmittedFrom(d)') <= MaxScansPerDevice + outstanding.device[d]
    <2>1. AdmittedFrom(d) \in SUBSET Admitted
        BY DEF AdmittedFrom, Admitted, From
    <2>2. IsFiniteSet(AdmittedFrom(d))
        BY <2>1, FS_Subset DEF LimitInv
    <2>3. IsFiniteSet(AdmittedFrom(d)') /\ Cardinality(AdmittedFrom(d)') <= Cardinality(AdmittedFrom(d))
        BY <2>2, FS_Subset
    <2>4. Cardinality(AdmittedFrom(d)') \in Nat /\ Cardinality(AdmittedFrom(d)) \in Nat
        BY <2>2, <2>3, FS_CardinalityType
    <2>5. outstanding.device[d] \in Nat /\ MaxScansPerDevice \in Nat
        BY ScanAssumption DEF LimitInv
    <2>6. Cardinality(AdmittedFrom(d)) <= MaxScansPerDevice + outstanding.device[d]
        BY DEF LimitInv, OverrunIsOutstanding
    <2> QED BY <2>3, <2>4, <2>5, <2>6
<1>4. outstanding.total \in Nat /\ MaxScans \in Nat
    BY ScanAssumption DEF LimitInv
<1>5. Cardinality(Admitted') <= MaxScans + outstanding.total
    BY <1>1, <1>2, <1>4 DEF LimitInv, OverrunIsOutstanding
<1> QED BY <1>1, <1>3, <1>5 DEF LimitInv, OverrunIsOutstanding

\* A step that changes neither visits nor outstanding, and stores a scan at
\* most, lets nobody in.
LEMMA VisitsStay ==
    ASSUME LimitInv, UNCHANGED <<visit, outstanding>>, IsFiniteSet(scans')
    PROVE  LimitInv'
<1>1. Admitted' = Admitted /\ \A d \in ScanDevice : AdmittedFrom(d)' = AdmittedFrom(d)
    BY DEF Admitted, AdmittedFrom, From
<1> QED BY <1>1, NobodyAdmitted DEF LimitInv

\* The check of maxScans: one visit more than before, but the stored scans
\* were fewer than the limit, and the rest is outstanding.
LEMMA TotalStep ==
    ASSUME LimitInv, NEW v \in Visit, CountTotal(v)
    PROVE  LimitInv'
<1>0. /\ visit \in [Visit -> VisitRun] /\ IsFiniteSet(scans) /\ IsFiniteSet(Admitted)
      /\ outstanding \in [total : Nat, device : [ScanDevice -> Nat]]
      /\ visit[v].pc = "total" /\ scans' = scans /\ anonymised' = anonymised
      /\ MaxScans \in Nat
    BY ScanAssumption DEF LimitInv, CountTotal, rowVars
<1>1. CASE VisitGoto(v, "failed") /\ UNCHANGED outstanding
    <2>1. /\ visit' \in [Visit -> VisitRun] /\ visit'[v].pc = "failed"
          /\ \A w \in Visit : w # v => visit'[w] = visit[w]
          /\ \A d : From(d)' = From(d)
        BY <1>0, <1>1, VisitMoves DEF VisitPc
    <2>2. Admitted' \subseteq Admitted
        BY <2>1 DEF Admitted
    <2>3. \A d \in ScanDevice : AdmittedFrom(d)' \subseteq AdmittedFrom(d)
        BY <2>1 DEF AdmittedFrom, From
    <2> QED BY <1>0, <1>1, <2>1, <2>2, <2>3, NobodyAdmitted
<1>2. CASE /\ ~AtLimit(Cardinality(scans), MaxScans) /\ VisitGoto(v, "device")
           /\ outstanding' = [outstanding EXCEPT !.total = Cardinality(Uncounted(Visit, scans))]
    <2>1. /\ visit' \in [Visit -> VisitRun] /\ visit'[v].pc = "device"
          /\ \A w \in Visit : w # v => visit'[w] = visit[w]
          /\ \A d : From(d)' = From(d)
        BY <1>0, <1>2, VisitMoves DEF VisitPc
    <2>2. Admitted' = Admitted \cup {v} /\ v \notin Admitted
        BY <1>0, <2>1 DEF Admitted
    <2>3. IsFiniteSet(Admitted') /\ Cardinality(Admitted') = Cardinality(Admitted) + 1
        BY <1>0, <2>2, FS_AddElement
    <2>4. PICK U : U = {w \in Admitted : RowsOf(scans, {w}) = {}}
        OBVIOUS
    <2>u. Uncounted(Visit, scans) = U
        BY <2>4 DEF Uncounted, Admitted
    <2>r. /\ IsFiniteSet(RowsOf(scans, Admitted)) /\ IsFiniteSet(U)
          /\ Cardinality(Admitted) <= Cardinality(RowsOf(scans, Admitted)) + Cardinality(U)
        BY <1>0, <2>4, Recorded
    <2>5. /\ IsFiniteSet(RowsOf(scans, Admitted)) /\ IsFiniteSet(Uncounted(Visit, scans))
          /\ Cardinality(Admitted) <= Cardinality(RowsOf(scans, Admitted)) + Cardinality(Uncounted(Visit, scans))
        BY <2>u, <2>r
    <2>6. RowsOf(scans, Admitted) \in SUBSET scans
        BY DEF RowsOf
    <2>7. Cardinality(RowsOf(scans, Admitted)) <= Cardinality(scans)
        BY <1>0, <2>6, FS_Subset
    <2>8. /\ Cardinality(Admitted) \in Nat /\ Cardinality(scans) \in Nat
          /\ Cardinality(RowsOf(scans, Admitted)) \in Nat /\ Cardinality(Uncounted(Visit, scans)) \in Nat
        BY <1>0, <2>5, FS_CardinalityType
    <2>9. Cardinality(scans) < MaxScans
        BY <1>0, <1>2, <2>8 DEF AtLimit
    <2>10. /\ outstanding' \in [total : Nat, device : [ScanDevice -> Nat]]
           /\ outstanding'.total = Cardinality(Uncounted(Visit, scans))
           /\ outstanding'.device = outstanding.device
        BY <1>0, <1>2, <2>8
    <2>11. Cardinality(Admitted') <= MaxScans + outstanding'.total
        BY <1>0, <2>3, <2>5, <2>7, <2>8, <2>9, <2>10
    <2>12. \A d \in ScanDevice : AdmittedFrom(d)' = AdmittedFrom(d)
        BY <1>0, <2>1 DEF AdmittedFrom, From
    <2> QED BY <1>0, <2>1, <2>3, <2>10, <2>11, <2>12 DEF LimitInv, OverrunIsOutstanding
<1> QED BY <1>1, <1>2 DEF CountTotal

\* The check of maxScansPerDevice: the same argument for the visits of one
\* device.
LEMMA DeviceStep ==
    ASSUME LimitInv, NEW v \in Visit, CountDevice(v)
    PROVE  LimitInv'
<1> PICK d : d = visit[v].device
    OBVIOUS
<1>0. /\ visit \in [Visit -> VisitRun] /\ IsFiniteSet(scans) /\ IsFiniteSet(Admitted)
      /\ outstanding \in [total : Nat, device : [ScanDevice -> Nat]]
      /\ visit[v].pc = "device" /\ scans' = scans
      /\ MaxScansPerDevice \in Nat
    BY ScanAssumption DEF LimitInv, CountDevice, rowVars
<1>i. Identified \in SUBSET scans /\ IsFiniteSet(Identified)
    <2>1. Identified \in SUBSET scans
        BY DEF Identified
    <2> QED BY <1>0, <2>1, FS_Subset
<1>d. d \in ScanDevice
    BY <1>0 DEF VisitRun
<1>1. CASE VisitGoto(v, "failed") /\ UNCHANGED outstanding
    <2>1. /\ visit' \in [Visit -> VisitRun] /\ visit'[v].pc = "failed"
          /\ \A w \in Visit : w # v => visit'[w] = visit[w]
          /\ \A c : From(c)' = From(c)
        BY <1>0, <1>1, VisitMoves DEF VisitPc
    <2>2. Admitted' \subseteq Admitted
        BY <2>1 DEF Admitted
    <2>3. \A c \in ScanDevice : AdmittedFrom(c)' \subseteq AdmittedFrom(c)
        BY <2>1 DEF AdmittedFrom, From
    <2> QED BY <1>0, <1>1, <2>1, <2>2, <2>3, NobodyAdmitted
<1>2. CASE /\ ~AtLimit(Cardinality(RowsOf(Identified, From(d))), MaxScansPerDevice) /\ VisitGoto(v, "check")
           /\ outstanding' = [outstanding EXCEPT
                !.device[d] = Cardinality(Uncounted(From(d) \ {v}, Identified))]
    <2>1. /\ visit' \in [Visit -> VisitRun] /\ visit'[v].pc = "check"
          /\ \A w \in Visit : w # v => visit'[w] = visit[w]
          /\ \A c : From(c)' = From(c)
        BY <1>0, <1>2, VisitMoves DEF VisitPc
    <2>2. Admitted' = Admitted
        BY <1>0, <2>1 DEF Admitted
    <2>3. AdmittedFrom(d)' = AdmittedFrom(d) \cup {v} /\ v \notin AdmittedFrom(d)
        BY <1>0, <2>1 DEF AdmittedFrom, From
    <2>4. \A c \in ScanDevice : c # d => AdmittedFrom(c)' = AdmittedFrom(c)
        BY <1>0, <2>1 DEF AdmittedFrom, From
    <2>5. AdmittedFrom(d) \in SUBSET Admitted /\ AdmittedFrom(d) \in SUBSET (From(d) \ {v})
        BY <1>0 DEF AdmittedFrom, Admitted, From
    <2>6. IsFiniteSet(AdmittedFrom(d)) /\ Cardinality(AdmittedFrom(d)') = Cardinality(AdmittedFrom(d)) + 1
        BY <1>0, <2>3, <2>5, FS_Subset, FS_AddElement
    <2>7. PICK U : U = {w \in AdmittedFrom(d) : RowsOf(Identified, {w}) = {}}
        OBVIOUS
    <2>8. /\ IsFiniteSet(RowsOf(Identified, AdmittedFrom(d))) /\ IsFiniteSet(U)
          /\ Cardinality(AdmittedFrom(d)) <= Cardinality(RowsOf(Identified, AdmittedFrom(d))) + Cardinality(U)
        BY <1>i, <2>6, <2>7, Recorded
    <2>9. /\ RowsOf(Identified, AdmittedFrom(d)) \in SUBSET RowsOf(Identified, From(d)) /\ RowsOf(Identified, From(d)) \in SUBSET Identified
          /\ U \in SUBSET Uncounted(From(d) \ {v}, Identified) /\ Uncounted(From(d) \ {v}, Identified) \in SUBSET Admitted
        BY <2>5, <2>7 DEF RowsOf, Uncounted
    <2>10. IsFiniteSet(RowsOf(Identified, From(d))) /\ IsFiniteSet(Uncounted(From(d) \ {v}, Identified))
        BY <1>0, <1>i, <2>9, FS_Subset
    <2>11. /\ Cardinality(RowsOf(Identified, AdmittedFrom(d))) <= Cardinality(RowsOf(Identified, From(d)))
           /\ Cardinality(U) <= Cardinality(Uncounted(From(d) \ {v}, Identified))
        BY <2>9, <2>10, FS_Subset
    <2>12. /\ Cardinality(AdmittedFrom(d)) \in Nat /\ Cardinality(U) \in Nat
           /\ Cardinality(RowsOf(Identified, AdmittedFrom(d))) \in Nat /\ Cardinality(RowsOf(Identified, From(d))) \in Nat
           /\ Cardinality(Uncounted(From(d) \ {v}, Identified)) \in Nat
        BY <2>6, <2>8, <2>10, FS_CardinalityType
    <2>13. Cardinality(RowsOf(Identified, From(d))) < MaxScansPerDevice
        BY <1>0, <1>2, <2>12 DEF AtLimit
    <2>14. PICK n \in Nat : n = Cardinality(Uncounted(From(d) \ {v}, Identified))
        BY <2>12
    <2>15. /\ outstanding' \in [total : Nat, device : [ScanDevice -> Nat]]
           /\ outstanding'.total = outstanding.total
           /\ outstanding'.device[d] = n
           /\ \A c \in ScanDevice : c # d => outstanding'.device[c] = outstanding.device[c]
        BY <1>0, <1>d, <1>2, <2>14
    <2>16. Cardinality(AdmittedFrom(d)') <= MaxScansPerDevice + outstanding'.device[d]
        BY <1>0, <2>6, <2>8, <2>11, <2>12, <2>13, <2>14, <2>15
    <2>17. \A c \in ScanDevice :
              Cardinality(AdmittedFrom(c)') <= MaxScansPerDevice + outstanding'.device[c]
        BY <2>4, <2>15, <2>16 DEF LimitInv, OverrunIsOutstanding
    <2>18. Cardinality(Admitted') <= MaxScans + outstanding'.total
        BY <2>2, <2>15 DEF LimitInv, OverrunIsOutstanding
    <2> QED BY <1>0, <2>1, <2>2, <2>15, <2>17, <2>18 DEF LimitInv, OverrunIsOutstanding
<1> QED BY <1>1, <1>2 DEF CountDevice

\* Every step keeps the invariant.
LEMMA LimitStep == LimitInv /\ [ScanNext]_scanVars => LimitInv'
<1> SUFFICES ASSUME LimitInv, [ScanNext]_scanVars PROVE LimitInv'
    OBVIOUS
<1>0. visit \in [Visit -> VisitRun] /\ IsFiniteSet(scans)
    BY DEF LimitInv
<1>1. ASSUME NEW v \in Visit, VerifyRead(v) \/ VerifyAnswer(v) \/ Increment(v) PROVE LimitInv'
    <2>1. PICK to \in {"total", "failed", "meter", "shown"} : VisitGoto(v, to)
        BY <1>1 DEF VerifyRead, VerifyAnswer, Increment
    <2>2. /\ to \in {"meter", "shown"} => visit[v].pc \in {"check", "meter"}
        BY <1>0, <1>1, <2>1, VisitMoves DEF VerifyRead, VerifyAnswer, Increment, VisitPc
    <2>3. /\ visit' \in [Visit -> VisitRun] /\ visit'[v].pc = to
          /\ \A w \in Visit : w # v => visit'[w] = visit[w]
          /\ \A c : From(c)' = From(c)
        BY <1>0, <2>1, VisitMoves DEF VisitPc
    <2>4. Admitted' \subseteq Admitted
        BY <2>2, <2>3 DEF Admitted
    <2>5. \A d \in ScanDevice : AdmittedFrom(d)' \subseteq AdmittedFrom(d)
        BY <2>2, <2>3 DEF AdmittedFrom, From
    <2>6. scans' = scans /\ outstanding' = outstanding
        BY <1>1 DEF VerifyRead, VerifyAnswer, Increment, rowVars
    <2> QED BY <1>0, <2>3, <2>4, <2>5, <2>6, NobodyAdmitted
<1>2. ASSUME NEW v \in Visit, Enqueue(v) \/ FinishScan(v) \/ ScanJobFails(v)
                                     \/ SendAlert(v) \/ AlertFails(v)
      PROVE  LimitInv'
    BY <1>0, <1>2, VisitsStay DEF Enqueue, FinishScan, ScanJobFails, SendAlert, AlertFails, rowVars
<1>3. ASSUME NEW v \in Visit, StoreScan(v) PROVE LimitInv'
    <2>1. scans' = scans \cup {[visit |-> v, try |-> job[v].tries]} /\ UNCHANGED <<visit, outstanding>>
        BY <1>3 DEF StoreScan
    <2>2. IsFiniteSet(scans')
        BY <1>0, <2>1, FS_AddElement
    <2> QED BY <2>1, <2>2, VisitsStay
<1>4. CASE (\E s \in scans : AnonymiseScan(s)) \/ UNCHANGED scanVars
    BY <1>0, <1>4, VisitsStay DEF AnonymiseScan, scanVars, rowVars
<1> QED BY <1>1, <1>2, <1>3, <1>4, TotalStep, DeviceStep DEF ScanNext

\* The invariant of the limits holds throughout.
LEMMA LimitAlways == ScanSpec => []LimitInv
<1>1. ScanInit => LimitInv
    <2> SUFFICES ASSUME ScanInit PROVE LimitInv
        OBVIOUS
    <2>1. visit \in [Visit -> VisitRun] /\ \A v \in Visit : visit[v].pc = "new"
        BY DEF ScanInit, VisitRun, VisitPc
    <2>2. Admitted = {} /\ scans = {} /\ \A d \in ScanDevice : AdmittedFrom(d) = {}
        BY <2>1 DEF ScanInit, Admitted, AdmittedFrom, From
    <2>3. /\ outstanding \in [total : Nat, device : [ScanDevice -> Nat]] /\ outstanding.total = 0
          /\ \A d \in ScanDevice : outstanding.device[d] = 0
        BY DEF ScanInit
    <2>4. IsFiniteSet(scans) /\ IsFiniteSet(Admitted) /\ Cardinality({}) = 0
        BY <2>2, FS_EmptySet
    <2>5. Cardinality(Admitted) <= MaxScans + outstanding.total
        BY <2>2, <2>3, <2>4, ScanAssumption
    <2>6. ASSUME NEW d \in ScanDevice
          PROVE  Cardinality(AdmittedFrom(d)) <= MaxScansPerDevice + outstanding.device[d]
        BY <2>2, <2>3, <2>4, ScanAssumption
    <2> QED BY <2>1, <2>3, <2>4, <2>5, <2>6 DEF LimitInv, OverrunIsOutstanding
<1> QED BY <1>1, LimitStep, PTL DEF ScanSpec

\* The scan limits are overrun at most by the visits that no row counted for
\* when the last one was let in, because it was not stored or, for a device,
\* anonymised (routes/verify.ts, services/scan-analytics.ts), for any number
\* of visits, devices and tries and any limits.
THEOREM OverrunBounded == ScanSpec => []OverrunIsOutstanding
<1>1. LimitInv => OverrunIsOutstanding
    BY DEF LimitInv
<1> QED BY <1>1, LimitAlways, PTL

-----------------------------------------------------------------------------
(***************************************************************************)
(* The rows and jobs of the recording, for any number of visits and tries. *)
(***************************************************************************)

\* The write to one job, as the queue and the worker make it.
LEMMA JobMoves ==
    ASSUME ScanTypeOK, NEW v \in Visit,
           NEW st \in {"none", "adding", "queued", "stored", "done"}, NEW n \in 0 .. Tries - 1,
           job' = [job EXCEPT ![v] = [st |-> st, tries |-> n]]
    PROVE  job' \in [Visit -> [st : {"none", "adding", "queued", "stored", "done"},
                               tries : 0 .. Tries - 1]]
    BY DEF ScanTypeOK

\* A job never counts more tries than it has, so that the scans of one visit
\* are as many rows at most (the retries of the queue restart the worker,
\* which stores the scan again).
LEMMA RecordingStep ==
    ASSUME ScanTypeOK, NEW v \in Visit,
           VerifyAnswer(v) \/ Enqueue(v) \/ StoreScan(v) \/ FinishScan(v) \/ ScanJobFails(v)
    PROVE  /\ job' \in [Visit -> [st : {"none", "adding", "queued", "stored", "done"},
                                  tries : 0 .. Tries - 1]]
           /\ scans' \subseteq [visit : Visit, try : 0 .. Tries - 1]
           /\ anonymised' \subseteq scans'
<1>1. /\ job \in [Visit -> [st : {"none", "adding", "queued", "stored", "done"}, tries : 0 .. Tries - 1]]
      /\ job[v].tries \in 0 .. Tries - 1 /\ job[v] = [st |-> job[v].st, tries |-> job[v].tries]
      /\ scans \subseteq [visit : Visit, try : 0 .. Tries - 1] /\ anonymised \subseteq scans
    BY DEF ScanTypeOK
<1>2. 0 \in 0 .. Tries - 1
    BY ScanAssumption
<1>3. ASSUME NEW st \in {"none", "adding", "queued", "stored", "done"}, job' = [job EXCEPT ![v].st = st]
      PROVE  job' \in [Visit -> [st : {"none", "adding", "queued", "stored", "done"},
                                 tries : 0 .. Tries - 1]]
    <2>1. PICK x : x = [job[v] EXCEPT !.st = st]
        OBVIOUS
    <2>2. x = [st |-> st, tries |-> job[v].tries]
        BY <1>1, <2>1
    <2>3. job' = [job EXCEPT ![v] = [st |-> st, tries |-> job[v].tries]]
        BY <1>3, <2>1, <2>2
    <2> QED BY <1>1, <2>3, JobMoves
<1>4. CASE VerifyAnswer(v) \/ Enqueue(v)
    <2>1. scans' = scans /\ anonymised' = anonymised
        BY <1>4 DEF VerifyAnswer, Enqueue, rowVars
    <2>2. \/ job' = job
          \/ \E st \in {"adding", "queued", "done"} : job' = [job EXCEPT ![v].st = st]
        BY <1>4 DEF VerifyAnswer, Enqueue
    <2> QED BY <1>1, <1>3, <2>1, <2>2
<1>5. CASE StoreScan(v)
    <2>1. [visit |-> v, try |-> job[v].tries] \in [visit : Visit, try : 0 .. Tries - 1]
        BY <1>1
    <2> QED BY <1>1, <1>3, <1>5, <2>1 DEF StoreScan
<1>6. CASE FinishScan(v)
    BY <1>1, <1>2, <1>6, JobMoves DEF FinishScan, rowVars
<1>7. CASE ScanJobFails(v)
    <2>1. CASE TriesLeft(v)
        <3>1. job[v].tries + 1 \in 0 .. Tries - 1
            BY <1>1, <2>1, ScanAssumption DEF TriesLeft
        <3>2. job' = [job EXCEPT ![v] = [st |-> "queued", tries |-> job[v].tries + 1]]
            BY <1>1, <1>7, <2>1 DEF ScanJobFails
        <3> QED BY <1>1, <1>7, <3>1, <3>2, JobMoves DEF ScanJobFails, rowVars
    <2>2. CASE ~TriesLeft(v)
        <3>1. job' = [job EXCEPT ![v] = [st |-> "done", tries |-> 0]]
            BY <1>1, <1>7, <2>2 DEF ScanJobFails
        <3> QED BY <1>1, <1>2, <1>7, <3>1, JobMoves DEF ScanJobFails, rowVars
    <2> QED BY <2>1, <2>2
<1> QED BY <1>4, <1>5, <1>6, <1>7

\* Every step keeps the types; the counts and the visits follow from the two
\* invariants above.
LEMMA ScanTypeStep ==
    ASSUME ScanTypeOK, [ScanNext]_scanVars, LimitInv', AlertInv'
    PROVE  ScanTypeOK'
<1>1. /\ visit' \in [Visit -> VisitRun] /\ meter' \in Nat /\ mailed' \in [Allowance -> Nat]
      /\ alert' \in [Visit -> SUBSET Allowance] /\ dropped' \subseteq Allowance
      /\ outstanding' \in [total : Nat, device : [ScanDevice -> Nat]]
    BY DEF LimitInv, AlertInv
<1>2. /\ job' \in [Visit -> [st : {"none", "adding", "queued", "stored", "done"},
                             tries : 0 .. Tries - 1]]
      /\ scans' \subseteq [visit : Visit, try : 0 .. Tries - 1]
      /\ anonymised' \subseteq scans'
    <2>1. CASE UNCHANGED <<job, scans, anonymised>>
        BY <2>1 DEF ScanTypeOK
    <2>2. CASE \E v \in Visit :
                  VerifyAnswer(v) \/ Enqueue(v) \/ StoreScan(v) \/ FinishScan(v) \/ ScanJobFails(v)
        BY <2>2, RecordingStep
    <2>3. CASE \E s \in scans : AnonymiseScan(s)
        BY <2>3 DEF AnonymiseScan, Identified, ScanTypeOK
    <2> QED BY <2>1, <2>2, <2>3 DEF ScanNext, scanVars, rowVars, VerifyRead, CountTotal, CountDevice,
                                    Increment, SendAlert, AlertFails
<1> QED BY <1>1, <1>2 DEF ScanTypeOK

\* Types, with the bound on retries: no job runs more often than it has tries
\* and no visit is stored more often than its job ran (workers/index.ts,
\* lib/queue.ts), for any number of visits, devices and tries.
THEOREM ScanTypeCorrect == ScanSpec => []ScanTypeOK
<1>1. ASSUME ScanInit PROVE ScanTypeOK
    <2>1. 0 \in 0 .. Tries - 1
        BY ScanAssumption
    <2>2. [st |-> "none", tries |-> 0] \in [st : {"none", "adding", "queued", "stored", "done"},
                                           tries : 0 .. Tries - 1]
        BY <2>1
    <2>3. job \in [Visit -> [st : {"none", "adding", "queued", "stored", "done"}, tries : 0 .. Tries - 1]]
        BY <1>1, <2>2 DEF ScanInit
    <2>4. visit \in [Visit -> VisitRun]
        BY <1>1 DEF ScanInit, VisitRun, VisitPc
    <2>5. outstanding \in [total : Nat, device : [ScanDevice -> Nat]] /\ mailed \in [Allowance -> Nat]
        BY <1>1 DEF ScanInit
    <2> QED BY <1>1, <2>3, <2>4, <2>5 DEF ScanInit, ScanTypeOK
<1> QED BY <1>1, ScanTypeStep, LimitAlways, AlertAlways, PTL DEF ScanSpec

=============================================================================
