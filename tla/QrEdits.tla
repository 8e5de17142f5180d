------------------------------ MODULE QrEdits ------------------------------
(***************************************************************************)
(* A stored QR code and the requests that rewrite it: edits and restores   *)
(* (routes/qrcodes.ts), revocation (services/qr-revocation.ts), the        *)
(* append-only edit history (services/qr-revisions.ts), destination        *)
(* screening (workers/web-risk.ts, services/destination-screening.ts) and  *)
(* the organization's allowlist (services/org-policy.ts).                  *)
(*                                                                         *)
(* An edit reads the row, checks and signs while others run, and then      *)
(* writes every field of the row back under its lock.  Rows are            *)
(* independent of each other, so one code is modelled.  The signatures and *)
(* the MAC an edit computes belong to MacRing.                             *)
(***************************************************************************)
EXTENDS Naturals, Sequences

CONSTANTS
    Dest,           \* destinations a code may point to
    Edit,           \* concurrent edit requests
    Keep,           \* an edit that leaves the destination alone
    MaxWrites       \* bound: writes of the row

ASSUME EditAssumption == Keep \notin Dest /\ MaxWrites \in Nat

VARIABLES
    code,       \* the row of the code
    hist,       \* its revisions still kept, oldest first
    listed,     \* the destinations Web Risk lists as dangerous
    allow,      \* the enforced allowlist; all of Dest when it is off
    edit,       \* the edit requests in flight
    screen,     \* the screening worker: the destination looked up, or Keep
    raced,      \* history: some edit replaced a row it had not read
    flaggedFor  \* history: the destinations the code has been flagged for

editVars == <<code, hist, listed, allow, edit, screen, raced, flaggedFor>>

-----------------------------------------------------------------------------

CodeRow == [dest : Dest, status : {"ACTIVE", "REVOKED"}, flagged : BOOLEAN,
            outside : BOOLEAN, updatedAt : 0 .. MaxWrites]

\* The tracked fields of a row, as the edit history stores them.
Tracked == [dest : Dest, status : {"ACTIVE", "REVOKED"}]
snapshot(row) == [dest |-> row.dest, status |-> row.status]

Revision == [kind : {"CREATED", "UPDATED", "RESTORED", "REVOKED"},
             before : Tracked, after : Tracked]

EditState == [pc : {"idle", "restore", "write", "revoke"},
              kind : {"UPDATED", "RESTORED"},
              want : Dest \cup {Keep},     \* the new destination, if any
              clear : BOOLEAN,             \* clearDestinationFlag
              dest : Dest,                 \* of `existing`, as it was read
              updatedAt : 0 .. MaxWrites]

EditTypeOK ==
    /\ code \in CodeRow
    /\ hist \in Seq(Revision) /\ Len(hist) <= MaxWrites + 1
    /\ listed \in SUBSET Dest
    /\ allow \in SUBSET Dest
    /\ edit \in [Edit -> EditState]
    /\ screen \in Dest \cup {Keep}
    /\ raced \in BOOLEAN
    /\ flaggedFor \in SUBSET Dest

IdleEdit == [pc |-> "idle", kind |-> "UPDATED", want |-> Keep, clear |-> FALSE,
             dest |-> CHOOSE d \in Dest : TRUE, updatedAt |-> 0]

\* recordCreated: a new code has revision 1.
NewCode(d) ==
    LET row == [dest |-> d, status |-> "ACTIVE", flagged |-> FALSE,
                outside |-> FALSE, updatedAt |-> 0] IN
    /\ code = row
    /\ hist = <<[kind |-> "CREATED", before |-> snapshot(row), after |-> snapshot(row)]>>

EditInit ==
    /\ \E d \in Dest : NewCode(d)
    /\ listed = {}
    /\ allow = Dest
    /\ edit = [e \in Edit |-> IdleEdit]
    /\ screen = Keep
    /\ raced = FALSE
    /\ flaggedFor = {}

-----------------------------------------------------------------------------
(* Writing the row.                                                        *)

CanWrite == code.updatedAt < MaxWrites

\* Every update moves updatedAt.
Touched(row) == [row EXCEPT !.updatedAt = @ + 1]

\* updateWithRevision: the row is locked and read again, and a revision is
\* added when a tracked field changed.
RevisionOfDestOnly(kind, after) ==  \* mutant
    /\ code' = Touched(after)
    /\ hist' = IF code.dest = after.dest THEN hist
               ELSE Append(hist, [kind |-> kind, before |-> snapshot(code),
                                  after |-> snapshot(after)])
updateWithRevision(kind, after) ==
    /\ code' = Touched(after)
    /\ hist' = IF snapshot(code) = snapshot(after) THEN hist
               ELSE Append(hist, [kind |-> kind, before |-> snapshot(code),
                                  after |-> snapshot(after)])

-----------------------------------------------------------------------------
(* Edits and restores.                                                     *)

\* POST /:token/history/:revision/restore reads the code and the value the
\* revision left, and hands it to applyUpdate, which reads the code again.
RestoreRead(e, i) ==
    /\ edit[e].pc = "idle"
    /\ code.status # "REVOKED"
    /\ hist[i].after.dest # code.dest
    /\ edit' = [edit EXCEPT ![e].pc = "restore", ![e].want = hist[i].after.dest]
    /\ UNCHANGED <<code, hist, listed, allow, screen, raced, flaggedFor>>

\* applyUpdate up to its write: the row is read, the allowlist checked and a
\* new destination screened.  A flagged code moves only to a destination
\* screened clean; an unavailable screening lets others through.
applyUpdate(e, kind, want) ==
    LET changed == want \notin {Keep, code.dest} IN
    /\ \E verdict \in {"clean", "unavailable"} :
         changed => /\ want \in allow
                    /\ verdict = "clean" => want \notin listed
                    /\ code.flagged => verdict = "clean"
    /\ edit' = [edit EXCEPT ![e] =
         [pc |-> "write", kind |-> kind, want |-> IF changed THEN want ELSE Keep,
          clear |-> changed /\ code.flagged, dest |-> code.dest,
          updatedAt |-> code.updatedAt]]
    /\ UNCHANGED <<code, hist, listed, allow, screen, raced, flaggedFor>>

Patch(e, want) == edit[e].pc = "idle" /\ applyUpdate(e, "UPDATED", want)
Restore(e) == edit[e].pc = "restore" /\ applyUpdate(e, "RESTORED", edit[e].want)

\* A check of applyUpdate refuses, or its signing fails: nothing is written.
EditRefused(e) ==
    /\ edit[e].pc \in {"restore", "write"}
    /\ edit' = [edit EXCEPT ![e] = IdleEdit]
    /\ UNCHANGED <<code, hist, listed, allow, screen, raced, flaggedFor>>

\* A restore was decided on the row as read: it is refused when the locked
\* row is revoked or has changed since.
RestorableIfLive(e) == edit[e].kind = "RESTORED" => code.status # "REVOKED"  \* mutant
assertRestorable(e) ==
    edit[e].kind = "RESTORED" =>
        code.status # "REVOKED" /\ code.updatedAt = edit[e].updatedAt

\* enforcePolicyInTransaction, under the organization lock.
PolicyAsRead(e) == TRUE  \* mutant
PolicyAllows(e) == edit[e].want # Keep => edit[e].want \in allow

\* persistUpdate: every field as the handler computed it from the row it
\* read, the destination included; the mark and the flag only when decided.
EditWrite(e) ==
    /\ edit[e].pc = "write" /\ CanWrite
    /\ edit' = [edit EXCEPT ![e] = IdleEdit]
    /\ PolicyAllows(e) /\ assertRestorable(e)
    /\ updateWithRevision(edit[e].kind,
         [code EXCEPT
            !.dest = IF edit[e].want = Keep THEN edit[e].dest ELSE edit[e].want,
            !.flagged = @ /\ ~edit[e].clear,
            !.outside = @ /\ edit[e].want = Keep])
    /\ raced' = (raced \/ code.updatedAt # edit[e].updatedAt)
    /\ UNCHANGED <<listed, allow, screen, flaggedFor>>

-----------------------------------------------------------------------------
(* Revocation and retention.                                               *)

\* DELETE /:token reads the code, and revokes it in a later transaction.
RevokeRead(e) ==
    /\ edit[e].pc = "idle"
    /\ code.status # "REVOKED"
    /\ edit' = [edit EXCEPT ![e].pc = "revoke"]
    /\ UNCHANGED <<code, hist, listed, allow, screen, raced, flaggedFor>>

RevokeWrite(e) ==
    /\ edit[e].pc = "revoke" /\ CanWrite
    /\ edit' = [edit EXCEPT ![e] = IdleEdit]
    /\ updateWithRevision("REVOKED", [code EXCEPT !.status = "REVOKED"])
    /\ UNCHANGED <<listed, allow, screen, raced, flaggedFor>>

\* revokeWithRevisions (bulk revoke, revoke all): one transaction that reads
\* the codes again under their locks and skips those already revoked.
revokeWithRevisions ==
    /\ CanWrite /\ code.status # "REVOKED"
    /\ updateWithRevision("REVOKED", [code EXCEPT !.status = "REVOKED"])
    /\ UNCHANGED <<listed, allow, edit, screen, raced, flaggedFor>>

\* purgeExpiredRevisions: old revisions go, the latest stays.
purgeExpiredRevisions ==
    /\ Len(hist) > 1
    /\ hist' = Tail(hist)
    /\ UNCHANGED <<code, listed, allow, edit, screen, raced, flaggedFor>>

-----------------------------------------------------------------------------
(* Screening and policy.                                                   *)

\* Web Risk adds a destination to its lists (external).
ListDangerous(d) ==
    /\ d \notin listed
    /\ listed' = listed \cup {d}
    /\ UNCHANGED <<code, hist, allow, edit, screen, raced, flaggedFor>>

\* runRecheck and runDailyScan read an active, unflagged code and look its
\* destination up.
ScreenRead ==
    /\ screen = Keep
    /\ code.status = "ACTIVE" /\ ~code.flagged
    /\ screen' = code.dest
    /\ UNCHANGED <<code, hist, listed, allow, edit, raced, flaggedFor>>

\* A listed destination flags the code by its token, whatever it points to
\* by then (flagQrCode); any other answer leaves it alone.
flagQrCode ==
    /\ screen # Keep /\ CanWrite
    /\ screen' = Keep
    /\ code' = IF screen \in listed /\ ~code.flagged
               THEN Touched([code EXCEPT !.flagged = TRUE]) ELSE code
    /\ flaggedFor' = IF code' # code /\ code.dest = screen
                     THEN flaggedFor \cup {screen} ELSE flaggedFor
    /\ UNCHANGED <<hist, listed, allow, edit, raced>>

\* A superadmin clears the flag (clear-destination-flag).
ClearFlag ==
    /\ code.flagged /\ CanWrite
    /\ code' = Touched([code EXCEPT !.flagged = FALSE])
    /\ flaggedFor' = flaggedFor \ {code.dest}
    /\ UNCHANGED <<hist, listed, allow, edit, screen, raced>>

\* updatePolicy replaces the allowlist and marks the codes outside it, in one
\* transaction under the organization lock.
updatePolicy(list) ==
    /\ list # {} /\ list # allow
    /\ allow' = list
    /\ code' = [code EXCEPT !.outside = code.status # "REVOKED" /\ code.dest \notin list]
    /\ UNCHANGED <<hist, listed, edit, screen, raced, flaggedFor>>

-----------------------------------------------------------------------------

EditNext ==
    \/ \E e \in Edit :
         \/ \E want \in Dest \cup {Keep} : Patch(e, want)
         \/ \E i \in DOMAIN hist : RestoreRead(e, i)
         \/ Restore(e) \/ EditRefused(e) \/ EditWrite(e)
         \/ RevokeRead(e) \/ RevokeWrite(e)
    \/ revokeWithRevisions \/ purgeExpiredRevisions
    \/ \E d \in Dest : ListDangerous(d)
    \/ ScreenRead \/ flagQrCode \/ ClearFlag
    \/ \E list \in SUBSET Dest : updatePolicy(list)

EditSpec == EditInit /\ [][EditNext]_editVars

-----------------------------------------------------------------------------
(* Properties.                                                             *)

\* The edit history (qr-revisions.ts) tells the truth: each revision starts
\* where the one before it ended, and the last one ends at the row.
HistoryIsUnbroken ==
    /\ hist[Len(hist)].after = snapshot(code)
    /\ \A i \in 1 .. Len(hist) - 1 : hist[i + 1].before = hist[i].after

\* A restore (routes/qrcodes.ts) that is written finds the live code with the
\* destination it was decided on, whatever edits and revocations ran meanwhile.
RestoreReplacesWhatItRead ==
    [][\A e \in Edit :
         edit[e].pc = "write" /\ edit[e].kind = "RESTORED" /\ code' # code /\ edit'[e] # edit[e]
           => code.dest = edit[e].dest /\ code.status = "ACTIVE"]_editVars

\* As long as no edit replaced a row it had not read, a live code is marked
\* exactly when it is outside the enforced allowlist (org-policy.ts).
UncontendedMarkIsTrue ==
    ~raced /\ code.status = "ACTIVE" => code.outside = (code.dest \notin allow)

\* The flag of a dangerous destination is cleared only by moving the code to
\* a destination screened clean (schema.prisma, applyUpdate): a destination
\* the code was flagged for comes back unflagged only through an edit that
\* names it and is screened itself.
FlaggedReturnsOnlyOnRequest ==
    [][code'.dest # code.dest /\ code'.dest \in flaggedFor /\ ~code'.flagged
         => \E e \in Edit : edit[e].pc = "write" /\ edit[e].want = code'.dest]_editVars

-----------------------------------------------------------------------------
(* The inductive invariant.                                                *)

\* Every revision but the first comes with a write of the row.
RevisionPerWrite == Len(hist) \in 1 .. code.updatedAt + 1

\* updatedAt tells an edit whether the destination it read still stands.
ReadIsDated ==
    \A e \in Edit :
        edit[e].pc = "write" =>
            /\ edit[e].updatedAt <= code.updatedAt
            /\ edit[e].updatedAt = code.updatedAt => edit[e].dest = code.dest

EditInv ==
    /\ EditTypeOK /\ RevisionPerWrite /\ ReadIsDated
    /\ HistoryIsUnbroken /\ UncontendedMarkIsTrue
=============================================================================
