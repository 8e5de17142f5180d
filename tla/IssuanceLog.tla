---------------------------- MODULE IssuanceLog ----------------------------
(***************************************************************************)
(* The hash-chained issuance log (packages/api/src/services/               *)
(* transparency.ts) and the last steps of the issuance that feeds it       *)
(* (services/qr-create.ts).  Issuances run concurrently; each reads the    *)
(* chain tip in one statement and inserts its entry in a later one.        *)
(*                                                                         *)
(* Data abstraction.  The entryHash of an entry covers the unguessable     *)
(* token of its code, so entries of different codes have different hashes: *)
(* a hash is named by the code of the entry.  logIndex is the value of a   *)
(* database sequence, drawn when the insert runs and visible to others     *)
(* when it commits; an aborted insert leaves a gap.                        *)
(***************************************************************************)
EXTENDS Naturals, FiniteSets

CONSTANTS
    Code,       \* QR codes being issued
    Genesis     \* the previousHash of the first entry

ASSUME IssuanceAssumption == Genesis \notin Code

VARIABLES
    pc,         \* how far the issuance of each code is
    tip,        \* the previousHash an issuance has read
    index,      \* the logIndex drawn for a code, 0 before
    log,        \* the codes whose entry has committed
    nextIndex,  \* the database sequence
    raced       \* history: issuances that overlapped another append

logVars == <<pc, tip, index, log, nextIndex, raced>>

-----------------------------------------------------------------------------

Appending == {"read", "insert", "commit"}
Prev == Code \cup {Genesis}

LogTypeOK ==
    /\ pc \in [Code -> {"signing", "refused", "done"} \cup Appending]
    /\ tip \in [Code -> Prev]
    /\ index \in [Code -> Nat]
    /\ log \in SUBSET Code
    /\ nextIndex \in Nat \ {0}
    /\ raced \in SUBSET Code

LogInit ==
    /\ pc = [c \in Code |-> "signing"]
    /\ tip = [c \in Code |-> Genesis]
    /\ index = [c \in Code |-> 0]
    /\ log = {}
    /\ nextIndex = 1
    /\ raced = {}

\* createSignedQRCode stores the signed row, under the policy and the logo
\* lock; a refusal stores nothing and ends the issuance.
Persist(c) ==
    /\ pc[c] = "signing"
    /\ \E next \in {"read", "refused"} : pc' = [pc EXCEPT ![c] = next]
    /\ UNCHANGED <<tip, index, log, nextIndex, raced>>

\* The entry with the highest committed logIndex.
IsGenesis(t) ==  \* mutant
    IF log = {} THEN t = Genesis
    ELSE t \in log /\ \A d \in log : index[d] >= index[t]
IsTip(t) ==
    IF log = {} THEN t = Genesis
    ELSE t \in log /\ \A d \in log : index[d] <= index[t]

\* appendEntry reads the chain tip.
ReadTip(c) ==
    /\ pc[c] = "read"
    /\ \E t \in Prev : IsTip(t) /\ tip' = [tip EXCEPT ![c] = t]
    /\ pc' = [pc EXCEPT ![c] = "insert"]
    /\ raced' = raced \cup
         (IF \E d \in Code : pc[d] \in {"insert", "commit"}
          THEN {d \in Code : d = c \/ pc[d] \in {"insert", "commit"}} ELSE {})
    /\ UNCHANGED <<index, log, nextIndex>>

\* appendEntry's transaction: the insert draws the logIndex ...
Insert(c) ==
    /\ pc[c] = "insert"
    /\ index' = [index EXCEPT ![c] = nextIndex]
    /\ nextIndex' = nextIndex + 1
    /\ pc' = [pc EXCEPT ![c] = "commit"]
    /\ UNCHANGED <<tip, log, raced>>

\* ... and the commit shows the entry to everybody.
Commit(c) ==
    /\ pc[c] = "commit"
    /\ log' = log \cup {c}
    /\ pc' = [pc EXCEPT ![c] = "done"]
    /\ UNCHANGED <<tip, index, nextIndex, raced>>

\* Any statement of appendEntry fails: the issuance logs a warning and
\* answers with a null transparency_log_index.
AppendFails(c) ==
    /\ pc[c] \in Appending
    /\ pc' = [pc EXCEPT ![c] = "done"]
    /\ UNCHANGED <<tip, index, log, nextIndex, raced>>

LogNext ==
    \E c \in Code : Persist(c) \/ ReadTip(c) \/ Insert(c) \/ Commit(c) \/ AppendFails(c)

LogSpec == LogInit /\ [][LogNext]_logVars

-----------------------------------------------------------------------------

\* verifyChain over the entries with a logIndex in lo..hi: every entry but
\* the first names the one fetched before it.
Adjacent(c, d) ==
    /\ index[c] < index[d]
    /\ ~\E e \in log : index[c] < index[e] /\ index[e] < index[d]
VerifyChain(lo, hi) ==
    \A c, d \in {e \in log : index[e] \in lo..hi} : Adjacent(c, d) => tip[d] = c

(* Properties *)

\* The log is a tree that grows by appending: entries have distinct
\* logIndexes, and the previousHash of an entry is that of a committed
\* entry with a smaller one (appendEntry reads the tip before it draws its
\* own), so no entry ever points forward or at an entry that was aborted.
PointsBack ==
    \A c \in log :
        /\ \A d \in log \ {c} : index[c] # index[d]
        /\ tip[c] # Genesis => tip[c] \in log /\ index[tip[c]] < index[c]

\* Appends that do not overlap chain up: an entry that is not linked to its
\* neighbour belongs to an issuance that ran while another was between its
\* tip read and its commit.
UnlinkedOnlyByRace ==
    \A c, d \in log : Adjacent(c, d) /\ tip[d] # c => d \in raced \/ c \in raced

\* What the comment on appendEntry's transaction says: the hash chain stays
\* consistent under concurrent inserts.
ChainConsistent ==
    VerifyChain(1, nextIndex)

-----------------------------------------------------------------------------
(* The inductive invariant behind PointsBack *)

Drawn == {c \in Code : pc[c] = "commit"} \cup log

\* An index in use was drawn once and is below the sequence; the tip an
\* issuance holds is committed and has an index below the one it draws.
IndexesDrawnOnce ==
    /\ \A c \in Drawn : index[c] < nextIndex
    /\ \A c, d \in Drawn : c # d => index[c] # index[d]
    /\ \A c \in log : pc[c] = "done"

TipsAreOlder ==
    \A c \in Code :
        tip[c] # Genesis /\ (pc[c] = "insert" \/ c \in Drawn) =>
            tip[c] \in log /\ (c \in Drawn => index[tip[c]] < index[c])

LogInv == LogTypeOK /\ IndexesDrawnOnce /\ TipsAreOlder /\ PointsBack

\* Nobody else is appending next to an issuance that did not race: the tip it
\* read is still the tip, and the index it draws is the highest.
UnracedHoldsTip ==
    \A c \in Code :
        pc[c] \in {"insert", "commit"} /\ c \notin raced =>
            /\ \A d \in Code \ {c} : pc[d] \notin {"insert", "commit"}
            /\ IsTip(tip[c])
            /\ pc[c] = "commit" => \A d \in log : index[d] < index[c]

LinkInv == LogInv /\ UnracedHoldsTip /\ UnlinkedOnlyByRace

=============================================================================
