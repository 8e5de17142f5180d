--------------------------- MODULE MCCodesAndKeys ---------------------------
(***************************************************************************)
(* The life of a QR code and of the keys and tokens that protect it, side  *)
(* by side: edits of a code, its MAC under key rotation, visits of it, the *)
(* signing keys, and the dashboard's refresh tokens.  They share no state; *)
(* a behaviour is a behaviour of one of them, the others stay in an        *)
(* initial state.                                                          *)
(*                                                                         *)
(* Tokens, families and visits are numbered and first used in order, which *)
(* by their symmetry excludes nothing.  Edits are interchangeable.         *)
(***************************************************************************)
EXTENDS RefreshToken, QrEdits, MacRing, ScanVerify, SigningKeys, TLC

VARIABLE focus    \* the component this behaviour is about

\* Numbers in a set that are used up in order.
InOrder(S, used(_)) == \A i, j \in S : i < j /\ used(j) => used(i)

CodesInit ==
    /\ focus \in {"tokens", "edits", "ring", "scans", "keys"}
    /\ RefreshInit /\ EditInit /\ RingInit /\ ScanInit /\ KeysInit
    /\ focus # "edits" => code.dest = CHOOSE d \in Dest : TRUE

TokensInOrder ==
    /\ LET taken(t) == state'[t] # "absent" IN InOrder(Token, taken)
    /\ LET taken(f) == owner'[f] # None IN InOrder(Family, taken)
VisitsInOrder == LET begun(v) == visit'[v].pc # "new" IN InOrder(Visit, begun)

CodesNext ==
    /\ UNCHANGED focus
    /\ \/ /\ focus = "tokens" /\ RefreshNext /\ TokensInOrder
          /\ UNCHANGED <<editVars, ringVars, scanVars, keyVars>>
       \/ /\ focus = "edits" /\ EditNext
          /\ UNCHANGED <<vars, ringVars, scanVars, keyVars>>
       \/ /\ focus = "ring" /\ RingNext
          /\ UNCHANGED <<vars, editVars, scanVars, keyVars>>
       \/ /\ focus = "scans" /\ ScanNext /\ VisitsInOrder
          /\ UNCHANGED <<vars, editVars, ringVars, keyVars>>
       \/ /\ focus = "keys" /\ KeysNext
          /\ UNCHANGED <<vars, editVars, ringVars, scanVars>>

CodesSpec ==
    CodesInit /\ [][CodesNext]_<<focus, vars, editVars, ringVars, scanVars, keyVars>>

Symmetry == Permutations(Edit)

=============================================================================
