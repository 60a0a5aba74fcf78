----------------------- MODULE RefTransactionContract -----------------------
(***************************************************************************)
(* RefTransaction implements RefContract.  The value of a ref is the one a  *)
(* participant sees that would take the ref's lock first: a delete takes    *)
(* effect with its packed-refs rewrite, and until then the ref still has    *)
(* the value it is deleted from, although an unlocked reader may see an     *)
(* older packed value.                                                      *)
(***************************************************************************)
EXTENDS RefTransaction

\* p has unlinked n and not yet rewritten packed-refs.
MidDelete(p, n) == pc[p] \in {"readpacked", "rewrite"} /\ cur[p] = n

LockedValue(n) ==
    IF \E p \in Procs : MidDelete(p, n)
    THEN plan[CHOOSE p \in Procs : MidDelete(p, n)][n].expected
    ELSE Visible(n)

PhaseOf(p) ==
    IF target[p] # None \/ pc[p] \in {"idle", "release", "unlease"} THEN "idle"
    ELSE IF pc[p] \in Committing THEN "accepted" ELSE "open"

RestOf(p) ==
    IF PhaseOf(p) # "accepted" THEN {}
    ELSE todo[p] \ (IF pc[p] = "unlog" THEN {cur[p]} ELSE {})

Contract == INSTANCE RefContract WITH
    refs <- [n \in Refs |-> LockedValue(n)],
    phase <- [p \in Procs |-> PhaseOf(p)],
    batch <- [p \in Procs |-> IF PhaseOf(p) = "idle" THEN NoPlan ELSE plan[p]],
    rest <- [p \in Procs |-> RestOf(p)]

\* Every behaviour of the locking protocol is one the contract allows
\* (RefStore::transact, "one atomic ref transaction").
ImplementsContract == Contract!Spec
=============================================================================
