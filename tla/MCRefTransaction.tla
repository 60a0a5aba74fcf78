-------------------------- MODULE MCRefTransaction --------------------------
(***************************************************************************)
(* Small repositories for TLC.  Flat: two unrelated branches.  Nested: a    *)
(* branch whose name is a directory of another's.                           *)
(***************************************************************************)
EXTENDS RefTransactionContract, TLC

CONSTANTS x, y, v1, v2

FlatBelow == [n \in Refs |-> {}]
NestedBelow == [n \in Refs |-> IF n = x THEN {y} ELSE {}]
Rank == [n \in Refs |-> IF n = x THEN 0 ELSE 1]

AllLogged == Refs \cup {HeadLock}

\* Batches of ops that change something, all of them logged.
LoggedOps == [expected : Values, new : Values, log : {TRUE}]
BatchesOf(ops, sizes) ==
    UNION {[S -> ops] : S \in {T \in SUBSET Refs : Cardinality(T) \in sizes}}
Changes == {op \in LoggedOps : op.expected # op.new}
ChangeSingles == BatchesOf(Changes, {1})
ChangeBatches == BatchesOf(Changes, {1, 2})
\* Also ops that ask for no reflog entry.
QuietSingles == BatchesOf({[op EXCEPT !.log = FALSE] : op \in Changes}, {1})
MixedBatches == ChangeBatches \cup QuietSingles
\* Two batches and a creation, for two processes at once.
Change(from, to) == [expected |-> from, new |-> to, log |-> TRUE]
PairPlans ==
    {x :> Change(None, v1), x :> Change(v2, None) @@ y :> Change(None, v1),
     x :> Change(v2, v1) @@ y :> Change(None, v1)}
DeleteSingles == BatchesOf({op \in Changes : op.new = None}, {1})

NoPrecondition == {None}
HeadPrecondition == {None, x}
NoTargets == {}
AllRefs == Refs

Table(atX, atY) == [n \in Refs |-> IF n = x THEN atX ELSE atY]
StoreWith(l, k, h) == [loose |-> l, packed |-> k, head |-> h]

\* At most one of x and x/y is there, loose or packed.
NestedStores ==
    {StoreWith(Table(None, None), Table(px, py), x) : px \in {None, v1}, py \in {None, v1}}
        \cup {StoreWith(Table(lx, ly), Table(None, None), x) : lx \in {None, v1}, ly \in {None, v1}}
\* One branch, loose over a stale packed entry.
ShadowedStore == {StoreWith(Table(v2, None), Table(v1, None), x)}
=============================================================================
