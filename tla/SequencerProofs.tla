--------------------------- MODULE SequencerProofs ---------------------------
(***************************************************************************)
(* Proofs about Sequencer: the commit graph grows without changing what is  *)
(* reachable from its commits, no command loses a tip, every commit a       *)
(* command made is what the merge of its parent says, conflict markers stay *)
(* out of history, and --abort of a rebase returns to its start.            *)
(***************************************************************************)
EXTENDS Sequencer, FiniteSetTheorems, SequenceTheorems, TLAPS

-----------------------------------------------------------------------------
(* Induction over the numbers of commits *)

\* A set that contains 0 and the successor of each of its numbers contains
\* them all.
LEMMA Induction ==
  ASSUME NEW S, 0 \in S, \A n \in Nat : n \in S => n + 1 \in S
  PROVE  Nat \subseteq S
<1> SUFFICES ASSUME Nat \ S # {} PROVE FALSE
  OBVIOUS
<1> DEFINE R == {pair \in Nat \X Nat : pair[1] < pair[2]}
<1>1. IsWellFoundedOn(R, Nat)
  BY NatLessThanWellFounded, Zenon DEF OpToRel
<1> HIDE DEF R
<1>2. PICK m \in Nat \ S : \A y \in Nat \ S : ~(<<y, m>> \in R)
  BY <1>1, WFMin, Zenon
<1>3. m # 0 /\ m - 1 \in Nat
  BY <1>2
<1>4. <<m - 1, m>> \in R
  BY <1>3 DEF R
<1>5. m - 1 \in S
  BY <1>2, <1>3, <1>4
<1>6. (m - 1) + 1 \in S
  BY <1>3, <1>5
<1> QED
  BY <1>2, <1>6

\* What holds of a number when it holds of the smaller ones holds of all.
LEMMA OldestFirst ==
  ASSUME NEW n \in Nat, NEW S,
         \A i \in 1 .. n : 1 .. i - 1 \subseteq S => i \in S
  PROVE  1 .. n \subseteq S
<1> DEFINE T == {k \in Nat : k <= n => 1 .. k \subseteq S}
<1>1. 0 \in T
  OBVIOUS
<1>2. ASSUME NEW k \in Nat, k \in T PROVE k + 1 \in T
  <2>1. CASE k + 1 <= n
    <3>1. 1 .. k \subseteq S /\ k + 1 \in 1 .. n /\ (k + 1) - 1 = k
      BY <1>2, <2>1
    <3>2. k + 1 \in S
      BY <3>1
    <3>3. 1 .. k + 1 \subseteq S
      BY <3>1, <3>2
    <3> QED
      BY <3>3
  <2> QED
    BY <2>1
<1>3. n \in T
  BY <1>1, <1>2, Induction
<1> QED
  BY <1>3

-----------------------------------------------------------------------------
(* What is reachable in a graph whose parents are older than their children *)

Parents(cs, c) == ToSet(cs[c].parents)
Older(cs) == Len(cs) \in Nat /\ \A c \in 1 .. Len(cs) : Parents(cs, c) \subseteq 1 .. c - 1
Unfolds(cs, n, f) == f = [c \in 1 .. n |-> {c} \cup UNION {f[d] : d \in Parents(cs, c)}]
ReachIn(cs) == CHOOSE f : Unfolds(cs, Len(cs), f)

\* Sequencer!Reach is the reachability of the current graph.
LEMMA ReachIsReachIn == Reach = ReachIn(commits)
BY DEF Reach, ReachIn, Unfolds, Ids, Parents

\* Such a graph has a reachability function.
LEMMA UnfoldingExists ==
  ASSUME NEW cs, Older(cs)
  PROVE  \E f : Unfolds(cs, Len(cs), f)
<1> DEFINE S == {n \in Nat : n <= Len(cs) => \E f : Unfolds(cs, n, f)}
<1>1. 0 \in S
  <2>1. Unfolds(cs, 0, [c \in {} |-> {}])
    BY DEF Unfolds
  <2> QED
    BY <2>1
<1>2. ASSUME NEW n \in Nat, n \in S PROVE n + 1 \in S
  <2> SUFFICES ASSUME n + 1 <= Len(cs) PROVE \E f : Unfolds(cs, n + 1, f)
    OBVIOUS
  <2> Len(cs) \in Nat
    BY DEF Older
  <2>1. PICK f : Unfolds(cs, n, f)
    BY <1>2
  <2> DEFINE up(c) == {c} \cup UNION {f[d] : d \in Parents(cs, c)}
             g == [c \in 1 .. n + 1 |-> up(c)]
  <2>2. \A c \in 1 .. n : g[c] = f[c]
    <3>1. \A c \in 1 .. n : f[c] = up(c)
      BY <2>1 DEF Unfolds
    <3> HIDE DEF up
    <3> QED
      BY <3>1
  <2>3. \A c \in 1 .. n + 1 : Parents(cs, c) \subseteq 1 .. n
    BY DEF Older
  <2>4. \A c \in 1 .. n + 1 : up(c) = {c} \cup UNION {g[d] : d \in Parents(cs, c)}
    <3> SUFFICES ASSUME NEW c \in 1 .. n + 1
                 PROVE  {f[d] : d \in Parents(cs, c)} = {g[d] : d \in Parents(cs, c)}
      OBVIOUS
    <3> QED
      BY <2>2, <2>3
  <2>5. Unfolds(cs, n + 1, g)
    BY <2>4 DEF Unfolds
  <2> QED
    BY <2>5
<1>3. Len(cs) \in S
  BY <1>1, <1>2, Induction DEF Older
<1> QED
  BY <1>3 DEF Older

\* What is reachable from a commit: itself, and what is from its parents.
LEMMA ReachUnfolds ==
  ASSUME NEW cs, Older(cs)
  PROVE  /\ DOMAIN ReachIn(cs) = 1 .. Len(cs)
         /\ \A c \in 1 .. Len(cs) :
              ReachIn(cs)[c] = {c} \cup UNION {ReachIn(cs)[d] : d \in Parents(cs, c)}
<1>1. Unfolds(cs, Len(cs), ReachIn(cs))
  BY UnfoldingExists DEF ReachIn
<1> QED
  BY <1>1 DEF Unfolds

\* A commit reaches itself and older commits only.
LEMMA ReachBounds ==
  ASSUME NEW cs, Older(cs), NEW c \in 1 .. Len(cs)
  PROVE  c \in ReachIn(cs)[c] /\ ReachIn(cs)[c] \subseteq 1 .. c
<1> DEFINE R == ReachIn(cs)
           S == {i \in 1 .. Len(cs) : R[i] \subseteq 1 .. i}
<1> Len(cs) \in Nat
  BY DEF Older
<1>1. \A i \in 1 .. Len(cs) : R[i] = {i} \cup UNION {R[d] : d \in Parents(cs, i)}
  BY ReachUnfolds
<1> HIDE DEF R
<1>2. ASSUME NEW i \in 1 .. Len(cs), 1 .. i - 1 \subseteq S PROVE i \in S
  <2>1. \A d \in Parents(cs, i) : d \in 1 .. i - 1 /\ R[d] \subseteq 1 .. d
    BY <1>2 DEF Older
  <2>2. \A d \in Parents(cs, i) : R[d] \subseteq 1 .. i
    BY <2>1
  <2>3. R[i] = {i} \cup UNION {R[d] : d \in Parents(cs, i)}
    BY <1>1
  <2>4. i \in 1 .. i
    OBVIOUS
  <2>5. R[i] \subseteq 1 .. i
    BY <2>2, <2>3, <2>4, Zenon
  <2> QED
    BY <2>5
<1>3. 1 .. Len(cs) \subseteq S
  <2> HIDE DEF S
  <2> QED
    BY <1>2, OldestFirst
<1>4. c \in S
  BY <1>3
<1>5. R[c] \subseteq 1 .. c
  BY <1>4
<1>6. c \in R[c]
  BY <1>1
<1> QED
  BY <1>5, <1>6 DEF R

\* Ancestors of an ancestor are ancestors.
LEMMA ReachTransitive ==
  ASSUME NEW cs, Older(cs), NEW c \in 1 .. Len(cs), NEW d \in ReachIn(cs)[c]
  PROVE  ReachIn(cs)[d] \subseteq ReachIn(cs)[c]
<1> DEFINE R == ReachIn(cs)
           S == {i \in 1 .. Len(cs) : \A e \in R[i] : R[e] \subseteq R[i]}
<1> Len(cs) \in Nat
  BY DEF Older
<1>1. \A i \in 1 .. Len(cs) : R[i] = {i} \cup UNION {R[e] : e \in Parents(cs, i)}
  BY ReachUnfolds
<1> HIDE DEF R
<1>2. ASSUME NEW i \in 1 .. Len(cs), 1 .. i - 1 \subseteq S PROVE i \in S
  <2> SUFFICES ASSUME NEW e \in R[i], e # i PROVE R[e] \subseteq R[i]
    OBVIOUS
  <2>1. PICK q \in Parents(cs, i) : e \in R[q]
    BY <1>1
  <2>2. q \in S
    BY <1>2 DEF Older
  <2>3. R[e] \subseteq R[q]
    BY <2>1, <2>2
  <2>4. R[q] \subseteq R[i]
    BY <1>1
  <2> QED
    BY <2>3, <2>4
<1>3. 1 .. Len(cs) \subseteq S
  BY <1>2, OldestFirst
<1>4. c \in S
  BY <1>3
<1> QED
  BY <1>4 DEF R

\* A new commit changes nothing in what is reachable from the others.
LEMMA ReachAppend ==
  ASSUME NEW cs, NEW more, Older(cs), Older(more), Len(cs) <= Len(more),
         \A c \in 1 .. Len(cs) : more[c] = cs[c]
  PROVE  \A c \in 1 .. Len(cs) : ReachIn(more)[c] = ReachIn(cs)[c]
<1> DEFINE R == ReachIn(cs)
           Q == ReachIn(more)
           S == {i \in 1 .. Len(cs) : Q[i] = R[i]}
<1> Len(cs) \in Nat /\ Len(more) \in Nat
  BY DEF Older
<1>1. \A i \in 1 .. Len(cs) : R[i] = {i} \cup UNION {R[d] : d \in Parents(cs, i)}
  BY ReachUnfolds
<1>2. \A i \in 1 .. Len(cs) : Q[i] = {i} \cup UNION {Q[d] : d \in Parents(cs, i)}
  <2>1. \A i \in 1 .. Len(more) : Q[i] = {i} \cup UNION {Q[d] : d \in Parents(more, i)}
    BY ReachUnfolds
  <2> QED
    BY <2>1 DEF Parents
<1> HIDE DEF R, Q
<1>3. ASSUME NEW i \in 1 .. Len(cs), 1 .. i - 1 \subseteq S PROVE i \in S
  <2>1. \A d \in Parents(cs, i) : Q[d] = R[d]
    BY <1>3 DEF Older
  <2>2. {Q[d] : d \in Parents(cs, i)} = {R[d] : d \in Parents(cs, i)}
    BY <2>1
  <2> QED
    BY <1>1, <1>2, <2>2
<1> HIDE DEF S
<1>4. 1 .. Len(cs) \subseteq S
  BY <1>3, OldestFirst
<1> QED
  BY <1>4 DEF R, Q, S

-----------------------------------------------------------------------------
(* The list of a rebase *)

\* Every rank in a finite set of numbers is that of one of them.
LEMMA Ranked ==
  ASSUME NEW n \in Nat, NEW S \in SUBSET (1 .. n), NEW i \in 1 .. Cardinality(S)
  PROVE  \E c \in S : Cardinality({d \in S : d <= c}) = i
<1> SUFFICES ASSUME \A c \in S : Cardinality({d \in S : d <= c}) # i PROVE FALSE
  OBVIOUS
<1> DEFINE below(k) == {d \in S : d <= k}
           A == {k \in Nat : Cardinality(below(k)) < i}
<1>0. \A d \in S : d \in Nat /\ d # 0 /\ d <= n
  OBVIOUS
<1>1. IsFiniteSet(S) /\ \A k \in Nat : IsFiniteSet(below(k))
  <2>1. IsFiniteSet(1 .. n)
    BY FS_Interval
  <2>2. IsFiniteSet(S)
    BY <2>1, FS_Subset
  <2> QED
    BY <2>2, FS_Subset
<1>2. Cardinality(S) \in Nat /\ i \in Nat /\ i > 0
  BY <1>1, FS_CardinalityType
<1>3. 0 \in A
  <2>1. \A d \in S : ~(d <= 0)
    BY <1>0
  <2>2. below(0) = {}
    BY <2>1, Zenon
  <2> QED
    BY <1>2, <2>2, FS_EmptySet
<1>4. ASSUME NEW k \in Nat, k \in A PROVE k + 1 \in A
  <2>1. CASE k + 1 \notin S
    <3>1. \A d \in S : d <= k + 1 <=> d <= k
      BY <1>0, <2>1
    <3>2. below(k + 1) = below(k)
      BY <3>1, Zenon
    <3> QED
      BY <1>4, <3>2
  <2>2. CASE k + 1 \in S
    <3>0. \A d \in S : d <= k + 1 <=> (d <= k \/ d = k + 1)
      BY <1>0, <2>2
    <3> ~(k + 1 <= k)
      OBVIOUS
    <3>1. below(k + 1) = below(k) \cup {k + 1} /\ k + 1 \notin below(k)
      BY <2>2, <3>0, Zenon
    <3>2. Cardinality(below(k + 1)) = Cardinality(below(k)) + 1
      BY <1>1, <3>1, FS_AddElement
    <3>3. Cardinality(below(k + 1)) # i
      BY <2>2
    <3>4. Cardinality(below(k)) \in Nat /\ Cardinality(below(k)) < i
      BY <1>1, <1>4, FS_CardinalityType
    <3> HIDE DEF below
    <3> QED
      BY <1>2, <3>2, <3>3, <3>4
  <2> QED
    BY <2>1, <2>2
<1>5. n \in A
  BY <1>3, <1>4, Induction
<1>6. below(n) = S
  BY <1>0
<1> QED
  BY <1>2, <1>5, <1>6

\* The list has an entry at every place, and its entries are commits of the range.
LEMMA ToReplayTyped ==
  ASSUME NEW n \in Nat, NEW S \in SUBSET (1 .. n)
  PROVE  [i \in 1 .. Cardinality(S) |-> CHOOSE c \in S : Cardinality({d \in S : d <= c}) = i]
           \in Seq(S)
<1>1. IsFiniteSet(S)
  <2>1. IsFiniteSet(1 .. n)
    BY FS_Interval
  <2> QED
    BY <2>1, FS_Subset
<1>2. Cardinality(S) \in Nat
  BY <1>1, FS_CardinalityType
<1> DEFINE nth(i) == CHOOSE c \in S : Cardinality({d \in S : d <= c}) = i
<1>3. \A i \in 1 .. Cardinality(S) : nth(i) \in S
  BY Ranked
<1> HIDE DEF nth
<1>4. [i \in 1 .. Cardinality(S) |-> nth(i)] \in Seq(S)
  BY <1>2, <1>3
<1> QED
  BY <1>4 DEF nth

-----------------------------------------------------------------------------
(* Types, and where each command may be *)

CommitRecord == [tree : Tree, parents : Seq(Nat), how : Sealed, of : Nat]
MaybeIds == Ids \cup {0}
Points ==
  {"idle", "materialise", "unmerge", "checkout", "finish", "orig", "stop", "seal", "record",
   "name", "origfile", "ontofile", "todofile", "base", "replay", "advance", "restore",
   "reset", "move", "clear", "clearname", "clearorig", "clearonto", "cleartodo"}
Names ==
  {"none", "rebased", "merge", "ff", "pick", "revert", "rebase", "continue", "commit",
   "resolved", "skip", "abort", "abortrebase", "failed"}
OpRecord == [pc : Points, cmd : Names, at : MaybeIds, of : MaybeIds, to : MaybeIds,
             tree : Tree, base : Tree, todo : Seq(Ids)]

GraphTyped ==
  /\ commits \in Seq(CommitRecord) /\ Older(commits)
  /\ Starts \cup Upstreams \subseteq Ids
StateTyped ==
  /\ branch \in Ids /\ origHead \in MaybeIds
  /\ idx \in [tree : Tree, unmerged : SUBSET Paths]
  /\ \A p \in idx.unmerged : idx.tree[p] = {}
  /\ heads \in [{"merge", "pick", "revert"} -> MaybeIds]
  /\ rebase \in [name : BOOLEAN, orig : MaybeIds, onto : MaybeIds, todo : Seq(Ids)]
PlanTyped ==
  /\ plan \in [tip : MaybeIds, base : MaybeIds, onto : MaybeIds, todo : Seq(Ids)]
  /\ skipped \subseteq Ids

\* The commands that get to each program point.
Placed ==
  \/ op.pc = "idle" /\ op.cmd \in {"none", "rebased"}
  \/ op.pc \in {"materialise", "unmerge"} /\ op.cmd \in {"merge", "pick", "revert", "rebase"}
  \/ op.pc = "checkout" /\ op.cmd \in {"merge", "ff", "pick", "revert", "rebase"}
  \/ op.pc = "finish" /\ op.cmd \in {"merge", "ff"}
  \/ op.pc \in {"orig", "stop"} /\ op.cmd \in {"merge", "pick", "revert"}
  \/ op.pc = "seal" /\ op.cmd \in {"continue", "commit", "resolved", "rebase"}
  \/ op.pc = "record" /\ op.cmd \in {"pick", "revert", "continue", "commit", "resolved", "rebase"}
  \/ op.pc \in {"name", "origfile", "ontofile", "todofile", "base"} /\ op.cmd = "rebase"
  \/ op.pc \in {"replay", "advance"} /\ op.cmd \in {"rebase", "resolved", "skip"}
  \/ op.pc = "restore" /\ op.cmd \in {"abort", "abortrebase", "skip"}
  \/ op.pc \in {"reset", "move"} /\ op.cmd \in {"rebase", "abortrebase"}
  \/ op.pc = "clear" /\ op.cmd \in {"continue", "abort"}
  \/ /\ op.pc \in {"clearname", "clearorig", "clearonto", "cleartodo"}
     /\ op.cmd \in {"failed", "abortrebase", "rebase", "resolved", "skip"}

\* What a command has read by the time it gets there.
Provided ==
  /\ op.pc \in {"materialise", "checkout", "base", "unmerge", "finish", "orig", "record",
                "name", "origfile", "ontofile", "todofile", "move"} => op.at # 0
  /\ op.pc \in {"materialise", "checkout", "unmerge", "finish", "orig", "stop"} => op.of # 0
  /\ op.pc \in {"seal", "record"} /\ op.cmd \in {"pick", "revert", "rebase"} => op.of # 0
  /\ op.pc \in {"reset", "move", "restore", "clearname"} /\ op.cmd = "abortrebase" => op.to # 0
  /\ op.pc \in {"name", "origfile", "ontofile", "todofile", "base", "reset", "move"} => op.to # 0
  /\ op.pc \in {"materialise", "checkout", "unmerge", "seal", "record", "advance"}
       /\ op.cmd \in {"rebase", "resolved", "skip"} => op.todo # <<>>
  /\ op.pc = "restore" /\ op.cmd = "skip" => op.todo # <<>>

OpTyped == op \in OpRecord /\ Placed /\ Provided

Typed == GraphTyped /\ StateTyped /\ PlanTyped /\ OpTyped

-----------------------------------------------------------------------------
(* Trees and commits *)

\* A merge of trees is a tree.
LEMMA MergedIsTree ==
  ASSUME NEW base \in Tree, NEW ours \in Tree, NEW theirs \in Tree
  PROVE  Merged(base, ours, theirs) \in Tree
BY DEF Merged, InConflict, Tree, Content

\* The changes of a path added to a tree give a tree.
LEMMA WithIsTree ==
  ASSUME NEW tree \in Tree, NEW changes \in SUBSET Changes
  PROVE  With(tree, changes) \in Tree
BY DEF With, Tree, Content

\* The trees of the commits there are and of their parents.
LEMMA TreesTyped ==
  ASSUME GraphTyped
  PROVE  /\ Empty \in Tree
         /\ \A c \in Ids : /\ TreeOf(c) \in Tree /\ ParentTree(c) \in Tree
                           /\ commits[c] \in CommitRecord
<1>1. Empty \in Tree
  BY DEF Empty, Tree
<1>2. \A c \in Ids : commits[c] \in CommitRecord
  BY DEF GraphTyped, Ids
<1>3. \A c \in Ids : TreeOf(c) \in Tree
  BY <1>2 DEF TreeOf, CommitRecord
<1>4. ASSUME NEW c \in Ids, commits[c].parents # <<>> PROVE commits[c].parents[1] \in Ids
  <2>1. commits[c].parents \in Seq(Nat) /\ 1 \in DOMAIN commits[c].parents
    BY <1>2, <1>4 DEF CommitRecord
  <2>2. commits[c].parents[1] \in Parents(commits, c)
    BY <2>1 DEF Parents, ToSet
  <2> QED
    BY <2>2 DEF GraphTyped, Older, Ids
<1> QED
  BY <1>1, <1>2, <1>3, <1>4 DEF ParentTree

\* A commit made from a tree and one or two commits extends the graph.
LEMMA CommitAppends ==
  ASSUME GraphTyped, NEW tree \in Tree, NEW how \in Sealed, NEW of \in Nat,
         NEW parents \in Seq(Ids), ToSet(parents) \subseteq Ids,
         commits' = Append(commits, Commit(tree, parents, how, of))
  PROVE  /\ GraphTyped'
         /\ Len(commits') = Len(commits) + 1 /\ Ids' = Ids \cup {Len(commits) + 1}
         /\ \A c \in Ids : commits'[c] = commits[c]
         /\ commits'[Len(commits) + 1] = Commit(tree, parents, how, of)
<1> DEFINE k == Commit(tree, parents, how, of)
           n == Len(commits) + 1
<1>1. commits \in Seq(CommitRecord) /\ Len(commits) \in Nat
  BY DEF GraphTyped
<1>2. parents \in Seq(Nat)
  BY <1>1, SeqMonotonic DEF Ids
<1>3. k \in CommitRecord
  BY <1>2 DEF Commit, CommitRecord
<1> HIDE DEF k
<1>4. /\ commits' \in Seq(CommitRecord) /\ Len(commits') = n
      /\ \A c \in 1 .. Len(commits) : commits'[c] = commits[c]
      /\ commits'[n] = k
  BY <1>1, <1>3, AppendProperties DEF k
<1>5. Ids' = Ids \cup {n}
  BY <1>1, <1>4 DEF Ids
<1>6. Parents(commits', n) \subseteq 1 .. n - 1
  <2>1. k.parents = parents
    BY DEF k, Commit
  <2> QED
    BY <1>1, <1>4, <2>1 DEF Parents, Ids
<1>7. Older(commits')
  <2> SUFFICES ASSUME NEW c \in 1 .. n PROVE Parents(commits', c) \subseteq 1 .. c - 1
    BY <1>1, <1>4 DEF Older
  <2>1. CASE c = n
    BY <1>6, <2>1
  <2>2. CASE c # n
    BY <1>1, <1>4, <2>2 DEF Older, GraphTyped, Parents
  <2> QED
    BY <2>1, <2>2
<1> QED
  BY <1>4, <1>5, <1>7 DEF GraphTyped, Ids, k

\* One or two commits as a sequence of parents.
LEMMA ParentSequences ==
  ASSUME NEW a \in Ids, NEW b \in Ids
  PROVE  /\ <<a>> \in Seq(Ids) /\ ToSet(<<a>>) = {a}
         /\ <<a, b>> \in Seq(Ids) /\ ToSet(<<a, b>>) = {a, b}
<1>1. <<a>> \in Seq(Ids) /\ <<a, b>> \in Seq(Ids)
  OBVIOUS
<1>2. DOMAIN <<a>> = {1} /\ DOMAIN <<a, b>> = {1, 2}
  OBVIOUS
<1> QED
  BY <1>1, <1>2 DEF ToSet

-----------------------------------------------------------------------------
(* The setup is typed *)

\* A commit of the setup has no markers and applies no other commit.
SetupRecord == [tree : [Paths -> SUBSET Changes], parents : Seq(Nat), how : {"setup"}, of : {0}]

\* Each commit of a chain is a commit record whose only parent is the commit
\* before it.
LEMMA ChainTyped ==
  ASSUME NEW first \in Nat, NEW changes \in Seq(SUBSET Changes), NEW n \in Nat
  PROVE  /\ Chain(first, changes, n) \in Seq(SetupRecord)
         /\ Len(Chain(first, changes, n)) = Len(changes)
         /\ \A i \in 1 .. Len(changes) :
              Chain(first, changes, n)[i].parents = <<IF i = 1 THEN first ELSE n + i - 1>>
<1> DEFINE tree(i) == With(Empty, UNION {changes[j] : j \in 1 .. i})
           k(i) == Commit(tree(i), <<IF i = 1 THEN first ELSE n + i - 1>>, "setup", 0)
<1>1. \A i \in 1 .. Len(changes) : tree(i) \in [Paths -> SUBSET Changes]
  <2> SUFFICES ASSUME NEW i \in 1 .. Len(changes) PROVE tree(i) \in [Paths -> SUBSET Changes]
    OBVIOUS
  <2>1. \A j \in 1 .. i : changes[j] \in SUBSET Changes
    OBVIOUS
  <2>2. UNION {changes[j] : j \in 1 .. i} \in SUBSET Changes
    BY <2>1
  <2> QED
    BY <2>2 DEF With, Empty
<1> HIDE DEF tree
<1>2. \A i \in 1 .. Len(changes) :
        /\ k(i) \in SetupRecord
        /\ k(i).parents = <<IF i = 1 THEN first ELSE n + i - 1>>
  BY <1>1 DEF Commit, SetupRecord
<1> HIDE DEF k
<1>3. Chain(first, changes, n) = [i \in 1 .. Len(changes) |-> k(i)]
  BY DEF Chain, k, tree
<1>4. Len(changes) \in Nat
  OBVIOUS
<1> QED
  BY <1>2, <1>3, <1>4

\* The setup is a graph of commits in which parents come first.
LEMMA SetupTyped ==
  /\ Setup \in Seq(SetupRecord) /\ Older(Setup)
  /\ Len(Setup) = 1 + Len(Mine) + Len(Theirs) /\ Len(Setup) \in Nat
<1> DEFINE root == <<Commit(Empty, <<>>, "setup", 0)>>
           mine == Chain(1, Mine, 1)
           theirs == Chain(1, Theirs, 1 + Len(Mine))
           m == Len(Mine)
           t == Len(Theirs)
<1>1. /\ Mine \in Seq(SUBSET Changes) /\ Theirs \in Seq(SUBSET Changes)
      /\ m \in Nat /\ t \in Nat
  BY SetupAssumption
<1>2. root \in Seq(SetupRecord) /\ Len(root) = 1 /\ root[1].parents = <<>>
  BY DEF Commit, SetupRecord, Empty
<1>3. /\ mine \in Seq(SetupRecord) /\ Len(mine) = m
      /\ \A i \in 1 .. m : mine[i].parents = <<IF i = 1 THEN 1 ELSE 1 + i - 1>>
  BY <1>1, ChainTyped
<1>4. /\ theirs \in Seq(SetupRecord) /\ Len(theirs) = t
      /\ \A i \in 1 .. t : theirs[i].parents = <<IF i = 1 THEN 1 ELSE (1 + m) + i - 1>>
  BY <1>1, ChainTyped
<1>5. Setup = root \o mine \o theirs
  BY DEF Setup
<1> HIDE DEF root, mine, theirs, m, t
<1> DEFINE both == root \o mine
<1>6. /\ both \in Seq(SetupRecord) /\ Len(both) = 1 + m
      /\ both[1] = root[1]
      /\ \A i \in 1 .. m : both[1 + i] = mine[i]
  <2>1. /\ both \in Seq(SetupRecord) /\ Len(both) = 1 + m
        /\ \A i \in 1 .. 1 + m : both[i] = IF i <= 1 THEN root[i] ELSE mine[i - 1]
    <3>1. /\ both \in Seq(SetupRecord) /\ Len(both) = Len(root) + Len(mine)
          /\ \A i \in 1 .. Len(root) + Len(mine) :
               both[i] = IF i <= Len(root) THEN root[i] ELSE mine[i - Len(root)]
      BY <1>2, <1>3, ConcatProperties, Zenon
    <3> QED
      BY <1>2, <1>3, <3>1, Zenon
  <2>2. both[1] = root[1]
    BY <1>1, <2>1
  <2>3. ASSUME NEW i \in 1 .. m PROVE both[1 + i] = mine[i]
    <3>1. 1 + i \in 1 .. 1 + m /\ ~(1 + i <= 1) /\ (1 + i) - 1 = i
      BY <1>1
    <3> QED
      BY <2>1, <3>1
  <2> QED
    BY <2>1, <2>2, <2>3
<1> HIDE DEF both
<1>7. /\ Setup \in Seq(SetupRecord) /\ Len(Setup) = 1 + m + t
      /\ \A i \in 1 .. 1 + m : Setup[i] = both[i]
      /\ \A i \in 1 .. t : Setup[(1 + m) + i] = theirs[i]
  <2>0. Setup = both \o theirs
    BY <1>5 DEF both
  <2>1. /\ Setup \in Seq(SetupRecord) /\ Len(Setup) = (1 + m) + t
        /\ \A i \in 1 .. (1 + m) + t :
             Setup[i] = IF i <= 1 + m THEN both[i] ELSE theirs[i - (1 + m)]
    <3>1. /\ Setup \in Seq(SetupRecord) /\ Len(Setup) = Len(both) + Len(theirs)
          /\ \A i \in 1 .. Len(both) + Len(theirs) :
               Setup[i] = IF i <= Len(both) THEN both[i] ELSE theirs[i - Len(both)]
      BY <1>4, <1>6, <2>0, ConcatProperties, Zenon
    <3> QED
      BY <1>4, <1>6, <3>1, Zenon
  <2>2. \A i \in 1 .. 1 + m : Setup[i] = both[i]
    BY <1>1, <2>1
  <2>3. ASSUME NEW i \in 1 .. t PROVE Setup[(1 + m) + i] = theirs[i]
    <3>1. (1 + m) + i \in 1 .. (1 + m) + t /\ ~((1 + m) + i <= 1 + m)
          /\ ((1 + m) + i) - (1 + m) = i
      BY <1>1
    <3> QED
      BY <2>1, <3>1
  <2> QED
    BY <2>1, <2>2, <2>3
<1>8. ASSUME NEW c \in 1 .. Len(Setup) PROVE Parents(Setup, c) \subseteq 1 .. c - 1
  <2>1. CASE c = 1
    <3>1. Setup[c].parents = <<>>
      BY <1>1, <1>2, <1>6, <1>7, <2>1
    <3> QED
      BY <3>1 DEF Parents, ToSet
  <2>2. CASE c \in 2 .. 1 + m
    <3>1. c - 1 \in 1 .. m /\ 1 + (c - 1) = c
      BY <1>1, <2>2
    <3>2. Setup[c] = mine[c - 1]
      <4>1. c \in 1 .. 1 + m
        BY <1>1, <2>2
      <4>2. both[1 + (c - 1)] = mine[c - 1]
        BY <1>6, <3>1
      <4> QED
        BY <1>7, <3>1, <4>1, <4>2
    <3>3. Setup[c].parents = <<c - 1>>
      BY <1>1, <1>3, <2>2, <3>1, <3>2
    <3> QED
      BY <3>3, <2>2, <1>1 DEF Parents, ToSet
  <2>3. CASE c \in 2 + m .. 1 + m + t
    <3> DEFINE i == c - (1 + m)
    <3>1. i \in 1 .. t /\ (1 + m) + i = c
      BY <1>1, <2>3
    <3>2. Setup[c].parents = <<IF i = 1 THEN 1 ELSE c - 1>>
      <4>1. Setup[c] = theirs[i]
        BY <1>7, <3>1
      <4>2. (1 + m) + i - 1 = c - 1
        BY <1>1, <3>1
      <4> HIDE DEF i
      <4> QED
        BY <1>4, <3>1, <4>1, <4>2
    <3>3. c - 1 \in 1 .. c - 1 /\ 1 \in 1 .. c - 1
      BY <1>1, <2>3
    <3> HIDE DEF i
    <3>4. CASE i = 1
      <4>1. Setup[c].parents = <<1>>
        BY <3>2, <3>4
      <4> QED
        BY <3>3, <4>1 DEF Parents, ToSet
    <3>5. CASE i # 1
      <4>1. Setup[c].parents = <<c - 1>>
        BY <3>2, <3>5
      <4> QED
        BY <3>3, <4>1 DEF Parents, ToSet
    <3> QED
      BY <3>4, <3>5
  <2> QED
    BY <1>1, <1>7, <2>1, <2>2, <2>3
<1> QED
  BY <1>1, <1>7, <1>8 DEF Older, m, t

\* Initially everything is typed.
LEMMA InitTyped == Init => Typed
<1> SUFFICES ASSUME Init PROVE Typed
  OBVIOUS
<1>1. GraphTyped
  <2>1. SetupRecord \subseteq CommitRecord
    BY DEF SetupRecord, CommitRecord, Tree, Content, Sealed
  <2>2. Setup \in Seq(CommitRecord)
    BY <2>1, SetupTyped, SeqMonotonic
  <2> QED
    BY <2>2, SetupTyped, SetupAssumption DEF Init, GraphTyped, Ids
<1>2. branch \in Ids
  BY <1>1 DEF Init, GraphTyped
<1>3. TreeOf(branch) \in Tree /\ Empty \in Tree
  BY <1>1, <1>2, TreesTyped
<1>4. StateTyped
  BY <1>2, <1>3 DEF Init, StateTyped, MaybeIds, TreeOf
<1>5. PlanTyped
  BY <1>3 DEF Init, PlanTyped, MaybeIds
<1>6. OpTyped
  <2>1. op = Idle
    BY DEF Init
  <2>2. <<>> \in Seq(Ids)
    OBVIOUS
  <2>3. op \in OpRecord
    BY <1>3, <2>1, <2>2 DEF OpRecord, Idle, MaybeIds, Points, Names
  <2>4. op.pc = "idle" /\ op.cmd = "none"
    BY <2>1 DEF Idle
  <2> QED
    BY <2>3, <2>4 DEF OpTyped, Placed, Provided
<1> QED
  BY <1>1, <1>4, <1>5, <1>6 DEF Typed

-----------------------------------------------------------------------------
(* Every step keeps the types *)

\* Without a new commit the commits and what is typed by them are the same.
LEMMA SameGraph ==
  ASSUME UNCHANGED commits
  PROVE  /\ Ids' = Ids /\ MaybeIds' = MaybeIds /\ OpRecord' = OpRecord
         /\ (GraphTyped => GraphTyped')
BY DEF Ids, MaybeIds, OpRecord, GraphTyped

\* Reach and merge bases are commits.
LEMMA HistoryTyped ==
  ASSUME GraphTyped
  PROVE  /\ \A c \in Ids : c \in Reach[c] /\ Reach[c] \subseteq Ids
         /\ \A c, d \in Ids : MergeBases(c, d) \subseteq Ids
<1>1. ASSUME NEW c \in Ids PROVE c \in Reach[c] /\ Reach[c] \subseteq Ids
  <2>1. c \in 1 .. Len(commits) /\ Len(commits) \in Nat
    BY <1>1 DEF Ids, GraphTyped, Older
  <2>2. c \in Reach[c] /\ Reach[c] \subseteq 1 .. c
    BY <2>1, ReachBounds, ReachIsReachIn DEF GraphTyped
  <2> QED
    BY <2>1, <2>2 DEF Ids
<1> QED
  BY <1>1 DEF MergeBases

\* The list of a rebase is one of commits.
LEMMA ListTyped ==
  ASSUME GraphTyped, NEW tip \in Ids, NEW base \in Ids
  PROVE  ToReplay(tip, base) \in Seq(Ids)
<1> DEFINE S == Reach[tip] \ Reach[base]
<1>1. S \subseteq Ids /\ Len(commits) \in Nat
  BY HistoryTyped DEF GraphTyped, Older
<1>2. S \in SUBSET (1 .. Len(commits))
  BY <1>1 DEF Ids
<1>3. ToReplay(tip, base) =
        [i \in 1 .. Cardinality(S) |-> CHOOSE c \in S : Cardinality({d \in S : d <= c}) = i]
  BY DEF ToReplay
<1> HIDE DEF S
<1>4. ToReplay(tip, base) \in Seq(S)
  BY <1>1, <1>2, <1>3, ToReplayTyped
<1> QED
  BY <1>1, <1>4, SeqMonotonic

\* A command begins where it is placed and provided for.
LEMMA BeginTyped ==
  ASSUME Typed, NEW pc, NEW o, Begin(pc, o), UNCHANGED asked,
         (op \in OpRecord /\ Placed /\ Provided)'
  PROVE  Typed'
<1> USE DEF Begin, refs, state, asked
<1>1. GraphTyped'
  BY SameGraph DEF Typed
<1>2. StateTyped'
  BY SameGraph DEF Typed, StateTyped
<1>3. PlanTyped'
  BY SameGraph DEF Typed, PlanTyped
<1> QED
  BY <1>1, <1>2, <1>3 DEF Typed, OpTyped

\* A command as it starts: typed, idle until it is placed.
LEMMA NewTyped ==
  ASSUME Typed, NEW cmd \in Names
  PROVE  /\ New(cmd) \in OpRecord
         /\ New(cmd).cmd = cmd /\ New(cmd).at = branch /\ New(cmd).at # 0
         /\ New(cmd).of = 0 /\ New(cmd).to = 0 /\ New(cmd).todo = <<>>
<1>1. Empty \in Tree /\ branch \in Ids /\ branch # 0 /\ <<>> \in Seq(Ids)
  BY TreesTyped DEF Typed, StateTyped, Ids
<1> QED
  BY <1>1 DEF New, Idle, OpRecord, MaybeIds, Points, Names

\* A result goes to the index as a conflict or to a checkout.
LEMMA ApplyTyped ==
  ASSUME Typed, NEW o \in OpRecord, NEW base \in Tree, NEW theirs \in Tree,
         Apply(o, base, theirs), UNCHANGED asked,
         o.cmd \in {"merge", "pick", "revert"}, o.at # 0, o.of # 0
  PROVE  Typed'
<1> DEFINE pc == IF Conflicts(base, HeadTree, theirs) # {} THEN "materialise" ELSE "checkout"
           q == [o EXCEPT !.tree = Merged(base, HeadTree, theirs), !.base = base]
<1>1. Merged(base, HeadTree, theirs) \in Tree
  BY TreesTyped, MergedIsTree DEF HeadTree, Typed, StateTyped
<1>2. Begin(pc, q)
  BY DEF Apply
<1>3. q \in OpRecord /\ q.cmd = o.cmd /\ q.at = o.at /\ q.of = o.of
  BY <1>1 DEF OpRecord
<1>4. op' = [q EXCEPT !.pc = pc] /\ UNCHANGED commits
  BY <1>2 DEF Begin, Goto, refs
<1>5. pc \in {"materialise", "checkout"}
  OBVIOUS
<1> HIDE DEF pc, q
<1>6. op' \in OpRecord /\ op'.pc = pc /\ op'.cmd = o.cmd /\ op'.at = o.at /\ op'.of = o.of
  BY <1>3, <1>4, <1>5 DEF OpRecord, Points
<1>7. (op \in OpRecord)'
  BY <1>4, <1>6, SameGraph
<1>8. Placed' /\ Provided'
  BY <1>5, <1>6 DEF Placed, Provided
<1> QED
  BY <1>2, <1>7, <1>8, BeginTyped

\* What the commands that start do to op: the fields they fill in.
LEMMA BeginAt ==
  ASSUME Typed, NEW pc \in Points, NEW o \in OpRecord, Begin(pc, o)
  PROVE  /\ (op \in OpRecord)' /\ UNCHANGED commits
         /\ op'.pc = pc /\ op'.cmd = o.cmd /\ op'.at = o.at /\ op'.of = o.of
         /\ op'.to = o.to /\ op'.todo = o.todo
<1>1. op' = [o EXCEPT !.pc = pc] /\ UNCHANGED commits
  BY DEF Begin, Goto, refs
<1>2. /\ op' \in OpRecord /\ op'.pc = pc /\ op'.cmd = o.cmd /\ op'.at = o.at /\ op'.of = o.of
      /\ op'.to = o.to /\ op'.todo = o.todo
  BY <1>1 DEF OpRecord
<1> QED
  BY <1>1, <1>2, SameGraph

\* A merge, a cherry-pick and a revert start typed.
LEMMA MergeStartTyped ==
  ASSUME Typed
  PROVE  /\ \A c \in Ids, noFf \in BOOLEAN : Merge(c, noFf) => Typed'
         /\ \A c \in Ids : CherryPick(c) => Typed'
         /\ \A c \in Ids : Revert(c) => Typed'
<1> branch \in Ids /\ GraphTyped
  BY DEF Typed, StateTyped
<1>1. ASSUME NEW c \in Ids, NEW noFf \in BOOLEAN, Merge(c, noFf) PROVE Typed'
  <2> DEFINE o == [New("merge") EXCEPT !.of = c]
  <2>1. TreeOf(c) \in Tree /\ c # 0
    BY TreesTyped DEF Ids
  <2>2. o \in OpRecord /\ o.cmd = "merge" /\ o.at # 0 /\ o.of = c
    BY <2>1, NewTyped DEF OpRecord, MaybeIds, Names
  <2>3. UNCHANGED asked
    BY <1>1 DEF Merge
  <2>4. CASE IsAncestor(branch, c) /\ ~noFf
    <3> DEFINE q == [o EXCEPT !.cmd = "ff", !.tree = TreeOf(c)]
    <3>1. Begin("checkout", q)
      BY <1>1, <2>4 DEF Merge
    <3>2. q \in OpRecord /\ q.cmd = "ff" /\ q.at # 0 /\ q.of # 0
      <4> HIDE DEF o
      <4> QED
        BY <2>1, <2>2 DEF OpRecord, Names
    <3> HIDE DEF q, o
    <3>3. (op \in OpRecord)' /\ op'.pc = "checkout" /\ op'.cmd = "ff" /\ op'.at # 0 /\ op'.of # 0
      BY <3>1, <3>2, BeginAt DEF Points
    <3>4. Placed' /\ Provided'
      BY <3>3 DEF Placed, Provided
    <3> QED
      BY <2>3, <3>1, <3>3, <3>4, BeginTyped
  <2>5. CASE ~(IsAncestor(branch, c) /\ ~noFf)
    <3>1. PICK b \in MergeBases(branch, c) : Apply(o, TreeOf(b), TreeOf(c))
      BY <1>1, <2>5 DEF Merge
    <3>2. TreeOf(b) \in Tree
      BY <3>1, HistoryTyped, TreesTyped
    <3> HIDE DEF o
    <3> QED
      BY <2>1, <2>2, <2>3, <3>1, <3>2, ApplyTyped
  <2> QED
    BY <2>4, <2>5
<1>2. ASSUME NEW c \in Ids, CherryPick(c) PROVE Typed'
  <2> DEFINE o == [New("pick") EXCEPT !.of = c]
  <2>1. TreeOf(c) \in Tree /\ ParentTree(c) \in Tree /\ c # 0
    BY TreesTyped DEF Ids
  <2>2. o \in OpRecord /\ o.cmd = "pick" /\ o.at # 0 /\ o.of = c
    BY <2>1, NewTyped DEF OpRecord, MaybeIds, Names
  <2>3. Apply(o, ParentTree(c), TreeOf(c)) /\ UNCHANGED asked
    BY <1>2 DEF CherryPick
  <2> HIDE DEF o
  <2> QED
    BY <2>1, <2>2, <2>3, ApplyTyped
<1>3. ASSUME NEW c \in Ids, Revert(c) PROVE Typed'
  <2> DEFINE o == [New("revert") EXCEPT !.of = c]
  <2>1. TreeOf(c) \in Tree /\ ParentTree(c) \in Tree /\ c # 0
    BY TreesTyped DEF Ids
  <2>2. o \in OpRecord /\ o.cmd = "revert" /\ o.at # 0 /\ o.of = c
    BY <2>1, NewTyped DEF OpRecord, MaybeIds, Names
  <2>3. Apply(o, TreeOf(c), ParentTree(c)) /\ UNCHANGED asked
    BY <1>3 DEF Revert
  <2> HIDE DEF o
  <2> QED
    BY <2>1, <2>2, <2>3, ApplyTyped
<1> QED
  BY <1>1, <1>2, <1>3

\* A rebase starts typed, with the list it will replay.
LEMMA RebaseStartTyped ==
  ASSUME Typed, NEW upstream \in Ids, NEW onto \in Ids, Rebase(upstream, onto)
  PROVE  Typed'
<1> branch \in Ids /\ GraphTyped
  BY DEF Typed, StateTyped
<1>1. PICK b \in MergeBases(branch, upstream) :
        LET todo == ToReplay(branch, b)
            o == [New("rebase") EXCEPT !.to = onto, !.tree = TreeOf(onto), !.todo = todo]
        IN /\ ~InProgress /\ Clean(HeadTree)
           /\ \A c \in ToSet(todo) : ~IsMerge(c)
           /\ IF todo = <<>> THEN onto # branch /\ Begin("base", o) /\ UNCHANGED asked
              ELSE /\ Begin("name", o)
                   /\ plan' = [tip |-> branch, base |-> b, onto |-> onto, todo |-> todo]
                   /\ skipped' = {} /\ stopped' = 0 /\ blind' = FALSE
  BY DEF Rebase
<1> DEFINE todo == ToReplay(branch, b)
           o == [New("rebase") EXCEPT !.to = onto, !.tree = TreeOf(onto), !.todo = todo]
<1>2. b \in Ids /\ todo \in Seq(Ids)
  BY HistoryTyped, ListTyped
<1>3. TreeOf(onto) \in Tree /\ onto # 0 /\ b \in MaybeIds /\ onto \in MaybeIds
  BY <1>2, TreesTyped DEF Ids, MaybeIds
<1>4. CASE todo = <<>>
  <2>1. Begin("base", o) /\ UNCHANGED asked
    BY <1>1, <1>4
  <2> HIDE DEF todo
  <2>2. o \in OpRecord /\ o.cmd = "rebase" /\ o.at # 0 /\ o.to = onto
    BY <1>2, <1>3, NewTyped DEF OpRecord, Names
  <2> HIDE DEF o
  <2>3. (op \in OpRecord)' /\ op'.pc = "base" /\ op'.cmd = "rebase" /\ op'.at # 0 /\ op'.to # 0
    BY <1>3, <2>1, <2>2, BeginAt DEF Points
  <2>4. Placed' /\ Provided'
    BY <2>3 DEF Placed, Provided
  <2> QED
    BY <2>1, <2>3, <2>4, BeginTyped
<1>5. CASE todo # <<>>
  <2>1. /\ Begin("name", o)
        /\ plan' = [tip |-> branch, base |-> b, onto |-> onto, todo |-> todo]
        /\ skipped' = {}
    BY <1>1, <1>5
  <2> HIDE DEF todo
  <2>2. o \in OpRecord /\ o.cmd = "rebase" /\ o.at # 0 /\ o.to = onto
    BY <1>2, <1>3, NewTyped DEF OpRecord, Names
  <2> HIDE DEF o
  <2>3. (op \in OpRecord)' /\ op'.pc = "name" /\ op'.cmd = "rebase" /\ op'.at # 0 /\ op'.to # 0
    BY <1>3, <2>1, <2>2, BeginAt DEF Points
  <2>4. Placed' /\ Provided'
    BY <2>3 DEF Placed, Provided
  <2>5. GraphTyped' /\ StateTyped' /\ UNCHANGED commits
    BY <2>1, SameGraph DEF Typed, StateTyped, Begin, refs, state
  <2>6. PlanTyped'
    BY <1>2, <1>3, <2>1, <2>5, SameGraph DEF PlanTyped, MaybeIds
  <2> QED
    BY <2>3, <2>4, <2>5, <2>6 DEF Typed, OpTyped
<1> QED
  BY <1>4, <1>5

\* The commands that go on with something start typed.
LEMMA FollowUpStartTyped ==
  ASSUME Typed
  PROVE  /\ \A h \in {"merge", "pick", "revert"} : Continue(h) => Typed'
         /\ PlainCommit \/ ContinueRebase \/ SkipRebase => Typed'
<1> branch \in Ids /\ idx.tree \in Tree /\ rebase.todo \in Seq(Ids)
  BY DEF Typed, StateTyped
<1>1. ASSUME NEW h \in {"merge", "pick", "revert"}, Continue(h) PROVE Typed'
  <2> DEFINE o == [New(h) EXCEPT !.cmd = "continue", !.of = heads[h], !.tree = idx.tree]
  <2>1. Begin("seal", o) /\ UNCHANGED asked
    BY <1>1 DEF Continue
  <2>2. heads[h] \in MaybeIds
    BY DEF Typed, StateTyped
  <2>3. o \in OpRecord /\ o.cmd = "continue"
    <3> DEFINE first == New(h)
               c == heads[h]
    <3>1. first \in OpRecord /\ c \in MaybeIds
      BY <2>2, NewTyped DEF Names
    <3> HIDE DEF first, c
    <3>2. LET q == [first EXCEPT !.cmd = "continue", !.of = c, !.tree = idx.tree]
          IN q \in OpRecord /\ q.cmd = "continue"
      BY <3>1 DEF OpRecord, Names
    <3> QED
      BY <3>2 DEF first, c
  <2> HIDE DEF o
  <2>4. (op \in OpRecord)' /\ op'.pc = "seal" /\ op'.cmd = "continue"
    BY <2>1, <2>3, BeginAt DEF Points
  <2>5. Placed' /\ Provided'
    BY <2>4 DEF Placed, Provided
  <2> QED
    BY <2>1, <2>4, <2>5, BeginTyped
<1>2. ASSUME PlainCommit PROVE Typed'
  <2> DEFINE o == [New("commit") EXCEPT !.tree = idx.tree]
  <2>1. Begin("seal", o) /\ UNCHANGED asked
    BY <1>2 DEF PlainCommit
  <2>2. o \in OpRecord /\ o.cmd = "commit"
    BY NewTyped DEF OpRecord, Names
  <2> HIDE DEF o
  <2>3. (op \in OpRecord)' /\ op'.pc = "seal" /\ op'.cmd = "commit"
    BY <2>1, <2>2, BeginAt DEF Points
  <2>4. Placed' /\ Provided'
    BY <2>3 DEF Placed, Provided
  <2> QED
    BY <2>1, <2>3, <2>4, BeginTyped
<1>3. ASSUME ContinueRebase PROVE Typed'
  <2> DEFINE o == [New("rebase") EXCEPT !.todo = rebase.todo]
             q == [o EXCEPT !.cmd = "resolved", !.of = rebase.todo[1], !.tree = idx.tree]
  <2>1. o \in OpRecord /\ o.cmd = "rebase" /\ o.todo = rebase.todo
    BY NewTyped DEF OpRecord, Names
  <2>2. CASE rebase.todo = <<>>
    <3>1. Begin("replay", o) /\ UNCHANGED asked
      BY <1>3, <2>2 DEF ContinueRebase
    <3> HIDE DEF o
    <3>2. (op \in OpRecord)' /\ op'.pc = "replay" /\ op'.cmd = "rebase"
      BY <2>1, <3>1, BeginAt DEF Points
    <3>3. Placed' /\ Provided'
      BY <3>2 DEF Placed, Provided
    <3> QED
      BY <3>1, <3>2, <3>3, BeginTyped
  <2>3. CASE rebase.todo # <<>>
    <3>1. Begin("seal", q) /\ UNCHANGED <<plan, skipped>>
      BY <1>3, <2>3 DEF ContinueRebase
    <3>2. rebase.todo[1] \in Ids
      BY <2>3
    <3> HIDE DEF o
    <3>3. q \in OpRecord /\ q.cmd = "resolved" /\ q.todo # <<>> /\ q.of # 0
      <4> DEFINE c == rebase.todo[1]
      <4>1. c \in MaybeIds /\ c # 0
        BY <3>2 DEF MaybeIds, Ids
      <4>2. q = [o EXCEPT !.cmd = "resolved", !.of = c, !.tree = idx.tree]
        OBVIOUS
      <4> HIDE DEF q, c
      <4> QED
        BY <2>1, <2>3, <4>1, <4>2 DEF OpRecord, Names
    <3> HIDE DEF q
    <3>4. /\ (op \in OpRecord)' /\ op'.pc = "seal" /\ op'.cmd = "resolved"
          /\ op'.todo # <<>> /\ op'.of # 0
      BY <3>1, <3>3, BeginAt DEF Points
    <3>5. Placed' /\ Provided'
      BY <3>4 DEF Placed, Provided
    <3>6. GraphTyped' /\ StateTyped' /\ PlanTyped'
      BY <3>1, SameGraph DEF Typed, StateTyped, PlanTyped, Begin, refs, state
    <3> QED
      BY <3>4, <3>5, <3>6 DEF Typed, OpTyped
  <2> QED
    BY <2>2, <2>3
<1>4. ASSUME SkipRebase PROVE Typed'
  <2> DEFINE o == [New("skip") EXCEPT !.todo = rebase.todo]
             pc == IF rebase.todo = <<>> THEN "replay" ELSE "restore"
  <2>1. Begin(pc, o) /\ UNCHANGED asked
    BY <1>4 DEF SkipRebase
  <2>2. o \in OpRecord /\ o.cmd = "skip" /\ o.todo = rebase.todo
    BY NewTyped DEF OpRecord, Names
  <2>3. pc \in Points
    BY DEF Points
  <2>4. pc = "replay" \/ (pc = "restore" /\ rebase.todo # <<>>)
    OBVIOUS
  <2> HIDE DEF o, pc
  <2>5. (op \in OpRecord)' /\ op'.pc = pc /\ op'.cmd = "skip" /\ op'.todo = rebase.todo
    BY <2>1, <2>2, <2>3, BeginAt
  <2>6. Placed' /\ Provided'
    BY <2>4, <2>5 DEF Placed, Provided
  <2> QED
    BY <2>1, <2>5, <2>6, BeginTyped
<1> QED
  BY <1>1, <1>2, <1>3, <1>4

\* Every start of a command keeps the types.
LEMMA StartTyped ==
  ASSUME Typed, Start
  PROVE  Typed'
<1>1. Upstreams \subseteq Ids /\ Reach[branch] \subseteq Ids
  BY HistoryTyped DEF Typed, GraphTyped, StateTyped
<1>2. DOMAIN heads = {"merge", "pick", "revert"}
  BY DEF Typed, StateTyped
<1> QED
  BY <1>1, <1>2, MergeStartTyped, RebaseStartTyped, FollowUpStartTyped DEF Start

\* A larger graph has all the commits of the smaller one.
LEMMA WiderGraph ==
  ASSUME Ids \subseteq Ids'
  PROVE  /\ MaybeIds \subseteq MaybeIds' /\ OpRecord \subseteq OpRecord'
         /\ Seq(Ids) \subseteq Seq(Ids')
<1>1. Seq(Ids) \subseteq Seq(Ids')
  BY SeqMonotonic
<1>2. MaybeIds \subseteq MaybeIds'
  BY DEF MaybeIds
<1> HIDE DEF MaybeIds
<1>3. OpRecord \subseteq OpRecord'
  <2> DEFINE S == Seq(Ids)
             T == Seq(Ids)'
             M == MaybeIds
             N == MaybeIds'
  <2>1. S \subseteq T /\ M \subseteq N
    BY <1>1, <1>2
  <2> HIDE DEF S, T, M, N
  <2>2. [pc : Points, cmd : Names, at : M, of : M, to : M, tree : Tree, base : Tree, todo : S]
          \subseteq
        [pc : Points, cmd : Names, at : N, of : N, to : N, tree : Tree, base : Tree, todo : T]
    BY <2>1
  <2> QED
    BY <2>2 DEF OpRecord, S, T, M, N
<1> QED
  BY <1>1, <1>2, <1>3

\* A command that goes to another program point keeps what it knows.
LEMMA GotoAt ==
  ASSUME NEW pc \in Points, NEW o \in OpRecord, Goto(pc, o)
  PROVE  /\ op' \in OpRecord
         /\ op'.pc = pc /\ op'.cmd = o.cmd /\ op'.at = o.at /\ op'.of = o.of
         /\ op'.to = o.to /\ op'.tree = o.tree /\ op'.base = o.base /\ op'.todo = o.todo
BY DEF Goto, OpRecord

\* A command that returns is idle.
LEMMA ReturnTyped ==
  ASSUME Return \/ op' = Rebased
  PROVE  /\ op' \in OpRecord /\ op'.pc = "idle" /\ op'.cmd \in {"none", "rebased"}
         /\ Placed' /\ Provided'
<1>1. Empty \in Tree /\ <<>> \in Seq(Ids)
  BY DEF Empty, Tree
<1>2. Idle \in OpRecord /\ Idle.pc = "idle" /\ Idle.cmd = "none"
  BY <1>1 DEF Idle, OpRecord, MaybeIds, Points, Names
<1>3. Rebased \in OpRecord /\ Rebased.pc = "idle" /\ Rebased.cmd = "rebased"
  BY <1>2 DEF Rebased, OpRecord, Names
<1>4. op' \in OpRecord /\ op'.pc = "idle" /\ op'.cmd \in {"none", "rebased"}
  BY <1>2, <1>3 DEF Return
<1> QED
  BY <1>4 DEF Placed, Provided

\* A step that changes only the command and the bounds keeps the types when the
\* command is typed after it.
LEMMA OnlyOp ==
  ASSUME Typed, UNCHANGED <<commits, branch, origHead, idx, heads, rebase, plan, skipped>>,
         op' \in OpRecord, Placed', Provided'
  PROVE  Typed'
<1>1. GraphTyped' /\ (op \in OpRecord)'
  BY SameGraph DEF Typed
<1>2. StateTyped' /\ PlanTyped'
  BY SameGraph DEF Typed, StateTyped, PlanTyped
<1> QED
  BY <1>1, <1>2 DEF Typed, OpTyped

\* The steps that change only the command: a seal, what is replayed next, a
\* checkout refused, an --abort that starts and a kill.
LEMMA CommandStepTyped ==
  ASSUME Typed, Seal \/ Replay \/ CheckoutRefused \/ Abort \/ AbortRebase \/ Kill
  PROVE  Typed'
<1> op \in OpRecord /\ Placed /\ Provided /\ branch \in Ids /\ branch # 0
  BY DEF Typed, OpTyped, StateTyped, Ids
<1> USE DEF refs, state, ghosts, asked
<1>1. CASE Seal
  <2> DEFINE o == [op EXCEPT !.at = branch]
  <2>1. Goto("record", o) /\ op.pc = "seal"
    BY <1>1 DEF Seal
  <2>2. /\ o \in OpRecord /\ o.cmd = op.cmd /\ o.at = branch /\ o.of = op.of
        /\ o.to = op.to /\ o.todo = op.todo
    BY DEF OpRecord, MaybeIds
  <2> HIDE DEF o
  <2>3. /\ op' \in OpRecord /\ op'.pc = "record" /\ op'.cmd = op.cmd /\ op'.at = branch
        /\ op'.of = op.of /\ op'.todo = op.todo
    BY <2>1, <2>2, GotoAt DEF Points
  <2>4. Placed' /\ Provided'
    BY <2>1, <2>3 DEF Placed, Provided
  <2> QED
    BY <1>1, <2>3, <2>4, OnlyOp DEF Seal
<1>2. CASE Replay
  <2>0. op.pc = "replay" /\ op.cmd \in {"rebase", "resolved", "skip"}
    BY <1>2 DEF Replay, Placed
  <2> DEFINE c == op.todo[1]
             base == ParentTree(c)
             tree == Merged(base, HeadTree, TreeOf(c))
             o == [op EXCEPT !.cmd = "rebase", !.of = c, !.at = branch, !.tree = tree, !.base = base]
  <2>1. CASE op.todo = <<>>
    <3>1. Goto("clearname", op)
      BY <1>2, <2>1 DEF Replay
    <3>2. op' \in OpRecord /\ op'.pc = "clearname" /\ op'.cmd = op.cmd
      BY <3>1, GotoAt DEF Points
    <3>3. Placed' /\ Provided'
      BY <2>0, <3>2 DEF Placed, Provided
    <3> QED
      BY <1>2, <3>2, <3>3, OnlyOp DEF Replay
  <2>2. CASE op.todo # <<>>
    <3>1. \E pc \in {"seal", "advance", "materialise", "checkout"} : Goto(pc, o)
      BY <1>2, <2>2 DEF Replay
    <3>2. op.todo \in Seq(Ids)
      BY DEF OpRecord
    <3>3. c \in Ids
      BY <2>2, <3>2
    <3>4. base \in Tree /\ TreeOf(c) \in Tree /\ HeadTree \in Tree
      BY <3>3, TreesTyped DEF Typed, HeadTree
    <3>5. tree \in Tree
      BY <3>4, MergedIsTree
    <3> HIDE DEF c, base, tree
    <3>6. /\ o \in OpRecord /\ o.cmd = "rebase" /\ o.at # 0 /\ o.of # 0
          /\ o.todo # <<>>
      <4>1. c \in MaybeIds /\ c # 0 /\ branch \in MaybeIds
        BY <3>3 DEF MaybeIds, Ids
      <4>2. o = [op EXCEPT !.cmd = "rebase", !.of = c, !.at = branch, !.tree = tree, !.base = base]
        OBVIOUS
      <4> HIDE DEF o
      <4> QED
        BY <2>2, <3>4, <3>5, <4>1, <4>2 DEF OpRecord, Names
    <3> HIDE DEF o
    <3>7. PICK pc \in {"seal", "advance", "materialise", "checkout"} : Goto(pc, o)
      BY <3>1
    <3>8. /\ op' \in OpRecord /\ op'.pc = pc /\ op'.cmd = "rebase" /\ op'.at # 0
          /\ op'.of # 0 /\ op'.todo # <<>>
      BY <3>6, <3>7, GotoAt DEF Points
    <3>9. Placed' /\ Provided'
      BY <3>7, <3>8 DEF Placed, Provided
    <3> QED
      BY <1>2, <3>8, <3>9, OnlyOp DEF Replay
  <2> QED
    BY <2>1, <2>2
<1>3. CASE CheckoutRefused
  <2>1. Return \/ Goto("clearname", [op EXCEPT !.cmd = "failed"])
    BY <1>3 DEF CheckoutRefused, Withdraw
  <2>2. CASE Return
    BY <1>3, <2>2, ReturnTyped, OnlyOp DEF CheckoutRefused
  <2>3. CASE Goto("clearname", [op EXCEPT !.cmd = "failed"])
    <3>1. [op EXCEPT !.cmd = "failed"] \in OpRecord /\ [op EXCEPT !.cmd = "failed"].cmd = "failed"
      BY DEF OpRecord, Names
    <3>2. op' \in OpRecord /\ op'.pc = "clearname" /\ op'.cmd = "failed"
      BY <2>3, <3>1, GotoAt DEF Points
    <3>3. Placed' /\ Provided'
      BY <3>2 DEF Placed, Provided
    <3> QED
      BY <1>3, <3>2, <3>3, OnlyOp DEF CheckoutRefused
  <2> QED
    BY <2>1, <2>2, <2>3
<1>4. CASE Abort
  <2>1. Goto("restore", New("abort"))
    BY <1>4 DEF Abort
  <2>2. op' \in OpRecord /\ op'.pc = "restore" /\ op'.cmd = "abort"
    BY <2>1, GotoAt, NewTyped DEF Points, Names
  <2>3. Placed' /\ Provided'
    BY <2>2 DEF Placed, Provided
  <2> QED
    BY <1>4, <2>2, <2>3, OnlyOp DEF Abort
<1>5. CASE AbortRebase
  <2> DEFINE o == [New("abortrebase") EXCEPT !.to = rebase.orig]
  <2>1. Goto("reset", o) /\ rebase.orig # 0 /\ rebase.orig \in MaybeIds
    BY <1>5 DEF AbortRebase, Readable, Typed, StateTyped
  <2>2. o \in OpRecord /\ o.cmd = "abortrebase" /\ o.to # 0
    BY <2>1, NewTyped DEF OpRecord, Names
  <2> HIDE DEF o
  <2>3. op' \in OpRecord /\ op'.pc = "reset" /\ op'.cmd = "abortrebase" /\ op'.to # 0
    BY <2>1, <2>2, GotoAt DEF Points
  <2>4. Placed' /\ Provided'
    BY <2>3 DEF Placed, Provided
  <2> QED
    BY <1>5, <2>3, <2>4, OnlyOp DEF AbortRebase
<1>6. CASE Kill
  BY <1>6, ReturnTyped, OnlyOp DEF Kill
<1> QED
  BY <1>1, <1>2, <1>3, <1>4, <1>5, <1>6

\* A step that makes no commit keeps the types when the files and the command
\* are typed after it.
LEMMA SameCommits ==
  ASSUME Typed, UNCHANGED <<commits, plan>>, skipped' \subseteq Ids,
         branch' \in Ids, origHead' \in MaybeIds,
         idx' \in [tree : Tree, unmerged : SUBSET Paths],
         \A p \in idx'.unmerged : idx'.tree[p] = {},
         heads' \in [{"merge", "pick", "revert"} -> MaybeIds],
         rebase' \in [name : BOOLEAN, orig : MaybeIds, onto : MaybeIds, todo : Seq(Ids)],
         op' \in OpRecord, Placed', Provided'
  PROVE  Typed'
<1>1. GraphTyped' /\ Ids' = Ids /\ MaybeIds' = MaybeIds /\ OpRecord' = OpRecord
  BY SameGraph DEF Typed
<1>2. PlanTyped'
  BY <1>1 DEF Typed, PlanTyped
<1>3. StateTyped'
  BY <1>1 DEF StateTyped
<1>4. OpTyped'
  BY <1>1 DEF OpTyped
<1> QED
  BY <1>1, <1>2, <1>3, <1>4 DEF Typed

\* The steps on the index and the work tree.
LEMMA IndexStepTyped ==
  ASSUME Typed, Checkout \/ Unmerge \/ Restore \/ User
  PROVE  Typed'
<1> /\ op \in OpRecord /\ Placed /\ Provided /\ branch \in Ids /\ branch # 0 /\ origHead \in MaybeIds
    /\ idx \in [tree : Tree, unmerged : SUBSET Paths]
    /\ \A p \in idx.unmerged : idx.tree[p] = {}
    /\ heads \in [{"merge", "pick", "revert"} -> MaybeIds]
    /\ rebase \in [name : BOOLEAN, orig : MaybeIds, onto : MaybeIds, todo : Seq(Ids)]
    /\ skipped \subseteq Ids
  BY DEF Typed, OpTyped, StateTyped, PlanTyped, Ids
<1> USE DEF refs, state, ghosts, asked
<1>0. GraphTyped /\ HeadTree \in Tree
  BY TreesTyped DEF Typed, HeadTree
<1>1. CASE Checkout
  <2>1. /\ op.pc \in {"materialise", "checkout", "base"} /\ idx.unmerged = {}
        /\ idx' = [idx EXCEPT !.tree = Carried(TreeOf(op.at), op.tree)]
        /\ Goto(AfterCheckout, op)
    BY <1>1 DEF Checkout, Allows
  <2>2. op.tree \in Tree
    BY DEF OpRecord
  <2>3. Carried(TreeOf(op.at), op.tree) \in Tree
    BY <2>2 DEF Carried, Tree
  <2>4. idx' \in [tree : Tree, unmerged : SUBSET Paths] /\ idx'.unmerged = {}
    <3> HIDE DEF Tree
    <3> QED
      BY <2>1, <2>3
  <2>5. \/ op.pc = "materialise" /\ AfterCheckout = "unmerge"
        \/ op.pc = "base" /\ AfterCheckout = "reset"
        \/ op.pc = "checkout" /\ op.cmd \in {"ff", "merge"} /\ AfterCheckout = "finish"
        \/ op.pc = "checkout" /\ op.cmd \in {"pick", "revert"} /\ AfterCheckout = "record"
        \/ op.pc = "checkout" /\ op.cmd = "rebase" /\ AfterCheckout = "seal"
    <3>1. CASE op.pc = "materialise"
      BY <3>1 DEF AfterCheckout
    <3>2. CASE op.pc = "base"
      BY <3>2 DEF AfterCheckout
    <3>3. CASE op.pc = "checkout"
      <4>1. op.cmd \in {"merge", "ff", "pick", "revert", "rebase"}
        BY <3>3 DEF Placed
      <4> QED
        BY <3>3, <4>1 DEF AfterCheckout
    <3> QED
      BY <2>1, <3>1, <3>2, <3>3
  <2>6. AfterCheckout \in Points
    BY <2>5 DEF Points
  <2>7. /\ op' \in OpRecord /\ op'.pc = AfterCheckout /\ op'.cmd = op.cmd /\ op'.at = op.at
        /\ op'.of = op.of /\ op'.to = op.to /\ op'.todo = op.todo
    BY <2>1, <2>6, GotoAt
  <2>8. Placed'
    BY <2>5, <2>7 DEF Placed
  <2>9. Provided'
    BY <2>5, <2>7 DEF Provided, Placed
  <2> QED
    BY <1>1, <2>4, <2>7, <2>8, <2>9, SameCommits DEF Checkout
<1>2. CASE Unmerge
  <2> DEFINE theirs == IF op.cmd = "revert" THEN ParentTree(op.of) ELSE TreeOf(op.of)
             cs == Conflicts(op.base, TreeOf(op.at), theirs)
  <2>1. /\ op.pc = "unmerge"
        /\ idx' = [tree |-> [p \in Paths |-> IF p \in cs THEN {} ELSE idx.tree[p]],
                   unmerged |-> cs]
        /\ Return \/ (op.cmd # "rebase" /\ Goto("orig", op))
    BY <1>2 DEF Unmerge
  <2>2. cs \subseteq Paths
    BY DEF Conflicts
  <2> HIDE DEF cs
  <2>3. idx' \in [tree : Tree, unmerged : SUBSET Paths] /\ \A p \in idx'.unmerged : idx'.tree[p] = {}
    BY <2>1, <2>2 DEF Tree
  <2>4. op' \in OpRecord /\ Placed' /\ Provided'
    <3>1. CASE Return
      BY <3>1, ReturnTyped
    <3>2. CASE op.cmd # "rebase" /\ Goto("orig", op)
      <4>1. op' \in OpRecord /\ op'.pc = "orig" /\ op'.cmd = op.cmd /\ op'.at = op.at /\ op'.of = op.of
        BY <3>2, GotoAt DEF Points
      <4> QED
        BY <2>1, <3>2, <4>1 DEF Placed, Provided
    <3> QED
      BY <2>1, <3>1, <3>2
  <2> QED
    BY <1>2, <2>3, <2>4, SameCommits DEF Unmerge
<1>3. CASE Restore
  <2> DEFINE pc == CASE op.cmd = "abort" -> "clear"
                     [] op.cmd = "abortrebase" -> "clearname"
                     [] op.cmd = "skip" -> "advance"
             tree == IF op.cmd = "abortrebase" THEN TreeOf(op.to) ELSE HeadTree
  <2>1. op.pc = "restore" /\ idx' = [tree |-> tree, unmerged |-> {}] /\ Goto(pc, op)
    BY <1>3 DEF Restore
  <2>2. op.cmd = "abortrebase" => op.to \in Ids
    BY <2>1 DEF Provided, OpRecord, MaybeIds
  <2>3. tree \in Tree
    BY <1>0, <2>2, TreesTyped
  <2>4. idx' \in [tree : Tree, unmerged : SUBSET Paths] /\ \A p \in idx'.unmerged : idx'.tree[p] = {}
    <3> HIDE DEF tree
    <3> QED
      BY <2>1, <2>3
  <2>5. \/ op.cmd = "abort" /\ pc = "clear"
        \/ op.cmd = "abortrebase" /\ pc = "clearname"
        \/ op.cmd = "skip" /\ pc = "advance"
    BY <2>1 DEF Placed
  <2> HIDE DEF pc
  <2>6. /\ op' \in OpRecord /\ op'.pc = pc /\ op'.cmd = op.cmd
        /\ op'.to = op.to /\ op'.todo = op.todo
    BY <2>1, <2>5, GotoAt DEF Points
  <2>7. Placed' /\ Provided'
    BY <2>1, <2>5, <2>6 DEF Placed, Provided
  <2> QED
    BY <1>3, <2>4, <2>6, <2>7, SameCommits DEF Restore
<1>4. CASE \E c \in Edits : Edit(c)
  <2>1. PICK c \in Edits : Edit(c)
    BY <1>4
  <2>2. PathOf[c] \in Paths /\ c \in Content
    BY <2>1, PathAssumption, ChangeAssumption DEF Content
  <2>3. idx' = [idx EXCEPT !.tree[PathOf[c]] = @ \cup {c}] /\ PathOf[c] \notin idx.unmerged
    BY <2>1 DEF Edit
  <2>4. /\ idx' \in [tree : Tree, unmerged : SUBSET Paths]
        /\ \A p \in idx'.unmerged : idx'.tree[p] = {}
    BY <2>2, <2>3 DEF Tree
  <2>5. Placed' /\ Provided'
    BY <2>1 DEF Edit, Placed, Provided
  <2> QED
    BY <2>1, <2>4, <2>5, SameCommits DEF Edit
<1>5. CASE \E p \in Paths : Resolve(p)
  <2>1. PICK p \in Paths : Resolve(p)
    BY <1>5
  <2>2. PICK extra \in {{}} \cup {{c} : c \in {d \in Changes \ (Foreign \cup Edits) : PathOf[d] = p}} :
          idx' = [tree |-> [idx.tree EXCEPT ![p] = (HeadTree[p] \ {Marker}) \cup extra],
                  unmerged |-> idx.unmerged \ {p}]
    BY <2>1 DEF Resolve
  <2>3. extra \subseteq Content
    BY DEF Content
  <2>4. (HeadTree[p] \ {Marker}) \cup extra \in SUBSET Content
    BY <1>0, <2>3 DEF Tree
  <2> DEFINE new == (HeadTree[p] \ {Marker}) \cup extra
  <2> HIDE DEF new
  <2>5. idx' = [tree |-> [idx.tree EXCEPT ![p] = new], unmerged |-> idx.unmerged \ {p}]
        /\ new \in SUBSET Content
    BY <2>2, <2>4 DEF new
  <2>6. /\ idx' \in [tree : Tree, unmerged : SUBSET Paths]
        /\ \A q \in idx'.unmerged : idx'.tree[q] = {}
    BY <2>5 DEF Tree
  <2>7. Placed' /\ Provided'
    BY <2>1 DEF Resolve, Placed, Provided
  <2> QED
    BY <2>1, <2>6, <2>7, SameCommits DEF Resolve
<1> QED
  BY <1>1, <1>2, <1>3, <1>4, <1>5 DEF User

\* The steps on refs that make no commit.
LEMMA RefStepTyped ==
  ASSUME Typed, SetOrigHead \/ Stop \/ Reset \/ Move \/ Clear
  PROVE  Typed'
<1> /\ op \in OpRecord /\ Placed /\ Provided /\ branch \in Ids /\ branch # 0 /\ origHead \in MaybeIds
    /\ branch \in MaybeIds
    /\ idx \in [tree : Tree, unmerged : SUBSET Paths]
    /\ \A p \in idx.unmerged : idx.tree[p] = {}
    /\ heads \in [{"merge", "pick", "revert"} -> MaybeIds]
    /\ rebase \in [name : BOOLEAN, orig : MaybeIds, onto : MaybeIds, todo : Seq(Ids)]
    /\ skipped \subseteq Ids
    /\ op.at \in MaybeIds /\ op.of \in MaybeIds /\ op.to \in MaybeIds
  BY DEF Typed, OpTyped, StateTyped, PlanTyped, Ids, MaybeIds, OpRecord
<1> USE DEF refs, state, ghosts, asked
<1>1. CASE SetOrigHead
  <2>1. op.pc = "orig" /\ origHead' = op.at /\ Goto("stop", op)
    BY <1>1 DEF SetOrigHead
  <2>2. op' \in OpRecord /\ op'.pc = "stop" /\ op'.cmd = op.cmd /\ op'.of = op.of
    BY <2>1, GotoAt DEF Points
  <2>3. Placed' /\ Provided'
    BY <2>1, <2>2 DEF Placed, Provided
  <2> QED
    BY <1>1, <2>1, <2>2, <2>3, SameCommits DEF SetOrigHead
<1>2. CASE Stop
  <2>1. op.pc = "stop" /\ heads' = [heads EXCEPT ![op.cmd] = op.of] /\ Return
    BY <1>2 DEF Stop
  <2>2. heads' \in [{"merge", "pick", "revert"} -> MaybeIds]
    BY <2>1
  <2> QED
    BY <1>2, <2>1, <2>2, ReturnTyped, SameCommits DEF Stop
<1>3. CASE Reset
  <2> DEFINE o == [op EXCEPT !.at = branch]
  <2>1. op.pc = "reset" /\ origHead' = branch /\ Goto("move", o)
    BY <1>3 DEF Reset
  <2>2. o \in OpRecord /\ o.cmd = op.cmd /\ o.at = branch /\ o.to = op.to
    BY DEF OpRecord
  <2> HIDE DEF o
  <2>3. op' \in OpRecord /\ op'.pc = "move" /\ op'.cmd = op.cmd /\ op'.at # 0 /\ op'.to = op.to
    BY <2>1, <2>2, GotoAt DEF Points
  <2>4. Placed' /\ Provided'
    BY <2>1, <2>3 DEF Placed, Provided
  <2> QED
    BY <1>3, <2>1, <2>3, <2>4, SameCommits DEF Reset
<1>4. CASE Move
  <2>1. op.pc = "move" /\ op.cmd \in {"rebase", "abortrebase"} /\ op.to \in Ids
    BY <1>4 DEF Move, Placed, Provided, MaybeIds
  <2>2. branch' \in Ids
    BY <1>4, <2>1 DEF Move
  <2>3. \/ Return
        \/ op.cmd = "abortrebase" /\ Goto("restore", op)
        \/ op.cmd # "abortrebase" /\ Goto("replay", op)
        \/ Goto("clearname", [op EXCEPT !.cmd = "failed"])
    BY <1>4 DEF Move, Withdraw
  <2>4. op' \in OpRecord /\ Placed' /\ Provided'
    <3>1. CASE Return
      BY <3>1, ReturnTyped
    <3>2. CASE op.cmd = "abortrebase" /\ Goto("restore", op)
      <4>1. op' \in OpRecord /\ op'.pc = "restore" /\ op'.cmd = op.cmd /\ op'.to = op.to
        BY <3>2, GotoAt DEF Points
      <4> QED
        BY <2>1, <3>2, <4>1 DEF Placed, Provided
    <3>3. CASE op.cmd # "abortrebase" /\ Goto("replay", op)
      <4>1. op' \in OpRecord /\ op'.pc = "replay" /\ op'.cmd = op.cmd
        BY <3>3, GotoAt DEF Points
      <4> QED
        BY <2>1, <3>3, <4>1 DEF Placed, Provided
    <3>4. CASE Goto("clearname", [op EXCEPT !.cmd = "failed"])
      <4>1. [op EXCEPT !.cmd = "failed"] \in OpRecord /\ [op EXCEPT !.cmd = "failed"].cmd = "failed"
        BY DEF OpRecord, Names
      <4>2. op' \in OpRecord /\ op'.pc = "clearname" /\ op'.cmd = "failed"
        BY <3>4, <4>1, GotoAt DEF Points
      <4> QED
        BY <4>2 DEF Placed, Provided
    <3> QED
      BY <2>3, <3>1, <3>2, <3>3, <3>4
  <2> QED
    BY <1>4, <2>2, <2>4, SameCommits DEF Move
<1>5. CASE Clear
  <2>1. heads' = [h \in DOMAIN heads |-> 0] /\ Return
    BY <1>5 DEF Clear
  <2>2. heads' \in [{"merge", "pick", "revert"} -> MaybeIds]
    BY <2>1 DEF MaybeIds
  <2> QED
    BY <1>5, <2>1, <2>2, ReturnTyped, SameCommits DEF Clear
<1> QED
  BY <1>1, <1>2, <1>3, <1>4, <1>5

\* The steps on the REBASE_* files.
LEMMA RebaseStepTyped ==
  ASSUME Typed, StartRebase \/ ClearRebase \/ Advance
  PROVE  Typed'
<1> /\ op \in OpRecord /\ Placed /\ Provided /\ branch \in Ids /\ origHead \in MaybeIds
    /\ idx \in [tree : Tree, unmerged : SUBSET Paths]
    /\ \A p \in idx.unmerged : idx.tree[p] = {}
    /\ heads \in [{"merge", "pick", "revert"} -> MaybeIds]
    /\ rebase \in [name : BOOLEAN, orig : MaybeIds, onto : MaybeIds, todo : Seq(Ids)]
    /\ skipped \subseteq Ids /\ 0 \in MaybeIds
    /\ op.at \in MaybeIds /\ op.to \in MaybeIds /\ op.todo \in Seq(Ids)
  BY DEF Typed, OpTyped, StateTyped, PlanTyped, MaybeIds, OpRecord
<1> USE DEF refs, state, ghosts, asked
<1>1. CASE StartRebase
  <2>1. /\ op.pc \in {"name", "origfile", "ontofile", "todofile"} /\ op.cmd = "rebase"
        /\ \E pc \in {"origfile", "ontofile", "todofile", "base"} :
             Goto(pc, op) /\ (pc = "origfile" => op.pc = "name")
    BY <1>1 DEF StartRebase, Write, Placed
  <2>2. rebase' \in [name : BOOLEAN, orig : MaybeIds, onto : MaybeIds, todo : Seq(Ids)]
    BY <1>1 DEF StartRebase, Write
  <2>3. PICK pc \in {"origfile", "ontofile", "todofile", "base"} :
          Goto(pc, op) /\ (pc = "origfile" => op.pc = "name")
    BY <2>1
  <2>4. /\ op' \in OpRecord /\ op'.pc = pc /\ op'.cmd = "rebase" /\ op'.to = op.to /\ op'.at = op.at
    BY <2>1, <2>3, GotoAt DEF Points
  <2>5. Placed' /\ Provided'
    BY <2>1, <2>3, <2>4 DEF Placed, Provided
  <2>6. UNCHANGED <<commits, branch, origHead, idx, heads, plan, skipped>>
    BY <1>1 DEF StartRebase, Write
  <2> QED
    BY <2>2, <2>4, <2>5, <2>6, SameCommits
<1>2. CASE ClearRebase
  <2>1. /\ op.pc \in {"clearname", "clearorig", "clearonto", "cleartodo"}
        /\ \/ Return \/ op' = Rebased
           \/ \E pc \in {"clearorig", "clearonto", "cleartodo"} : Goto(pc, op)
    BY <1>2 DEF ClearRebase, Write
  <2>2. rebase' \in [name : BOOLEAN, orig : MaybeIds, onto : MaybeIds, todo : Seq(Ids)]
    <3>1. \/ rebase' = [rebase EXCEPT !.name = FALSE]
          \/ rebase' = [rebase EXCEPT !.orig = 0]
          \/ rebase' = [rebase EXCEPT !.onto = 0]
          \/ rebase' = [rebase EXCEPT !.todo = <<>>]
      BY <1>2 DEF ClearRebase, Write
    <3>2. <<>> \in Seq(Ids)
      OBVIOUS
    <3> QED
      BY <3>1, <3>2
  <2>3. op' \in OpRecord /\ Placed' /\ Provided'
    <3>1. CASE Return \/ op' = Rebased
      BY <3>1, ReturnTyped
    <3>2. ASSUME NEW pc \in {"clearorig", "clearonto", "cleartodo"}, Goto(pc, op)
          PROVE  op' \in OpRecord /\ Placed' /\ Provided'
      <4>1. op' \in OpRecord /\ op'.pc = pc /\ op'.cmd = op.cmd
        BY <3>2, GotoAt DEF Points
      <4> QED
        BY <2>1, <4>1 DEF Placed, Provided
    <3> QED
      BY <2>1, <3>1, <3>2
  <2>4. UNCHANGED <<commits, branch, origHead, idx, heads, plan, skipped>>
    BY <1>2 DEF ClearRebase, Write
  <2> QED
    BY <2>2, <2>3, <2>4, SameCommits
<1>3. CASE Advance
  <2> DEFINE c == op.todo[1]
             rest == Tail(op.todo)
             o == [op EXCEPT !.todo = rest]
  <2>1. /\ op.pc = "advance" /\ rebase' = [rebase EXCEPT !.todo = rest] /\ Goto("replay", o)
        /\ skipped' \subseteq skipped \cup {c}
    BY <1>3 DEF Advance
  <2>2. op.todo # <<>>
    BY <2>1 DEF Placed, Provided
  <2>3. rest \in Seq(Ids) /\ c \in Ids
    BY <2>2, HeadTailProperties
  <2> HIDE DEF c, rest
  <2>4. rebase' \in [name : BOOLEAN, orig : MaybeIds, onto : MaybeIds, todo : Seq(Ids)]
    BY <2>1, <2>3
  <2>5. o \in OpRecord /\ o.cmd = op.cmd
    BY <2>3 DEF OpRecord
  <2> HIDE DEF o
  <2>6. op' \in OpRecord /\ op'.pc = "replay" /\ op'.cmd = op.cmd
    BY <2>1, <2>5, GotoAt DEF Points
  <2>7. Placed' /\ Provided'
    BY <2>1, <2>6 DEF Placed, Provided
  <2> QED
    BY <1>3, <2>1, <2>3, <2>4, <2>6, <2>7, SameCommits DEF Advance
<1> QED
  BY <1>1, <1>2, <1>3

\* A step that makes a commit of the branch keeps the types.
LEMMA CommitTyped ==
  ASSUME Typed, NEW tree \in Tree, NEW how \in Sealed, NEW of \in MaybeIds,
         NEW parents \in Seq(Ids), ToSet(parents) \subseteq Ids,
         commits' = Append(commits, Commit(tree, parents, how, of)),
         branch' = Len(commits) + 1, origHead' \in MaybeIds,
         UNCHANGED <<idx, heads, rebase, plan, skipped>>,
         op' \in OpRecord, Placed', Provided'
  PROVE  Typed'
<1>1. GraphTyped /\ of \in Nat
  BY DEF Typed, GraphTyped, MaybeIds, Ids
<1>2. GraphTyped' /\ Ids' = Ids \cup {Len(commits) + 1}
  BY <1>1, CommitAppends
<1>3. /\ Ids \subseteq Ids' /\ branch' \in Ids' /\ MaybeIds \subseteq MaybeIds'
      /\ OpRecord \subseteq OpRecord' /\ Seq(Ids) \subseteq Seq(Ids')
  BY <1>2, WiderGraph
<1>4. PlanTyped'
  BY <1>3 DEF Typed, PlanTyped
<1>5. StateTyped'
  <2>1. heads' \in [{"merge", "pick", "revert"} -> MaybeIds']
    BY <1>3 DEF Typed, StateTyped
  <2>2. rebase' \in [name : BOOLEAN, orig : MaybeIds', onto : MaybeIds', todo : Seq(Ids')]
    BY <1>3 DEF Typed, StateTyped
  <2>3. /\ idx' \in [tree : Tree, unmerged : SUBSET Paths]
        /\ \A p \in idx'.unmerged : idx'.tree[p] = {}
    BY DEF Typed, StateTyped
  <2> QED
    BY <1>3, <2>1, <2>2, <2>3 DEF StateTyped
<1>6. OpTyped'
  BY <1>3 DEF OpTyped
<1> QED
  BY <1>2, <1>4, <1>5, <1>6 DEF Typed

\* The steps that make a commit, and a fast-forward.
LEMMA CommitStepTyped ==
  ASSUME Typed, Finish \/ Record \/ \E c \in Foreign : Outside(c)
  PROVE  Typed'
<1> /\ op \in OpRecord /\ Placed /\ Provided /\ branch \in Ids /\ origHead \in MaybeIds
    /\ idx \in [tree : Tree, unmerged : SUBSET Paths]
    /\ \A p \in idx.unmerged : idx.tree[p] = {}
    /\ heads \in [{"merge", "pick", "revert"} -> MaybeIds]
    /\ rebase \in [name : BOOLEAN, orig : MaybeIds, onto : MaybeIds, todo : Seq(Ids)]
    /\ skipped \subseteq Ids /\ 0 \in MaybeIds
    /\ op.at \in MaybeIds /\ op.of \in MaybeIds /\ op.to \in MaybeIds /\ op.tree \in Tree
  BY DEF Typed, OpTyped, StateTyped, PlanTyped, MaybeIds, OpRecord
<1> USE DEF refs, state, ghosts, asked
<1>1. CASE Finish
  <2>1. op.pc = "finish" /\ op.at \in Ids /\ op.of \in Ids
    BY <1>1 DEF Finish, Provided, MaybeIds
  <2>2. op' \in OpRecord /\ Placed' /\ Provided' /\ origHead' \in MaybeIds
    BY <1>1, ReturnTyped DEF Finish
  <2>3. CASE op.cmd = "merge"
    <3>1. /\ commits' = Append(commits, Commit(op.tree, <<op.at, op.of>>, "merge", op.of))
          /\ branch' = Len(commits) + 1
      BY <1>1, <2>3 DEF Finish
    <3>2. <<op.at, op.of>> \in Seq(Ids) /\ ToSet(<<op.at, op.of>>) \subseteq Ids
      <4> DEFINE a == op.at
                 b == op.of
      <4>1. a \in Ids /\ b \in Ids
        BY <2>1
      <4> HIDE DEF a, b
      <4>2. <<a, b>> \in Seq(Ids) /\ ToSet(<<a, b>>) = {a, b}
        BY <4>1, ParentSequences
      <4>3. <<a, b>> \in Seq(Ids) /\ ToSet(<<a, b>>) \subseteq Ids
        BY <4>1, <4>2
      <4> QED
        BY <4>3 DEF a, b
    <3>3. "merge" \in Sealed
      BY DEF Sealed
    <3>4. UNCHANGED <<idx, heads, rebase, plan, skipped>>
      BY <1>1 DEF Finish
    <3> QED
      BY <2>2, <3>1, <3>2, <3>3, <3>4, CommitTyped
  <2>4. CASE op.cmd # "merge"
    <3>1. UNCHANGED <<commits, idx, heads, rebase, plan, skipped>> /\ branch' = op.of
      BY <1>1, <2>4 DEF Finish
    <3> QED
      BY <2>1, <2>2, <3>1, SameCommits
  <2> QED
    BY <2>3, <2>4
<1>2. CASE Record
  <2> DEFINE parents == IF op.cmd = "continue" /\ heads.merge # 0
                          THEN <<op.at, heads.merge>> ELSE <<op.at>>
  <2>1. op.pc = "record" /\ op.at \in Ids
    BY <1>2 DEF Record, Provided, MaybeIds
  <2>2. /\ UNCHANGED <<origHead, idx, heads, rebase, plan, skipped>>
        /\ \/ Return
           \/ op.cmd = "continue" /\ Goto("clear", op)
           \/ op.cmd \in {"rebase", "resolved"} /\ Goto("advance", op)
    BY <1>2 DEF Record
  <2>3. op' \in OpRecord /\ Placed' /\ Provided'
    <3>1. CASE Return
      BY <3>1, ReturnTyped
    <3>2. CASE op.cmd = "continue" /\ Goto("clear", op)
      <4>1. op' \in OpRecord /\ op'.pc = "clear" /\ op'.cmd = op.cmd
        BY <3>2, GotoAt DEF Points
      <4> QED
        BY <3>2, <4>1 DEF Placed, Provided
    <3>3. CASE op.cmd \in {"rebase", "resolved"} /\ Goto("advance", op)
      <4>1. op' \in OpRecord /\ op'.pc = "advance" /\ op'.cmd = op.cmd /\ op'.todo = op.todo
        BY <3>3, GotoAt DEF Points
      <4> QED
        BY <2>1, <3>3, <4>1 DEF Placed, Provided
    <3> QED
      BY <2>2, <3>1, <3>2, <3>3
  <2>4. CASE branch = op.at
    <3>1. /\ commits' = Append(commits, Commit(op.tree, parents, op.cmd, op.of))
          /\ branch' = Len(commits) + 1
      BY <1>2, <2>4 DEF Record
    <3>2. heads.merge # 0 => heads.merge \in Ids
      BY DEF MaybeIds
    <3>3. parents \in Seq(Ids) /\ ToSet(parents) \subseteq Ids
      <4> DEFINE a == op.at
                 b == heads.merge
      <4>1. a \in Ids /\ (b # 0 => b \in Ids)
        BY <2>1, <3>2
      <4>2. parents = IF op.cmd = "continue" /\ b # 0 THEN <<a, b>> ELSE <<a>>
        OBVIOUS
      <4> HIDE DEF a, b, parents
      <4>3. CASE op.cmd = "continue" /\ b # 0
        <5>1. <<a, b>> \in Seq(Ids) /\ ToSet(<<a, b>>) = {a, b}
          BY <4>1, <4>3, ParentSequences
        <5> QED
          BY <4>1, <4>2, <4>3, <5>1
      <4>4. CASE ~(op.cmd = "continue" /\ b # 0)
        <5>1. <<a>> \in Seq(Ids) /\ ToSet(<<a>>) = {a}
          BY <4>1, ParentSequences
        <5> QED
          BY <4>1, <4>2, <4>4, <5>1
      <4> QED
        BY <4>3, <4>4
    <3>4. op.cmd \in Sealed
      BY <2>1 DEF Placed, Sealed
    <3> HIDE DEF parents
    <3> QED
      BY <2>2, <2>3, <3>1, <3>3, <3>4, CommitTyped
  <2>5. CASE branch # op.at
    BY <1>2, <2>2, <2>3, <2>5, SameCommits DEF Record
  <2> QED
    BY <2>4, <2>5
<1>3. CASE \E c \in Foreign : Outside(c)
  <2>1. PICK c \in Foreign : Outside(c)
    BY <1>3
  <2>2. /\ commits' = Append(commits, Commit(With(HeadTree, {c}), <<branch>>, "foreign", 0))
        /\ branch' = Len(commits) + 1
        /\ UNCHANGED <<origHead, idx, heads, rebase, op, plan, skipped>>
    BY <2>1 DEF Outside
  <2>3. {c} \in SUBSET Changes
    BY ChangeAssumption
  <2>4. With(HeadTree, {c}) \in Tree
    BY <2>3, TreesTyped, WithIsTree DEF Typed, HeadTree
  <2>5. "foreign" \in Sealed
    BY DEF Sealed
  <2>6. <<branch>> \in Seq(Ids) /\ ToSet(<<branch>>) \subseteq Ids
    <3>1. branch \in Ids
      BY DEF Typed
    <3>2. <<branch>> \in Seq(Ids) /\ ToSet(<<branch>>) = {branch}
      BY <3>1, ParentSequences
    <3> QED
      BY <3>1, <3>2
  <2>7. op' \in OpRecord /\ Placed' /\ Provided'
    BY <2>2 DEF Placed, Provided
  <2> QED
    BY <2>2, <2>4, <2>5, <2>6, <2>7, CommitTyped
<1> QED
  BY <1>1, <1>2, <1>3

\* Every step keeps the types.
LEMMA NextTyped == Typed /\ [Next]_vars => Typed'
<1> SUFFICES ASSUME Typed, [Next]_vars PROVE Typed'
  OBVIOUS
<1>1. CASE UNCHANGED vars
  <2>1. UNCHANGED <<commits, branch, origHead, idx, heads, rebase, plan, skipped, op>>
    BY <1>1 DEF vars
  <2>2. op' \in OpRecord /\ Placed' /\ Provided'
    BY <2>1 DEF Typed, OpTyped, Placed, Provided
  <2> QED
    BY <2>1, <2>2, OnlyOp
<1>2. CASE Next
  BY <1>2, StartTyped, CommandStepTyped, IndexStepTyped, RefStepTyped, RebaseStepTyped,
     CommitStepTyped
     DEF Next, Step
<1> QED
  BY <1>1, <1>2

\* Types: every id names a commit of the graph, parents are older than their
\* children, and an unmerged path has no resolved entry beside its stages
\* (record_conflict); the list that a rebase takes from the history has an entry
\* at every place (commits_to_replay).
THEOREM TypeInvariant == Spec => []TypeOK
<1>1. ASSUME Typed PROVE TypeOK
  <2>1. /\ branch \in Ids /\ origHead \in Ids \cup {0}
        /\ idx.tree \in Tree /\ idx.unmerged \subseteq Paths
        /\ \A p \in idx.unmerged : idx.tree[p] = {}
        /\ \A h \in DOMAIN heads : heads[h] \in Ids \cup {0}
        /\ rebase.name \in BOOLEAN /\ {rebase.orig, rebase.onto} \subseteq Ids \cup {0}
    BY <1>1 DEF Typed, StateTyped, MaybeIds
  <2>2. op.tree \in Tree /\ op.at \in Ids \cup {0}
    BY <1>1 DEF Typed, OpTyped, OpRecord, MaybeIds
  <2>3. rebase.todo \in Seq(Ids) /\ op.todo \in Seq(Ids) /\ skipped \subseteq Ids
    BY <1>1 DEF Typed, StateTyped, OpTyped, OpRecord, PlanTyped
  <2>4. ToSet(rebase.todo) \cup ToSet(op.todo) \cup skipped \subseteq Ids
    BY <2>3 DEF ToSet
  <2>5. ASSUME NEW i \in Ids
        PROVE  /\ commits[i].tree \in Tree /\ commits[i].how \in Sealed
               /\ \A d \in ToSet(commits[i].parents) : d \in 1 .. i - 1
    <3>1. commits[i] \in CommitRecord
      BY <1>1, TreesTyped DEF Typed
    <3>2. Parents(commits, i) \subseteq 1 .. i - 1
      BY <1>1 DEF Typed, GraphTyped, Older, Ids
    <3> QED
      BY <3>1, <3>2 DEF CommitRecord, Parents
  <2> QED
    BY <2>1, <2>2, <2>4, <2>5 DEF TypeOK
<1> QED
  BY <1>1, InitTyped, NextTyped, PTL DEF Spec

-----------------------------------------------------------------------------
(* What the steps do to the command *)

\* The other side of the merge a command makes, and the base it merges from.
TheirTree == IF op.cmd = "revert" THEN ParentTree(op.of) ELSE TreeOf(op.of)
BaseRead ==
  /\ op.cmd \in {"pick", "rebase"} => op.base = ParentTree(op.of)
  /\ op.cmd = "revert" => op.base = TreeOf(op.of)
  /\ op.cmd = "merge" => \E b \in MergeBases(op.at, op.of) : op.base = TreeOf(b)
Clashes == Conflicts(op.base, TreeOf(op.at), TheirTree)
\* The command holds the merge of the tip it read with the commit it applies.
Result == BaseRead /\ op.tree = Merged(op.base, TreeOf(op.at), TheirTree)

Kept ==
  /\ op'.at = op.at /\ op'.of = op.of /\ op'.to = op.to
  /\ op'.tree = op.tree /\ op'.base = op.base
Idling == op'.pc = "idle" /\ op'.cmd \in {"none", "rebased"} /\ op'.tree = Empty
Went(pc) == op'.pc = pc /\ op'.cmd = op.cmd

\* A command that returns is idle with an empty tree.
LEMMA ReturnIdles == (Return \/ op' = Rebased) => Idling
<1>1. Idle.pc = "idle" /\ Idle.cmd = "none" /\ Idle.tree = Empty
  BY DEF Idle
<1>2. Rebased.pc = "idle" /\ Rebased.cmd = "rebased" /\ Rebased.tree = Empty
  BY DEF Rebased, Idle
<1> QED
  BY <1>1, <1>2 DEF Return, Idling

\* The steps of a command between its checkout and its outcome.
LEMMA OpStepsTree ==
  ASSUME Typed
  PROVE  /\ Checkout =>
              /\ Kept /\ op'.cmd = op.cmd
              /\ \/ op.pc = "materialise" /\ op'.pc = "unmerge"
                 \/ op.pc = "base" /\ op'.pc = "reset"
                 \/ op.pc = "checkout" /\ op.cmd \in {"ff", "merge"} /\ op'.pc = "finish"
                 \/ op.pc = "checkout" /\ op.cmd \in {"pick", "revert"} /\ op'.pc = "record"
                 \/ op.pc = "checkout" /\ op.cmd = "rebase" /\ op'.pc = "seal"
         /\ CheckoutRefused => Idling \/ (Kept /\ op'.pc = "clearname" /\ op'.cmd = "failed")
         /\ Unmerge => op.pc = "unmerge" /\ (Idling \/ (Kept /\ op.cmd # "rebase" /\ Went("orig")))
         /\ Restore =>
              /\ op.pc = "restore" /\ Kept
              /\ \/ op.cmd = "abort" /\ Went("clear")
                 \/ op.cmd = "abortrebase" /\ Went("clearname")
                 \/ op.cmd = "skip" /\ Went("advance")
<1> op \in OpRecord /\ Placed
  BY DEF Typed, OpTyped
<1> USE DEF Kept, Went
<1>1. ASSUME Checkout
      PROVE  /\ Kept /\ op'.cmd = op.cmd
             /\ \/ op.pc = "materialise" /\ op'.pc = "unmerge"
                \/ op.pc = "base" /\ op'.pc = "reset"
                \/ op.pc = "checkout" /\ op.cmd \in {"ff", "merge"} /\ op'.pc = "finish"
                \/ op.pc = "checkout" /\ op.cmd \in {"pick", "revert"} /\ op'.pc = "record"
                \/ op.pc = "checkout" /\ op.cmd = "rebase" /\ op'.pc = "seal"
  <2>1. op.pc \in {"materialise", "checkout", "base"} /\ Goto(AfterCheckout, op)
    BY <1>1 DEF Checkout
  <2>2. CASE op.pc = "materialise"
    <3>1. AfterCheckout = "unmerge"
      BY <2>2 DEF AfterCheckout
    <3> QED
      BY <2>1, <2>2, <3>1, GotoAt DEF Points
  <2>3. CASE op.pc = "base"
    <3>1. AfterCheckout = "reset"
      BY <2>3 DEF AfterCheckout
    <3> QED
      BY <2>1, <2>3, <3>1, GotoAt DEF Points
  <2>4. CASE op.pc = "checkout" /\ op.cmd \in {"ff", "merge"}
    <3>1. AfterCheckout = "finish"
      BY <2>4 DEF AfterCheckout
    <3> QED
      BY <2>1, <2>4, <3>1, GotoAt DEF Points
  <2>5. CASE op.pc = "checkout" /\ op.cmd \in {"pick", "revert"}
    <3>1. AfterCheckout = "record"
      BY <2>5 DEF AfterCheckout
    <3> QED
      BY <2>1, <2>5, <3>1, GotoAt DEF Points
  <2>6. CASE op.pc = "checkout" /\ op.cmd = "rebase"
    <3>1. AfterCheckout = "seal"
      BY <2>6 DEF AfterCheckout
    <3> QED
      BY <2>1, <2>6, <3>1, GotoAt DEF Points
  <2> QED
    BY <2>1, <2>2, <2>3, <2>4, <2>5, <2>6 DEF Placed
<1>2. ASSUME CheckoutRefused
      PROVE  Idling \/ (Kept /\ op'.pc = "clearname" /\ op'.cmd = "failed")
  <2> DEFINE o == [op EXCEPT !.cmd = "failed"]
  <2>1. Return \/ Goto("clearname", o)
    BY <1>2 DEF CheckoutRefused, Withdraw
  <2>2. o \in OpRecord /\ o.cmd = "failed" /\ o.at = op.at /\ o.of = op.of /\ o.to = op.to
        /\ o.tree = op.tree /\ o.base = op.base
    BY DEF OpRecord, Names
  <2> HIDE DEF o
  <2> QED
    BY <2>1, <2>2, ReturnIdles, GotoAt DEF Points
<1>3. ASSUME Unmerge
      PROVE  op.pc = "unmerge" /\ (Idling \/ (Kept /\ op.cmd # "rebase" /\ Went("orig")))
  <2>1. op.pc = "unmerge" /\ (Return \/ (op.cmd # "rebase" /\ Goto("orig", op)))
    BY <1>3 DEF Unmerge
  <2> QED
    BY <2>1, ReturnIdles, GotoAt DEF Points
<1>4. ASSUME Restore
      PROVE  /\ op.pc = "restore" /\ Kept
             /\ \/ op.cmd = "abort" /\ Went("clear")
                \/ op.cmd = "abortrebase" /\ Went("clearname")
                \/ op.cmd = "skip" /\ Went("advance")
  <2> DEFINE pc == CASE op.cmd = "abort" -> "clear"
                     [] op.cmd = "abortrebase" -> "clearname"
                     [] op.cmd = "skip" -> "advance"
  <2>1. op.pc = "restore" /\ Goto(pc, op)
    BY <1>4 DEF Restore
  <2>2. \/ op.cmd = "abort" /\ pc = "clear"
        \/ op.cmd = "abortrebase" /\ pc = "clearname"
        \/ op.cmd = "skip" /\ pc = "advance"
    BY <2>1 DEF Placed
  <2> HIDE DEF pc
  <2>3. pc \in Points
    BY <2>2 DEF Points
  <2> QED
    BY <2>1, <2>2, <2>3, GotoAt
<1> QED
  BY <1>1, <1>2, <1>3, <1>4

\* The steps on refs.
LEMMA OpStepsRefs ==
  ASSUME Typed
  PROVE  /\ Finish \/ Stop \/ Clear \/ Kill => Idling
         /\ SetOrigHead => op.pc = "orig" /\ Kept /\ Went("stop")
         /\ Seal =>
              /\ op.pc = "seal" /\ Went("record") /\ op'.at = branch
              /\ op'.of = op.of /\ op'.to = op.to /\ op'.tree = op.tree /\ op'.base = op.base
         /\ Record =>
              /\ op.pc = "record"
              /\ \/ Idling
                 \/ Kept /\ op.cmd = "continue" /\ Went("clear")
                 \/ Kept /\ op.cmd \in {"rebase", "resolved"} /\ Went("advance")
         /\ Reset =>
              /\ op.pc = "reset" /\ Went("move") /\ op'.at = branch
              /\ op'.of = op.of /\ op'.to = op.to /\ op'.tree = op.tree /\ op'.base = op.base
         /\ Move =>
              /\ op.pc = "move"
              /\ \/ Idling
                 \/ Kept /\ op.cmd = "abortrebase" /\ Went("restore") /\ branch' = op.to
                 \/ Kept /\ op.cmd = "rebase" /\ Went("replay")
                 \/ Kept /\ op'.pc = "clearname" /\ op'.cmd = "failed"
<1> op \in OpRecord /\ Placed
  BY DEF Typed, OpTyped
<1> branch \in MaybeIds
  BY DEF Typed, StateTyped, MaybeIds
<1> USE DEF Kept, Went
<1>1. Finish \/ Stop \/ Clear \/ Kill => Idling
  BY ReturnIdles DEF Finish, Stop, Clear, Kill
<1>2. SetOrigHead => op.pc = "orig" /\ Kept /\ Went("stop")
  BY GotoAt DEF SetOrigHead, Points
<1> DEFINE o == [op EXCEPT !.at = branch]
<1>3. o \in OpRecord /\ o.cmd = op.cmd /\ o.at = branch /\ o.of = op.of /\ o.to = op.to
      /\ o.tree = op.tree /\ o.base = op.base
  BY DEF OpRecord
<1>4. Seal => op.pc = "seal" /\ Goto("record", o)
  BY DEF Seal
<1>5. Reset => op.pc = "reset" /\ Goto("move", o)
  BY DEF Reset
<1>6. Record => /\ op.pc = "record"
                /\ \/ Return
                   \/ op.cmd = "continue" /\ Goto("clear", op)
                   \/ op.cmd \in {"rebase", "resolved"} /\ Goto("advance", op)
  BY DEF Record
<1> DEFINE q == [op EXCEPT !.cmd = "failed"]
<1>7. q \in OpRecord /\ q.cmd = "failed" /\ q.at = op.at /\ q.of = op.of /\ q.to = op.to
      /\ q.tree = op.tree /\ q.base = op.base
  BY DEF OpRecord, Names
<1>8. Move => /\ op.pc = "move" /\ op.cmd \in {"rebase", "abortrebase"}
              /\ \/ Return
                 \/ op.cmd = "abortrebase" /\ Goto("restore", op) /\ branch' = op.to
                 \/ op.cmd # "abortrebase" /\ Goto("replay", op)
                 \/ Goto("clearname", q)
  BY DEF Move, Withdraw, Placed
<1> HIDE DEF o, q
<1>9. Seal => /\ op.pc = "seal" /\ Went("record") /\ op'.at = branch
              /\ op'.of = op.of /\ op'.to = op.to /\ op'.tree = op.tree /\ op'.base = op.base
  BY <1>3, <1>4, GotoAt DEF Points
<1>10. Reset => /\ op.pc = "reset" /\ Went("move") /\ op'.at = branch
                /\ op'.of = op.of /\ op'.to = op.to /\ op'.tree = op.tree /\ op'.base = op.base
  BY <1>3, <1>5, GotoAt DEF Points
<1>11. Record => /\ op.pc = "record"
                 /\ \/ Idling
                    \/ Kept /\ op.cmd = "continue" /\ Went("clear")
                    \/ Kept /\ op.cmd \in {"rebase", "resolved"} /\ Went("advance")
  BY <1>6, ReturnIdles, GotoAt DEF Points
<1>12. Move => /\ op.pc = "move"
               /\ \/ Idling
                  \/ Kept /\ op.cmd = "abortrebase" /\ Went("restore") /\ branch' = op.to
                  \/ Kept /\ op.cmd = "rebase" /\ Went("replay")
                  \/ Kept /\ op'.pc = "clearname" /\ op'.cmd = "failed"
  BY <1>7, <1>8, ReturnIdles, GotoAt DEF Points
<1> QED
  BY <1>1, <1>2, <1>9, <1>10, <1>11, <1>12

\* The steps on the rebase files, the replay and the start of an --abort.
LEMMA OpStepsRebase ==
  ASSUME Typed
  PROVE  /\ StartRebase =>
              /\ Kept /\ op'.cmd = op.cmd
              /\ \/ op.pc = "name" /\ op'.pc = "origfile"
                      /\ rebase' = [rebase EXCEPT !.name = TRUE]
                 \/ op.pc = "origfile" /\ op'.pc = "ontofile"
                      /\ rebase' = [rebase EXCEPT !.orig = op.at]
                 \/ op.pc = "ontofile" /\ op'.pc = "todofile"
                      /\ rebase' = [rebase EXCEPT !.onto = op.to]
                 \/ op.pc = "todofile" /\ op'.pc = "base"
                      /\ rebase' = [rebase EXCEPT !.todo = op.todo]
         /\ ClearRebase =>
              \/ op.pc = "clearname" /\ Kept /\ Went("clearorig")
                   /\ rebase' = [rebase EXCEPT !.name = FALSE]
              \/ op.pc = "clearorig" /\ Kept /\ Went("clearonto")
                   /\ rebase' = [rebase EXCEPT !.orig = 0]
              \/ op.pc = "clearonto" /\ Kept /\ Went("cleartodo")
                   /\ rebase' = [rebase EXCEPT !.onto = 0]
              \/ op.pc = "cleartodo" /\ Idling /\ rebase' = [rebase EXCEPT !.todo = <<>>]
         /\ Advance =>
              /\ op.pc = "advance" /\ Kept /\ Went("replay")
              /\ rebase' = [rebase EXCEPT !.todo = Tail(op.todo)]
         /\ Abort =>
              /\ op.pc = "idle" /\ op'.pc = "restore" /\ op'.cmd = "abort" /\ op'.tree = Empty
         /\ AbortRebase =>
              /\ op.pc = "idle" /\ op'.pc = "reset" /\ op'.cmd = "abortrebase"
              /\ op'.to = rebase.orig /\ op'.tree = Empty /\ rebase.name
<1> op \in OpRecord
  BY DEF Typed, OpTyped
<1> USE DEF Kept, Went
<1>1. ASSUME StartRebase
      PROVE  /\ Kept /\ op'.cmd = op.cmd
             /\ \/ op.pc = "name" /\ op'.pc = "origfile"
                     /\ rebase' = [rebase EXCEPT !.name = TRUE]
                \/ op.pc = "origfile" /\ op'.pc = "ontofile"
                     /\ rebase' = [rebase EXCEPT !.orig = op.at]
                \/ op.pc = "ontofile" /\ op'.pc = "todofile"
                     /\ rebase' = [rebase EXCEPT !.onto = op.to]
                \/ op.pc = "todofile" /\ op'.pc = "base"
                     /\ rebase' = [rebase EXCEPT !.todo = op.todo]
  <2>1. \/ op.pc = "name" /\ Goto("origfile", op) /\ rebase' = [rebase EXCEPT !.name = TRUE]
        \/ op.pc = "origfile" /\ Goto("ontofile", op) /\ rebase' = [rebase EXCEPT !.orig = op.at]
        \/ op.pc = "ontofile" /\ Goto("todofile", op) /\ rebase' = [rebase EXCEPT !.onto = op.to]
        \/ op.pc = "todofile" /\ Goto("base", op) /\ rebase' = [rebase EXCEPT !.todo = op.todo]
    BY <1>1 DEF StartRebase, Write
  <2> QED
    BY <2>1, GotoAt DEF Points
<1>2. ASSUME ClearRebase
      PROVE  \/ op.pc = "clearname" /\ Kept /\ Went("clearorig")
                  /\ rebase' = [rebase EXCEPT !.name = FALSE]
             \/ op.pc = "clearorig" /\ Kept /\ Went("clearonto")
                  /\ rebase' = [rebase EXCEPT !.orig = 0]
             \/ op.pc = "clearonto" /\ Kept /\ Went("cleartodo")
                  /\ rebase' = [rebase EXCEPT !.onto = 0]
             \/ op.pc = "cleartodo" /\ Idling /\ rebase' = [rebase EXCEPT !.todo = <<>>]
  <2>1. \/ op.pc = "clearname" /\ Goto("clearorig", op) /\ rebase' = [rebase EXCEPT !.name = FALSE]
        \/ op.pc = "clearorig" /\ Goto("clearonto", op) /\ rebase' = [rebase EXCEPT !.orig = 0]
        \/ op.pc = "clearonto" /\ Goto("cleartodo", op) /\ rebase' = [rebase EXCEPT !.onto = 0]
        \/ op.pc = "cleartodo" /\ (Return \/ op' = Rebased) /\ rebase' = [rebase EXCEPT !.todo = <<>>]
    BY <1>2 DEF ClearRebase, Write
  <2> QED
    BY <2>1, ReturnIdles, GotoAt DEF Points
<1>3. ASSUME Advance
      PROVE  /\ op.pc = "advance" /\ Kept /\ Went("replay")
             /\ rebase' = [rebase EXCEPT !.todo = Tail(op.todo)]
  <2> DEFINE rest == Tail(op.todo)
             o == [op EXCEPT !.todo = rest]
  <2>1. op.pc = "advance" /\ Goto("replay", o) /\ rebase' = [rebase EXCEPT !.todo = rest]
    BY <1>3 DEF Advance
  <2>2. op.todo # <<>> /\ op.todo \in Seq(Ids)
    BY <2>1 DEF Typed, OpTyped, Placed, Provided, OpRecord
  <2>3. rest \in Seq(Ids)
    BY <2>2, HeadTailProperties
  <2> HIDE DEF rest
  <2>4. o \in OpRecord /\ o.cmd = op.cmd /\ o.at = op.at /\ o.of = op.of /\ o.to = op.to
        /\ o.tree = op.tree /\ o.base = op.base
    BY <2>3 DEF OpRecord
  <2> HIDE DEF o
  <2>5. Kept /\ Went("replay")
    BY <2>1, <2>4, GotoAt DEF Points
  <2> QED
    BY <2>1, <2>5 DEF rest
<1>4. ASSUME Abort
      PROVE  op.pc = "idle" /\ op'.pc = "restore" /\ op'.cmd = "abort" /\ op'.tree = Empty
  <2>1. New("abort").tree = Empty
    BY DEF New, Idle
  <2> QED
    BY <1>4, <2>1, NewTyped, GotoAt DEF Abort, Waiting, Points, Names
<1>5. ASSUME AbortRebase
      PROVE  /\ op.pc = "idle" /\ op'.pc = "reset" /\ op'.cmd = "abortrebase"
             /\ op'.to = rebase.orig /\ op'.tree = Empty /\ rebase.name
  <2> DEFINE first == New("abortrebase")
             c == rebase.orig
             o == [first EXCEPT !.to = c]
  <2>1. Goto("reset", o) /\ op.pc = "idle" /\ rebase.name
    BY <1>5 DEF AbortRebase, Waiting, Readable
  <2>2. first \in OpRecord /\ first.cmd = "abortrebase" /\ first.tree = Empty /\ c \in MaybeIds
    <3>1. New("abortrebase").tree = Empty
      BY DEF New, Idle
    <3> QED
      BY <3>1, NewTyped DEF Names, Typed, StateTyped
  <2> HIDE DEF first, c
  <2>3. o \in OpRecord /\ o.cmd = "abortrebase" /\ o.to = c /\ o.tree = Empty
    BY <2>2 DEF OpRecord
  <2> HIDE DEF o
  <2>4. op'.pc = "reset" /\ op'.cmd = "abortrebase" /\ op'.to = c /\ op'.tree = Empty
    BY <2>1, <2>3, GotoAt DEF Points
  <2> QED
    BY <2>1, <2>4 DEF c
<1> QED
  BY <1>1, <1>2, <1>3, <1>4, <1>5

\* A replay holds the merge of HEAD's tip with the next commit of the list.
LEMMA OpStepReplay ==
  ASSUME Typed, Replay
  PROVE  /\ op.pc = "replay"
         /\ \/ Kept /\ Went("clearname")
            \/ /\ op'.cmd = "rebase" /\ op'.at = branch /\ op'.of \in Ids
               /\ op'.base = ParentTree(op'.of)
               /\ op'.tree = Merged(op'.base, HeadTree, TreeOf(op'.of))
               /\ \/ op'.pc \in {"seal", "advance"} /\ op'.tree = HeadTree
                  \/ op'.pc = "materialise"
                  \/ op'.pc = "checkout" /\ Conflicts(op'.base, HeadTree, TreeOf(op'.of)) = {}
<1> op \in OpRecord /\ branch \in MaybeIds
  BY DEF Typed, OpTyped, StateTyped, MaybeIds
<1> DEFINE c == op.todo[1]
           base == ParentTree(c)
           tree == Merged(base, HeadTree, TreeOf(c))
           o == [op EXCEPT !.cmd = "rebase", !.of = c, !.at = branch, !.tree = tree, !.base = base]
<1>1. op.pc = "replay"
  BY DEF Replay
<1>2. CASE op.todo = <<>>
  <2>1. Goto("clearname", op)
    BY <1>2 DEF Replay
  <2> QED
    BY <1>1, <2>1, GotoAt DEF Points, Kept, Went
<1>3. CASE op.todo # <<>>
  <2>1. \E pc \in Points :
          /\ Goto(pc, o)
          /\ \/ pc \in {"seal", "advance"} /\ tree = HeadTree
             \/ pc = "materialise"
             \/ pc = "checkout" /\ Conflicts(base, HeadTree, TreeOf(c)) = {}
    <3>1. CASE tree = HeadTree
      <4>1. Goto(IF TreeOf(c) = base THEN "seal" ELSE "advance", o)
        BY <1>3, <3>1 DEF Replay
      <4> HIDE DEF o, c, base, tree
      <4> QED
        BY <3>1, <4>1 DEF Points
    <3>2. CASE tree # HeadTree
      <4>1. Goto(IF Conflicts(base, HeadTree, TreeOf(c)) # {} THEN "materialise" ELSE "checkout", o)
        BY <1>3, <3>2 DEF Replay
      <4> HIDE DEF o, c, base, tree
      <4> QED
        BY <4>1 DEF Points
    <3> QED
      BY <3>1, <3>2
  <2>2. c \in Ids
    BY <1>3 DEF OpRecord
  <2>3. base \in Tree /\ TreeOf(c) \in Tree /\ HeadTree \in Tree
    BY <2>2, TreesTyped DEF Typed, StateTyped, HeadTree
  <2>4. tree \in Tree
    BY <2>3, MergedIsTree
  <2>5. c \in MaybeIds
    BY <2>2 DEF MaybeIds
  <2>6. o = [op EXCEPT !.cmd = "rebase", !.of = c, !.at = branch, !.tree = tree, !.base = base]
    OBVIOUS
  <2>7. base = ParentTree(c) /\ tree = Merged(base, HeadTree, TreeOf(c))
    OBVIOUS
  <2> HIDE DEF o, c, base, tree
  <2>8. o \in OpRecord /\ o.cmd = "rebase" /\ o.at = branch /\ o.of = c /\ o.tree = tree /\ o.base = base
    BY <2>3, <2>4, <2>5, <2>6 DEF OpRecord, Names
  <2>9. PICK pc \in Points :
          /\ Goto(pc, o)
          /\ \/ pc \in {"seal", "advance"} /\ tree = HeadTree
             \/ pc = "materialise"
             \/ pc = "checkout" /\ Conflicts(base, HeadTree, TreeOf(c)) = {}
    BY <2>1
  <2>10. /\ op'.pc = pc /\ op'.cmd = "rebase" /\ op'.at = branch /\ op'.of = c
         /\ op'.tree = tree /\ op'.base = base
    BY <2>8, <2>9, GotoAt
  <2> QED
    BY <1>1, <2>2, <2>7, <2>9, <2>10
<1> QED
  BY <1>2, <1>3

\* A merge, cherry-pick or revert that starts holds the merge of HEAD's tip.
Applies ==
  /\ op'.cmd \in {"merge", "pick", "revert"} /\ op'.of \in Ids
  /\ op'.cmd = "pick" => op'.base = ParentTree(op'.of)
  /\ op'.cmd = "revert" => op'.base = TreeOf(op'.of)
  /\ op'.cmd = "merge" => \E b \in MergeBases(branch, op'.of) : op'.base = TreeOf(b)
  /\ LET theirs == IF op'.cmd = "revert" THEN ParentTree(op'.of) ELSE TreeOf(op'.of)
     IN /\ op'.tree = Merged(op'.base, HeadTree, theirs)
        /\ \/ op'.pc = "materialise"
           \/ op'.pc = "checkout" /\ Conflicts(op'.base, HeadTree, theirs) = {}
  /\ UNCHANGED plan

\* What the other commands hold when they start.
Starting ==
  \/ Applies
  \/ /\ op'.cmd = "ff" /\ op'.pc = "checkout" /\ op'.of \in Ids /\ op'.tree = TreeOf(op'.of)
     /\ UNCHANGED plan
  \/ /\ op'.cmd = "rebase" /\ op'.to \in Ids /\ op'.tree = TreeOf(op'.to) /\ ~rebase.name
     /\ \/ op'.pc = "base" /\ UNCHANGED plan
        \/ op'.pc = "name" /\ plan'.tip = branch
  \/ /\ op'.cmd \in {"continue", "commit", "resolved"} /\ op'.pc = "seal"
     /\ op'.tree = idx.tree /\ UNCHANGED plan
  \/ /\ op'.cmd \in {"rebase", "skip"} /\ op'.pc \in {"replay", "restore"}
     /\ (op'.pc = "restore" => op'.cmd = "skip")
     /\ op'.tree = Empty /\ UNCHANGED plan

\* A command that starts changes no file and holds the tip of HEAD.
Begun ==
  /\ op.pc = "idle" /\ op'.at = branch
  /\ UNCHANGED <<commits, branch, origHead, idx, heads, rebase, kills>>

\* What Begin does, field by field.
LEMMA BeginFields ==
  ASSUME Typed, NEW pc \in Points, NEW o \in OpRecord, Begin(pc, o), o.at = branch
  PROVE  /\ Begun
         /\ op'.pc = pc /\ op'.cmd = o.cmd /\ op'.of = o.of /\ op'.to = o.to
         /\ op'.tree = o.tree /\ op'.base = o.base
<1>1. Goto(pc, o)
  BY DEF Begin
<1>2. /\ op'.pc = pc /\ op'.cmd = o.cmd /\ op'.of = o.of /\ op'.to = o.to
      /\ op'.tree = o.tree /\ op'.base = o.base /\ op'.at = o.at
  BY <1>1, GotoAt
<1>3. op.pc = "idle" /\ UNCHANGED <<commits, branch, origHead, idx, heads, rebase, kills>>
  BY DEF Begin, Waiting, refs, state
<1> QED
  BY <1>2, <1>3 DEF Begun

\* A new command holds no tree yet.
LEMMA NewFields ==
  ASSUME NEW cmd
  PROVE  New(cmd).tree = Empty /\ New(cmd).at = branch
BY DEF New, Idle

\* Apply begins with the merge of HEAD's tip.
LEMMA ApplyFields ==
  ASSUME Typed, NEW cmd \in {"merge", "pick", "revert"}, NEW c \in Ids,
         NEW base \in Tree, NEW theirs \in Tree,
         Apply([New(cmd) EXCEPT !.of = c], base, theirs), UNCHANGED plan
  PROVE  /\ Begun /\ UNCHANGED plan
         /\ op'.cmd = cmd /\ op'.of = c /\ op'.base = base
         /\ op'.tree = Merged(base, HeadTree, theirs)
         /\ \/ op'.pc = "materialise"
            \/ op'.pc = "checkout" /\ Conflicts(base, HeadTree, theirs) = {}
<1> DEFINE first == New(cmd)
           tree == Merged(base, HeadTree, theirs)
           pc == IF Conflicts(base, HeadTree, theirs) # {} THEN "materialise" ELSE "checkout"
           o == [[first EXCEPT !.of = c] EXCEPT !.tree = tree, !.base = base]
<1>1. Begin(pc, o)
  BY DEF Apply
<1>2. first \in OpRecord /\ first.cmd = cmd /\ first.at = branch /\ c \in MaybeIds
  BY NewTyped DEF Names, MaybeIds
<1>3. tree \in Tree
  BY TreesTyped, MergedIsTree DEF Typed, StateTyped, HeadTree
<1>4. pc = "materialise" \/ (pc = "checkout" /\ Conflicts(base, HeadTree, theirs) = {})
  OBVIOUS
<1>5. tree = Merged(base, HeadTree, theirs)
  OBVIOUS
<1> HIDE DEF first, tree, pc
<1>6. o \in OpRecord /\ o.cmd = cmd /\ o.at = branch /\ o.of = c /\ o.tree = tree /\ o.base = base
  BY <1>2, <1>3 DEF OpRecord
<1> HIDE DEF o
<1>7. pc \in Points
  BY <1>4 DEF Points
<1>8. /\ Begun /\ op'.pc = pc /\ op'.cmd = cmd /\ op'.of = c
      /\ op'.tree = tree /\ op'.base = base
  BY <1>1, <1>6, <1>7, BeginFields
<1> QED
  BY <1>4, <1>5, <1>8

\* Every command starts like this.
LEMMA StartFacts ==
  ASSUME Typed, Start
  PROVE  Begun /\ Starting
<1> branch \in Ids /\ GraphTyped /\ idx.tree \in Tree /\ rebase.todo \in Seq(Ids)
  BY DEF Typed, StateTyped
<1> Upstreams \subseteq Ids /\ Reach[branch] \subseteq Ids
  BY HistoryTyped DEF GraphTyped
<1> USE DEF asked
<1>1. ASSUME NEW c \in Upstreams, NEW noFf \in BOOLEAN, Merge(c, noFf) PROVE Begun /\ Starting
  <2>1. TreeOf(c) \in Tree /\ c \in MaybeIds
    BY TreesTyped DEF MaybeIds
  <2>2. CASE IsAncestor(branch, c) /\ ~noFf
    <3> DEFINE first == New("merge")
               tree == TreeOf(c)
               q == [[first EXCEPT !.of = c] EXCEPT !.cmd = "ff", !.tree = tree]
    <3>1. Begin("checkout", q) /\ UNCHANGED plan
      BY <1>1, <2>2 DEF Merge
    <3>2. first \in OpRecord /\ first.at = branch /\ tree \in Tree /\ tree = TreeOf(c)
      BY <2>1, NewTyped DEF Names
    <3> HIDE DEF first, tree
    <3>3. q \in OpRecord /\ q.cmd = "ff" /\ q.at = branch /\ q.of = c /\ q.tree = tree
      BY <2>1, <3>2 DEF OpRecord, Names
    <3> HIDE DEF q
    <3>4. Begun /\ op'.pc = "checkout" /\ op'.cmd = "ff" /\ op'.of = c /\ op'.tree = tree
      BY <3>1, <3>3, BeginFields DEF Points
    <3> QED
      BY <3>1, <3>2, <3>4 DEF Starting
  <2>3. CASE ~(IsAncestor(branch, c) /\ ~noFf)
    <3>1. PICK b \in MergeBases(branch, c) :
            Apply([New("merge") EXCEPT !.of = c], TreeOf(b), TreeOf(c)) /\ UNCHANGED plan
      BY <1>1, <2>3 DEF Merge
    <3>2. TreeOf(b) \in Tree
      BY <3>1, HistoryTyped, TreesTyped
    <3>3. /\ Begun /\ UNCHANGED plan
          /\ op'.cmd = "merge" /\ op'.of = c /\ op'.base = TreeOf(b)
          /\ op'.tree = Merged(TreeOf(b), HeadTree, TreeOf(c))
          /\ \/ op'.pc = "materialise"
             \/ op'.pc = "checkout" /\ Conflicts(TreeOf(b), HeadTree, TreeOf(c)) = {}
      BY <2>1, <3>1, <3>2, ApplyFields
    <3>4. Applies
      BY <3>1, <3>3 DEF Applies
    <3> QED
      BY <3>3, <3>4 DEF Starting
  <2> QED
    BY <2>2, <2>3
<1>2. ASSUME NEW c \in Upstreams, CherryPick(c) PROVE Begun /\ Starting
  <2>1. TreeOf(c) \in Tree /\ ParentTree(c) \in Tree
    BY TreesTyped
  <2>2. Apply([New("pick") EXCEPT !.of = c], ParentTree(c), TreeOf(c)) /\ UNCHANGED plan
    BY <1>2 DEF CherryPick
  <2>3. /\ Begun /\ UNCHANGED plan
        /\ op'.cmd = "pick" /\ op'.of = c /\ op'.base = ParentTree(c)
        /\ op'.tree = Merged(ParentTree(c), HeadTree, TreeOf(c))
        /\ \/ op'.pc = "materialise"
           \/ op'.pc = "checkout" /\ Conflicts(ParentTree(c), HeadTree, TreeOf(c)) = {}
    BY <2>1, <2>2, ApplyFields
  <2>4. Applies
    BY <2>3 DEF Applies
  <2> QED
    BY <2>3, <2>4 DEF Starting
<1>3. ASSUME NEW c \in Reach[branch], Revert(c) PROVE Begun /\ Starting
  <2>1. TreeOf(c) \in Tree /\ ParentTree(c) \in Tree
    BY TreesTyped
  <2>2. Apply([New("revert") EXCEPT !.of = c], TreeOf(c), ParentTree(c)) /\ UNCHANGED plan
    BY <1>3 DEF Revert
  <2>3. /\ Begun /\ UNCHANGED plan
        /\ op'.cmd = "revert" /\ op'.of = c /\ op'.base = TreeOf(c)
        /\ op'.tree = Merged(TreeOf(c), HeadTree, ParentTree(c))
        /\ \/ op'.pc = "materialise"
           \/ op'.pc = "checkout" /\ Conflicts(TreeOf(c), HeadTree, ParentTree(c)) = {}
    BY <2>1, <2>2, ApplyFields
  <2>4. Applies
    BY <2>3 DEF Applies
  <2> QED
    BY <2>3, <2>4 DEF Starting
<1>4. ASSUME NEW upstream \in Upstreams, NEW onto \in Upstreams, Rebase(upstream, onto)
      PROVE  Begun /\ Starting
  <2>1. PICK b \in MergeBases(branch, upstream) :
          LET todo == ToReplay(branch, b)
              o == [New("rebase") EXCEPT !.to = onto, !.tree = TreeOf(onto), !.todo = todo]
          IN /\ ~InProgress
             /\ IF todo = <<>> THEN Begin("base", o) /\ UNCHANGED asked
                ELSE /\ Begin("name", o)
                     /\ plan' = [tip |-> branch, base |-> b, onto |-> onto, todo |-> todo]
    BY <1>4 DEF Rebase
  <2> DEFINE first == New("rebase")
             todo == ToReplay(branch, b)
             tree == TreeOf(onto)
             o == [first EXCEPT !.to = onto, !.tree = tree, !.todo = todo]
  <2>2. todo \in Seq(Ids) /\ tree \in Tree /\ onto \in MaybeIds /\ tree = TreeOf(onto)
    BY HistoryTyped, ListTyped, TreesTyped DEF MaybeIds
  <2>3. first \in OpRecord /\ first.cmd = "rebase" /\ first.at = branch
    BY NewTyped DEF Names
  <2>4. ~rebase.name
    BY <2>1 DEF InProgress
  <2>5. \E pc \in {"base", "name"} :
          Begin(pc, o) /\ (IF pc = "base" THEN UNCHANGED plan ELSE plan'.tip = branch)
    BY <2>1
  <2> HIDE DEF first, todo, tree
  <2>6. o \in OpRecord /\ o.cmd = "rebase" /\ o.at = branch /\ o.to = onto /\ o.tree = tree
    BY <2>2, <2>3 DEF OpRecord, Names
  <2> HIDE DEF o
  <2>7. PICK pc \in {"base", "name"} :
          Begin(pc, o) /\ (IF pc = "base" THEN UNCHANGED plan ELSE plan'.tip = branch)
    BY <2>5
  <2>8. Begun /\ op'.pc = pc /\ op'.cmd = "rebase" /\ op'.to = onto /\ op'.tree = tree
    BY <2>6, <2>7, BeginFields DEF Points
  <2> QED
    BY <2>2, <2>4, <2>7, <2>8 DEF Starting
<1>5. ASSUME NEW h \in DOMAIN heads, Continue(h) PROVE Begun /\ Starting
  <2> DEFINE first == New(h)
             c == heads[h]
             o == [first EXCEPT !.cmd = "continue", !.of = c, !.tree = idx.tree]
  <2>1. Begin("seal", o) /\ UNCHANGED plan
    BY <1>5 DEF Continue
  <2>2. h \in {"merge", "pick", "revert"} /\ c \in MaybeIds
    BY DEF Typed, StateTyped
  <2>3. first \in OpRecord /\ first.at = branch
    BY <2>2, NewTyped DEF Names
  <2> HIDE DEF first, c
  <2>4. o \in OpRecord /\ o.cmd = "continue" /\ o.at = branch /\ o.tree = idx.tree
    BY <2>2, <2>3 DEF OpRecord, Names
  <2> HIDE DEF o
  <2>5. Begun /\ op'.pc = "seal" /\ op'.cmd = "continue" /\ op'.tree = idx.tree
    BY <2>1, <2>4, BeginFields DEF Points
  <2> QED
    BY <2>1, <2>5 DEF Starting
<1>6. ASSUME PlainCommit PROVE Begun /\ Starting
  <2> DEFINE first == New("commit")
             o == [first EXCEPT !.tree = idx.tree]
  <2>1. Begin("seal", o) /\ UNCHANGED plan
    BY <1>6 DEF PlainCommit
  <2>2. first \in OpRecord /\ first.at = branch /\ first.cmd = "commit"
    BY NewTyped DEF Names
  <2> HIDE DEF first
  <2>3. o \in OpRecord /\ o.cmd = "commit" /\ o.at = branch /\ o.tree = idx.tree
    BY <2>2 DEF OpRecord
  <2> HIDE DEF o
  <2>4. Begun /\ op'.pc = "seal" /\ op'.cmd = "commit" /\ op'.tree = idx.tree
    BY <2>1, <2>3, BeginFields DEF Points
  <2> QED
    BY <2>1, <2>4 DEF Starting
<1>7. ASSUME ContinueRebase PROVE Begun /\ Starting
  <2> DEFINE first == New("rebase")
             todo == rebase.todo
             o == [first EXCEPT !.todo = todo]
  <2>1. first \in OpRecord /\ first.cmd = "rebase" /\ first.at = branch /\ first.tree = Empty
    BY NewTyped, NewFields DEF Names
  <2>2. CASE todo = <<>>
    <3>1. Begin("replay", o) /\ UNCHANGED plan
      BY <1>7, <2>2 DEF ContinueRebase
    <3> HIDE DEF first, todo
    <3>2. o \in OpRecord /\ o.cmd = "rebase" /\ o.at = branch /\ o.tree = Empty
      BY <2>1 DEF OpRecord, todo
    <3> HIDE DEF o
    <3>3. Begun /\ op'.pc = "replay" /\ op'.cmd = "rebase" /\ op'.tree = Empty
      BY <3>1, <3>2, BeginFields DEF Points
    <3> QED
      BY <3>1, <3>3 DEF Starting
  <2>3. CASE todo # <<>>
    <3> DEFINE c == rebase.todo[1]
               q == [o EXCEPT !.cmd = "resolved", !.of = c, !.tree = idx.tree]
    <3>1. Begin("seal", q) /\ UNCHANGED plan
      BY <1>7, <2>3 DEF ContinueRebase
    <3>2. c \in MaybeIds /\ todo \in Seq(Ids)
      BY <2>3 DEF MaybeIds
    <3> HIDE DEF first, todo, c
    <3>3. q \in OpRecord /\ q.cmd = "resolved" /\ q.at = branch /\ q.tree = idx.tree
      BY <2>1, <3>2 DEF OpRecord, Names
    <3> HIDE DEF o, q
    <3>4. Begun /\ op'.pc = "seal" /\ op'.cmd = "resolved" /\ op'.tree = idx.tree
      BY <3>1, <3>3, BeginFields DEF Points
    <3> QED
      BY <3>1, <3>4 DEF Starting
  <2> QED
    BY <2>2, <2>3
<1>8. ASSUME SkipRebase PROVE Begun /\ Starting
  <2> DEFINE first == New("skip")
             todo == rebase.todo
             o == [first EXCEPT !.todo = todo]
             pc == IF todo = <<>> THEN "replay" ELSE "restore"
  <2>1. Begin(pc, o) /\ UNCHANGED plan
    BY <1>8 DEF SkipRebase
  <2>2. first \in OpRecord /\ first.cmd = "skip" /\ first.at = branch /\ first.tree = Empty
    BY NewTyped, NewFields DEF Names
  <2>3. pc \in {"replay", "restore"} /\ todo \in Seq(Ids)
    OBVIOUS
  <2> HIDE DEF first, todo, pc
  <2>4. o \in OpRecord /\ o.cmd = "skip" /\ o.at = branch /\ o.tree = Empty
    BY <2>2, <2>3 DEF OpRecord
  <2> HIDE DEF o
  <2>5. Begun /\ op'.pc = pc /\ op'.cmd = "skip" /\ op'.tree = Empty
    BY <2>1, <2>3, <2>4, BeginFields DEF Points
  <2> QED
    BY <2>1, <2>3, <2>5 DEF Starting
<1> QED
  BY <1>1, <1>2, <1>3, <1>4, <1>5, <1>6, <1>7, <1>8 DEF Start

-----------------------------------------------------------------------------
(* The invariants *)

\* A merge works on the tip it has locked, and ORIG_HEAD holds the tip that a
\* move is about to leave.
Tips ==
  /\ HeadLocked => op.at = branch
  /\ op.pc = "move" => origHead = op.at

\* Where a command still holds the merge it computed; the tip a replayed commit
\* is sealed on may by then be another writer's.
Overtaken(c) == commits[c].how = "foreign"
Computed ==
  /\ op.pc \in {"materialise", "unmerge"} => Result
  /\ op.pc = "checkout" /\ op.cmd # "ff" => Result
  /\ op.pc = "finish" /\ op.cmd = "merge" => Result
  /\ op.pc = "record" /\ op.cmd \in {"pick", "revert"} => Result
  /\ op.pc = "seal" /\ op.cmd = "rebase" => op.at # 0 /\ Result
  /\ op.pc \in {"checkout", "seal"} /\ op.cmd = "rebase" => branch = op.at \/ Overtaken(branch)
  /\ op.pc = "record" /\ op.cmd = "rebase" => Result \/ Overtaken(op.at)

\* The commits that apply another one name it and have a parent.
Applied ==
  \A i \in Ids : commits[i].how \in {"pick", "revert", "merge", "rebase"} =>
                   commits[i].of \in Ids /\ commits[i].parents # <<>>

\* While no kill left the markers staged, they are in no commit, in no tree that
\* will be one, and in the index only at the conflicts about to be unmerged.
Unmarked(tree) == \A p \in Paths : Marker \notin tree[p]
Markerless ==
  (\A k \in kills : k[2] # "unmerge") =>
    /\ \A c \in Ids : Unmarked(TreeOf(c))
    /\ op.pc \notin {"materialise", "unmerge", "orig", "stop"} => Unmarked(op.tree)
    /\ op.pc # "unmerge" => Unmarked(idx.tree)
    /\ op.pc = "unmerge" => \A p \in Paths \ Clashes : Marker \notin idx.tree[p]

\* REBASE_ORIG_HEAD holds the tip the rebase started from whenever
\* REBASE_HEAD_NAME makes it one, and an --abort is on its way back to it.
Returning ==
  /\ op.pc \in {"name", "clearorig", "clearonto", "cleartodo"} => ~rebase.name
  /\ op.cmd = "abortrebase" /\ op.pc \in {"restore", "clearname"} => IsAncestor(op.to, branch)
  /\ op.cmd = "abortrebase" /\ op.pc = "clearname" => Clean(TreeOf(op.to))
  /\ ~DiedStarting =>
       /\ rebase.name /\ op.pc # "origfile" => rebase.orig = plan.tip
       /\ op.pc \in {"name", "origfile"} => op.at = plan.tip
       /\ op.cmd = "abortrebase" /\ op.pc \in {"reset", "move", "restore", "clearname"} =>
            op.to = plan.tip

-----------------------------------------------------------------------------
(* History only grows *)

Extends == Ids \subseteq Ids' /\ \A c \in Ids : commits'[c] = commits[c]

\* A step makes the commit that the branch moves to.
Made(tree, first, how, of) ==
  LET n == Len(commits) + 1
  IN /\ branch' = n /\ Ids' = Ids \cup {n} /\ n \notin Ids
     /\ commits'[n].tree = tree /\ commits'[n].how = how /\ commits'[n].of = of
     /\ commits'[n].parents # <<>> /\ commits'[n].parents[1] = first

\* An appended commit extends the history and is the one that was made.
LEMMA AppendMakes ==
  ASSUME GraphTyped, NEW tree \in Tree, NEW how \in Sealed, NEW of \in MaybeIds,
         NEW parents \in Seq(Ids), ToSet(parents) \subseteq Ids, parents # <<>>,
         commits' = Append(commits, Commit(tree, parents, how, of)),
         branch' = Len(commits) + 1
  PROVE  Extends /\ Made(tree, parents[1], how, of)
<1> Len(commits) \in Nat
  BY DEF GraphTyped, Older
<1>1. of \in Nat
  BY DEF MaybeIds, Ids
<1>2. /\ Ids' = Ids \cup {Len(commits) + 1}
      /\ \A c \in Ids : commits'[c] = commits[c]
      /\ commits'[Len(commits) + 1] = Commit(tree, parents, how, of)
  BY <1>1, CommitAppends
<1>3. Len(commits) + 1 \notin Ids
  BY DEF Ids
<1>4. /\ Commit(tree, parents, how, of).tree = tree
      /\ Commit(tree, parents, how, of).how = how
      /\ Commit(tree, parents, how, of).of = of
      /\ Commit(tree, parents, how, of).parents = parents
  BY DEF Commit
<1> QED
  BY <1>2, <1>3, <1>4 DEF Extends, Made

\* The steps that make a commit, and on which tip.
LEMMA CommitSteps ==
  ASSUME Typed, [Next]_vars
  PROVE  /\ Typed' /\ Extends
         /\ \/ UNCHANGED commits
            \/ Finish /\ op.cmd = "merge"
            \/ Record /\ branch = op.at
            \/ \E c \in Foreign : Outside(c)
         /\ Finish /\ op.cmd = "merge" => Made(op.tree, op.at, "merge", op.of)
         /\ Record /\ branch = op.at => Made(op.tree, op.at, op.cmd, op.of)
         /\ \A c \in Foreign : Outside(c) => Made(With(HeadTree, {c}), branch, "foreign", 0)
<1> /\ op \in OpRecord /\ Placed /\ Provided /\ branch \in Ids /\ GraphTyped
    /\ heads.merge \in MaybeIds /\ op.at \in MaybeIds /\ op.of \in MaybeIds /\ op.tree \in Tree
  BY DEF Typed, OpTyped, StateTyped, OpRecord
<1> Typed'
  BY NextTyped
<1>1. UNCHANGED commits => Extends
  BY DEF Extends, Ids
<1>2. ASSUME Finish /\ op.cmd = "merge" PROVE Extends /\ Made(op.tree, op.at, "merge", op.of)
  <2> DEFINE a == op.at
             b == op.of
             tree == op.tree
  <2>1. a \in Ids /\ b \in Ids
    BY <1>2 DEF Finish, Provided, MaybeIds
  <2>2. /\ commits' = Append(commits, Commit(tree, <<a, b>>, "merge", b))
        /\ branch' = Len(commits) + 1
    BY <1>2 DEF Finish
  <2>3. tree \in Tree /\ b \in MaybeIds /\ "merge" \in Sealed
    BY DEF Sealed
  <2> HIDE DEF a, b, tree
  <2>4. <<a, b>> \in Seq(Ids) /\ ToSet(<<a, b>>) = {a, b}
    BY <2>1, ParentSequences
  <2>5. ToSet(<<a, b>>) \subseteq Ids
    BY <2>1, <2>4
  <2>6. <<a, b>> # <<>> /\ <<a, b>>[1] = a
    OBVIOUS
  <2>7. Extends /\ Made(tree, <<a, b>>[1], "merge", b)
    BY <2>2, <2>3, <2>4, <2>5, <2>6, AppendMakes
  <2>8. Extends /\ Made(tree, a, "merge", b)
    BY <2>6, <2>7
  <2> QED
    BY <1>2, <2>8 DEF a, b, tree
<1>3. ASSUME Record /\ branch = op.at PROVE Extends /\ Made(op.tree, op.at, op.cmd, op.of)
  <2> DEFINE a == op.at
             b == heads.merge
             parents == IF op.cmd = "continue" /\ b # 0 THEN <<a, b>> ELSE <<a>>
  <2>1. a \in Ids /\ (b # 0 => b \in Ids)
    BY <1>3 DEF MaybeIds
  <2>2. /\ commits' = Append(commits, Commit(op.tree, parents, op.cmd, op.of))
        /\ branch' = Len(commits) + 1
    BY <1>3 DEF Record
  <2>3. op.cmd \in Sealed
    BY <1>3 DEF Record, Placed, Sealed
  <2> HIDE DEF a, b
  <2>4. parents \in Seq(Ids) /\ ToSet(parents) \subseteq Ids /\ parents # <<>> /\ parents[1] = a
    <3>1. CASE op.cmd = "continue" /\ b # 0
      <4>1. <<a, b>> \in Seq(Ids) /\ ToSet(<<a, b>>) = {a, b}
        BY <2>1, <3>1, ParentSequences
      <4>2. <<a, b>> # <<>> /\ <<a, b>>[1] = a
        OBVIOUS
      <4> QED
        BY <2>1, <3>1, <4>1, <4>2
    <3>2. CASE ~(op.cmd = "continue" /\ b # 0)
      <4>1. /\ <<a>> \in Seq(Ids) /\ ToSet(<<a>>) \subseteq Ids
            /\ <<a>> # <<>> /\ <<a>>[1] = a
        BY <2>1, ParentSequences
      <4> QED
        BY <3>2, <4>1
    <3> QED
      BY <3>1, <3>2
  <2> HIDE DEF parents
  <2>5. Extends /\ Made(op.tree, parents[1], op.cmd, op.of)
    BY <2>2, <2>3, <2>4, AppendMakes
  <2>6. Extends /\ Made(op.tree, a, op.cmd, op.of)
    BY <2>4, <2>5
  <2> QED
    BY <1>3, <2>6 DEF a
<1>4. ASSUME NEW c \in Foreign, Outside(c)
      PROVE  Extends /\ Made(With(HeadTree, {c}), branch, "foreign", 0)
  <2> DEFINE tree == With(HeadTree, {c})
  <2>2. /\ commits' = Append(commits, Commit(tree, <<branch>>, "foreign", 0))
        /\ branch' = Len(commits) + 1
    BY <1>4 DEF Outside
  <2>3. {c} \in SUBSET Changes
    BY ChangeAssumption
  <2>4. tree \in Tree
    BY <2>3, TreesTyped, WithIsTree DEF HeadTree
  <2>5. "foreign" \in Sealed /\ 0 \in MaybeIds
    BY DEF Sealed, MaybeIds
  <2>6. /\ <<branch>> \in Seq(Ids) /\ ToSet(<<branch>>) \subseteq Ids
        /\ <<branch>> # <<>> /\ <<branch>>[1] = branch
    BY ParentSequences
  <2> HIDE DEF tree
  <2>7. Extends /\ Made(tree, <<branch>>[1], "foreign", 0)
    BY <2>2, <2>4, <2>5, <2>6, AppendMakes
  <2>8. Extends /\ Made(tree, branch, "foreign", 0)
    BY <2>6, <2>7
  <2> QED
    BY <2>8 DEF tree
<1>5. \/ UNCHANGED commits
      \/ Finish /\ op.cmd = "merge"
      \/ Record /\ branch = op.at
      \/ \E c \in Foreign : Outside(c)
  <2>1. Start => UNCHANGED commits
    BY StartFacts DEF Begun
  <2>2. Abort \/ AbortRebase \/ User \/ Kill => UNCHANGED commits
    BY DEF Abort, AbortRebase, User, Edit, Resolve, Kill, refs
  <2>3. Checkout \/ CheckoutRefused \/ Unmerge \/ Restore => UNCHANGED commits
    BY DEF Checkout, CheckoutRefused, Unmerge, Restore, refs
  <2>4. SetOrigHead \/ Stop \/ Seal \/ Reset \/ Move \/ Clear => UNCHANGED commits
    BY DEF SetOrigHead, Stop, Seal, Reset, Move, Clear, refs
  <2>5. StartRebase \/ ClearRebase \/ Replay \/ Advance => UNCHANGED commits
    BY DEF StartRebase, ClearRebase, Write, Replay, Advance, refs
  <2>6. Finish => UNCHANGED commits \/ op.cmd = "merge"
    BY DEF Finish
  <2>7. Record => UNCHANGED commits \/ branch = op.at
    BY DEF Record
  <2> QED
    BY <2>1, <2>2, <2>3, <2>4, <2>5, <2>6, <2>7 DEF Next, Step, vars
<1> QED
  BY <1>1, <1>2, <1>3, <1>4, <1>5

\* What the history says of its commits stays as it is when it grows.
LEMMA HistoryKept ==
  ASSUME GraphTyped, GraphTyped', Extends
  PROVE  /\ \A c \in Ids : /\ c \in Ids'
                           /\ commits'[c] = commits[c]
                           /\ TreeOf(c)' = TreeOf(c) /\ ParentTree(c)' = ParentTree(c)
                           /\ Reach'[c] = Reach[c]
         /\ \A c, d \in Ids : MergeBases(c, d)' = MergeBases(c, d)
<1>1. \A c \in Ids : c \in Ids' /\ commits'[c] = commits[c]
  BY DEF Extends
<1>2. \A c \in Ids : TreeOf(c)' = TreeOf(c)
  BY <1>1 DEF TreeOf
<1>3. ASSUME NEW c \in Ids PROVE ParentTree(c)' = ParentTree(c)
  <2>1. commits[c].parents # <<>> => commits[c].parents[1] \in Ids
    <3> SUFFICES ASSUME commits[c].parents # <<>> PROVE commits[c].parents[1] \in Ids
      OBVIOUS
    <3>1. commits[c].parents \in Seq(Nat)
      BY TreesTyped DEF CommitRecord
    <3>2. commits[c].parents[1] \in Parents(commits, c)
      BY <3>1 DEF Parents, ToSet
    <3> QED
      BY <3>2 DEF GraphTyped, Older, Ids
  <2> QED
    BY <1>1, <1>2, <2>1 DEF ParentTree
<1>4. \A c \in Ids : Reach'[c] = Reach[c]
  <2> DEFINE more == commits'
  <2>1. Older(commits) /\ Older(more) /\ Len(commits) \in Nat /\ Len(more) \in Nat
    BY DEF GraphTyped, Older
  <2>2. Len(commits) <= Len(more)
    BY <2>1 DEF Extends, Ids
  <2>3. \A c \in 1 .. Len(commits) : more[c] = commits[c]
    BY <1>1 DEF Ids
  <2> HIDE DEF more
  <2>4. \A c \in 1 .. Len(commits) : ReachIn(more)[c] = ReachIn(commits)[c]
    BY <2>1, <2>2, <2>3, ReachAppend
  <2>5. Reach = ReachIn(commits) /\ Reach' = ReachIn(more)
    BY ReachIsReachIn DEF Reach, ReachIn, Unfolds, Ids, Parents, more
  <2> QED
    BY <2>4, <2>5 DEF Ids
<1>5. ASSUME NEW c \in Ids, NEW d \in Ids PROVE MergeBases(c, d)' = MergeBases(c, d)
  <2>1. Reach'[c] = Reach[c] /\ Reach'[d] = Reach[d] /\ Reach[c] \subseteq Ids
    BY <1>4, HistoryTyped
  <2>2. \A e \in Reach[c] : Reach'[e] = Reach[e]
    BY <1>4, <2>1
  <2> QED
    BY <2>1, <2>2 DEF MergeBases, IsAncestor
<1> QED
  BY <1>1, <1>2, <1>3, <1>4, <1>5

\* The parent of a commit that was made is its ancestor.
LEMMA MadeOnParent ==
  ASSUME Typed, Typed', Extends, NEW tree, NEW first \in Ids, NEW how, NEW of,
         Made(tree, first, how, of)
  PROVE  branch' \in Ids' /\ Reach[first] \subseteq Reach'[branch']
<1> DEFINE n == branch'
           more == commits'
<1>1. n \in Ids' /\ more[n].parents # <<>> /\ more[n].parents[1] = first
  BY DEF Made
<1>2. Older(more) /\ n \in 1 .. Len(more)
  BY <1>1 DEF Typed, GraphTyped, Ids
<1>3. first \in Parents(more, n)
  <2>1. more \in Seq(CommitRecord)
    BY DEF Typed, GraphTyped
  <2> HIDE DEF more, n
  <2>2. more[n] \in CommitRecord
    BY <1>2, <2>1
  <2>3. more[n].parents \in Seq(Nat)
    BY <2>2 DEF CommitRecord
  <2> QED
    BY <1>1, <2>3 DEF Parents, ToSet
<1>4. Reach' = ReachIn(more)
  BY DEF Reach, ReachIn, Unfolds, Ids, Parents
<1>5. Reach'[first] = Reach[first]
  BY HistoryKept DEF Typed
<1> HIDE DEF more, n
<1>6. ReachIn(more)[first] \subseteq ReachIn(more)[n]
  BY <1>2, <1>3, ReachUnfolds
<1> QED
  BY <1>1, <1>4, <1>5, <1>6 DEF n

-----------------------------------------------------------------------------
(* No step loses commits *)

\* The steps that move the branch: under the locks of a merge, by a commit on
\* the tip that was read, by the reset of a rebase, or by another writer.
LEMMA BranchSteps ==
  ASSUME [Next]_vars, branch' # branch
  PROVE  \/ Finish
         \/ Record /\ branch = op.at
         \/ Move /\ branch = op.at
         \/ \E c \in Foreign : Outside(c)
<1> USE DEF refs
<1>1. Start => UNCHANGED branch
  BY DEF Start, Merge, CherryPick, Revert, Rebase, Continue, PlainCommit, ContinueRebase,
         SkipRebase, Apply, Begin
<1>2. Abort \/ AbortRebase \/ User \/ Kill => UNCHANGED branch
  BY DEF Abort, AbortRebase, User, Edit, Resolve, Kill
<1>3. Checkout \/ CheckoutRefused \/ Unmerge \/ Restore => UNCHANGED branch
  BY DEF Checkout, CheckoutRefused, Unmerge, Restore
<1>4. SetOrigHead \/ Stop \/ Seal \/ Reset \/ Clear => UNCHANGED branch
  BY DEF SetOrigHead, Stop, Seal, Reset, Clear
<1>5. StartRebase \/ ClearRebase \/ Replay \/ Advance => UNCHANGED branch
  BY DEF StartRebase, ClearRebase, Write, Replay, Advance
<1>6. Record => UNCHANGED branch \/ branch = op.at
  BY DEF Record
<1>7. Move => UNCHANGED branch \/ branch = op.at
  BY DEF Move
<1> QED
  BY <1>1, <1>2, <1>3, <1>4, <1>5, <1>6, <1>7 DEF Next, Step, vars

\* A command either starts, idles or goes on with the tip it read.
LEMMA TipsKept ==
  ASSUME Typed, Tips, [Next]_vars
  PROVE  Tips'
<1> op \in OpRecord /\ Placed
  BY DEF Typed, OpTyped
<1> USE DEF Tips, HeadLocked
<1>1. ASSUME Idling PROVE Tips'
  BY <1>1 DEF Idling
<1>2. ASSUME Start PROVE Tips'
  <2>1. Begun /\ Starting
    BY <1>2, StartFacts
  <2> QED
    BY <2>1 DEF Begun, Starting, Applies
<1>3. ASSUME UNCHANGED vars \/ User PROVE Tips'
  BY <1>3 DEF vars, User, Edit, Resolve, refs
<1>4. ASSUME Abort \/ AbortRebase PROVE Tips'
  BY <1>4, OpStepsRebase
<1>5. ASSUME Checkout \/ CheckoutRefused \/ Unmerge \/ Restore PROVE Tips'
  <2>1. UNCHANGED branch
    BY <1>5 DEF Checkout, CheckoutRefused, Unmerge, Restore, refs
  <2> QED
    BY <1>1, <1>5, <2>1, OpStepsTree DEF Kept, Went, Placed
<1>6. ASSUME SetOrigHead \/ Seal \/ Record PROVE Tips'
  BY <1>1, <1>6, OpStepsRefs DEF Kept, Went, Placed
<1>7. ASSUME Reset PROVE Tips'
  <2>1. op'.pc = "move" /\ op'.cmd = op.cmd /\ op'.at = branch /\ op.pc = "reset"
    BY <1>7, OpStepsRefs DEF Went
  <2>2. origHead' = branch
    BY <1>7 DEF Reset
  <2> QED
    BY <2>1, <2>2 DEF Placed
<1>8. ASSUME Move PROVE Tips'
  BY <1>1, <1>8, OpStepsRefs DEF Kept, Went, Placed
<1>9. ASSUME StartRebase \/ ClearRebase \/ Advance PROVE Tips'
  BY <1>1, <1>9, OpStepsRebase DEF Kept, Went, Placed
<1>10. ASSUME Replay PROVE Tips'
  BY <1>10, OpStepReplay DEF Kept, Went, Placed
<1>11. ASSUME NEW c \in Foreign, Outside(c) PROVE Tips'
  BY <1>11 DEF Outside
<1>12. ASSUME Finish \/ Stop \/ Clear \/ Kill PROVE Tips'
  BY <1>1, <1>12, OpStepsRefs
<1> QED
  BY <1>2, <1>3, <1>4, <1>5, <1>6, <1>7, <1>8, <1>9, <1>10, <1>11, <1>12 DEF Next, Step

\* A branch that moves goes to a descendant, or ORIG_HEAD keeps what it leaves.
LEMMA MoveKeepsTip ==
  ASSUME Typed, Tips, [Next]_vars
  PROVE  branch' # branch => branch \in Reach'[branch'] \/ origHead' = branch
<1> SUFFICES ASSUME branch' # branch
             PROVE  branch \in Reach'[branch'] \/ origHead' = branch
  OBVIOUS
<1> branch \in Ids /\ branch \in Reach[branch]
  BY HistoryTyped DEF Typed, StateTyped
<1>1. Typed' /\ Extends
  BY CommitSteps
<1>2. ASSUME NEW tree, NEW how, NEW of, Made(tree, branch, how, of)
      PROVE  branch \in Reach'[branch']
  BY <1>1, <1>2, MadeOnParent
<1>3. CASE Finish
  <2>1. op.pc = "finish" /\ op.cmd \in {"merge", "ff"}
    BY <1>3 DEF Finish, Typed, OpTyped, Placed
  <2>2. op.at = branch
    BY <2>1 DEF Tips, HeadLocked
  <2> QED
    BY <1>3, <2>2 DEF Finish
<1>4. CASE Move /\ branch = op.at
  BY <1>4 DEF Move, Tips
<1>5. CASE Record /\ branch = op.at
  <2> DEFINE tree == op.tree
             how == op.cmd
             of == op.of
  <2>1. Made(tree, branch, how, of)
    BY <1>5, CommitSteps
  <2> HIDE DEF tree, how, of
  <2> QED
    BY <1>2, <2>1
<1>6. CASE \E c \in Foreign : Outside(c)
  <2>1. PICK c \in Foreign : Outside(c)
    BY <1>6
  <2> DEFINE tree == With(HeadTree, {c})
  <2>2. Made(tree, branch, "foreign", 0)
    BY <2>1, CommitSteps
  <2> HIDE DEF tree
  <2> QED
    BY <1>2, <2>2
<1> QED
  BY <1>3, <1>4, <1>5, <1>6, BranchSteps

\* No step loses commits: the branch moves to a descendant or ORIG_HEAD keeps
\* the tip it leaves (reset_head, finish_orig_head), whatever other writers
\* commit between the steps of a command and wherever commands are killed.
THEOREM TipsAreRecoverable == Spec => MovesAreRecoverable
<1>1. Init => Tips
  BY DEF Init, Idle, Tips, HeadLocked
<1>2. Typed /\ Tips /\ [Next]_vars => Tips'
  BY TipsKept
<1>3. Typed /\ Tips /\ [Next]_vars =>
        [branch' # branch => branch \in Reach'[branch'] \/ origHead' = branch]_vars
  BY MoveKeepsTip
<1> QED
  BY <1>1, <1>2, <1>3, InitTyped, NextTyped, PTL DEF Spec, MovesAreRecoverable

-----------------------------------------------------------------------------
(* Every commit is what the merge on its parent says *)

\* What the next state reads of the two commits a command works with.
LEMMA OpReads ==
  ASSUME GraphTyped, GraphTyped', Extends, NEW a \in Ids, NEW b \in Ids,
         op'.at = a, op'.of = b
  PROVE  /\ TreeOf(op.at)' = TreeOf(a) /\ TreeOf(op.of)' = TreeOf(b)
         /\ ParentTree(op.of)' = ParentTree(b)
         /\ MergeBases(op.at, op.of)' = MergeBases(a, b)
<1>1. /\ TreeOf(a)' = TreeOf(a) /\ TreeOf(b)' = TreeOf(b)
      /\ ParentTree(b)' = ParentTree(b)
      /\ MergeBases(a, b)' = MergeBases(a, b)
  BY HistoryKept
<1>2. TreeOf(op.at)' = TreeOf(a)' /\ TreeOf(op.of)' = TreeOf(b)'
  BY DEF TreeOf
<1>3. ParentTree(op.of)' = ParentTree(b)'
  BY DEF ParentTree
<1>4. MergeBases(op.at, op.of)' = MergeBases(a, b)'
  BY DEF MergeBases
<1> QED
  BY <1>1, <1>2, <1>3, <1>4

\* A command that holds the merge of two commits still does when history grows.
LEMMA ResultAt ==
  ASSUME Typed, Typed', Extends, NEW a \in Ids, NEW b \in Ids,
         op'.at = a, op'.of = b,
         op'.cmd \in {"pick", "rebase"} => op'.base = ParentTree(b),
         op'.cmd = "revert" => op'.base = TreeOf(b),
         op'.cmd = "merge" => \E c \in MergeBases(a, b) : op'.base = TreeOf(c),
         op'.tree = Merged(op'.base, TreeOf(a),
                           IF op'.cmd = "revert" THEN ParentTree(b) ELSE TreeOf(b))
  PROVE  Result'
<1>1. /\ TreeOf(op.at)' = TreeOf(a) /\ TreeOf(op.of)' = TreeOf(b)
      /\ ParentTree(op.of)' = ParentTree(b)
      /\ MergeBases(op.at, op.of)' = MergeBases(a, b)
  BY OpReads DEF Typed
<1>2. MergeBases(a, b) \subseteq Ids
  BY HistoryTyped DEF Typed
<1>3. \A c \in MergeBases(a, b) : TreeOf(c)' = TreeOf(c)
  BY <1>2, HistoryKept DEF Typed
<1>4. op'.cmd = "merge" => (\E c \in MergeBases(op.at, op.of) : op.base = TreeOf(c))'
  BY <1>1, <1>3
<1>5. BaseRead'
  BY <1>1, <1>4 DEF BaseRead
<1>6. TheirTree' = IF op'.cmd = "revert" THEN ParentTree(b) ELSE TreeOf(b)
  BY <1>1 DEF TheirTree
<1>7. Merged(op.base, TreeOf(op.at), TheirTree)' = Merged(op'.base, TreeOf(a), TheirTree')
  BY <1>1 DEF Merged, Conflicts
<1> QED
  BY <1>5, <1>6, <1>7 DEF Result

\* A command that goes on with what it computed still holds it.
LEMMA ResultKept ==
  ASSUME Typed, Typed', Extends, op.at \in Ids, op.of \in Ids, Kept, op'.cmd = op.cmd, Result
  PROVE  Result'
<1>1. PICK a \in Ids, b \in Ids : a = op.at /\ b = op.of
  OBVIOUS
<1>2. op'.at = a /\ op'.of = b /\ op'.base = op.base /\ op'.tree = op.tree
  BY <1>1 DEF Kept
<1>3. op.cmd = "merge" => \E c \in MergeBases(a, b) : op.base = TreeOf(c)
  BY <1>1 DEF Result, BaseRead
<1>4. /\ op'.cmd \in {"pick", "rebase"} => op'.base = ParentTree(b)
      /\ op'.cmd = "revert" => op'.base = TreeOf(b)
  BY <1>1, <1>2 DEF Result, BaseRead
<1>5. op'.tree = Merged(op'.base, TreeOf(a),
                        IF op'.cmd = "revert" THEN ParentTree(b) ELSE TreeOf(b))
  BY <1>1, <1>2 DEF Result, TheirTree
<1> QED
  BY <1>2, <1>3, <1>4, <1>5, ResultAt

\* The command is where it was and the branch too, or another writer moved it.
LEMMA ComputedStays ==
  ASSUME Typed, Typed', Extends, Computed, op' = op, branch' = branch \/ Overtaken(branch)'
  PROVE  Computed'
<1> branch \in Ids /\ op.at \in MaybeIds /\ op.of \in MaybeIds /\ Provided
  BY DEF Typed, OpTyped, OpRecord, StateTyped
<1>1. ASSUME op.pc \in {"materialise", "unmerge", "checkout", "finish"}
             \/ (op.pc = "record" /\ op.cmd \in {"pick", "revert", "rebase"}), Result
      PROVE  Result'
  <2>1. op.at \in Ids /\ op.of \in Ids
    BY <1>1 DEF Provided, MaybeIds
  <2> QED
    BY <1>1, <2>1, ResultKept DEF Kept
<1>2. ASSUME op.pc = "seal", op.cmd = "rebase", op.at # 0, Result
      PROVE  Result'
  <2>1. op.at \in Ids /\ op.of \in Ids
    BY <1>2 DEF Provided, MaybeIds
  <2> QED
    BY <1>2, <2>1, ResultKept DEF Kept
<1>3. ASSUME op.pc = "record", Overtaken(op.at) PROVE Overtaken(op.at)'
  <2>1. op.at \in Ids
    BY <1>3 DEF Provided, MaybeIds
  <2> QED
    BY <1>3, <2>1 DEF Overtaken, Extends
<1>4. branch = op.at \/ Overtaken(branch) => (branch = op.at \/ Overtaken(branch))'
  BY DEF Overtaken, Extends
<1>5. op'.pc = op.pc /\ op'.cmd = op.cmd /\ op'.at = op.at
  OBVIOUS
<1> QED
  BY <1>1, <1>2, <1>3, <1>4, <1>5 DEF Computed

\* Every step keeps what the commands hold.
LEMMA ComputedKept ==
  ASSUME Typed, Computed, [Next]_vars
  PROVE  Computed'
<1> /\ op \in OpRecord /\ Placed /\ Provided /\ branch \in Ids
    /\ op.at \in MaybeIds /\ op.of \in MaybeIds
  BY DEF Typed, OpTyped, OpRecord, StateTyped
<1> Typed' /\ Extends
  BY CommitSteps
<1>1. ASSUME op'.pc \notin {"materialise", "unmerge", "checkout", "finish", "seal", "record"}
      PROVE  Computed'
  BY <1>1 DEF Computed
<1>2. ASSUME Idling PROVE Computed'
  BY <1>1, <1>2 DEF Idling
<1>3. ASSUME Start PROVE Computed'
  <2>1. Begun /\ Starting
    BY <1>3, StartFacts
  <2>2. CASE Applies
    <3>1. PICK b \in Ids : b = op'.of
      BY <2>2 DEF Applies
    <3>2. op'.at = branch
      BY <2>1 DEF Begun
    <3>3. op'.tree = Merged(op'.base, TreeOf(branch),
                            IF op'.cmd = "revert" THEN ParentTree(b) ELSE TreeOf(b))
      BY <2>2, <3>1 DEF Applies, HeadTree
    <3>4. /\ op'.cmd \in {"merge", "pick", "revert"}
          /\ op'.cmd = "pick" => op'.base = ParentTree(b)
          /\ op'.cmd = "revert" => op'.base = TreeOf(b)
          /\ op'.cmd = "merge" => \E c \in MergeBases(branch, b) : op'.base = TreeOf(c)
      BY <2>2, <3>1 DEF Applies
    <3>5. Result'
      <4>1. PICK a \in Ids : a = branch
        OBVIOUS
      <4> QED
        BY <3>1, <3>2, <3>3, <3>4, <4>1, ResultAt
    <3>6. op'.pc \in {"materialise", "checkout"}
      BY <2>2 DEF Applies
    <3> QED
      BY <3>4, <3>5, <3>6 DEF Computed
  <2>3. CASE op'.pc = "checkout" /\ op'.cmd = "ff"
    BY <2>3 DEF Computed
  <2>4. CASE op'.pc = "seal" /\ op'.cmd \in {"continue", "commit", "resolved"}
    BY <2>4 DEF Computed
  <2> QED
    BY <1>1, <2>1, <2>2, <2>3, <2>4 DEF Starting
<1>4. ASSUME UNCHANGED vars \/ User PROVE Computed'
  <2>1. op' = op /\ branch' = branch
    BY <1>4 DEF vars, User, Edit, Resolve, refs
  <2> QED
    BY <2>1, ComputedStays
<1>5. ASSUME NEW c \in Foreign, Outside(c) PROVE Computed'
  <2>1. op' = op
    BY <1>5 DEF Outside
  <2>2. Overtaken(branch)'
    BY <1>5, CommitSteps DEF Overtaken, Made
  <2> QED
    BY <2>1, <2>2, ComputedStays
<1>6. ASSUME Abort \/ AbortRebase PROVE Computed'
  BY <1>1, <1>6, OpStepsRebase
<1>7. ASSUME Checkout PROVE Computed'
  <2>1. Kept /\ op'.cmd = op.cmd /\ branch' = branch
    BY <1>7, OpStepsTree DEF Checkout, refs
  <2>2. CASE op.pc = "base"
    BY <1>1, <1>7, <2>2, OpStepsTree
  <2>3. CASE op.pc = "checkout" /\ op.cmd = "ff"
    BY <1>7, <2>1, <2>3, OpStepsTree DEF Computed
  <2>4. CASE op.pc = "materialise" \/ (op.pc = "checkout" /\ op.cmd # "ff")
    <3>1. op.at \in Ids /\ op.of \in Ids /\ op.at # 0
      BY <2>4 DEF Provided, MaybeIds
    <3>2. Result'
      BY <2>1, <2>4, <3>1, ResultKept DEF Computed
    <3>3. op.pc = "checkout" /\ op.cmd = "rebase" => (branch = op.at \/ Overtaken(branch))'
      BY <2>1 DEF Computed, Kept, Overtaken, Extends
    <3>4. op'.at # 0
      BY <2>1, <3>1 DEF Kept
    <3> QED
      BY <1>7, <2>1, <2>4, <3>2, <3>3, <3>4, OpStepsTree DEF Computed
  <2> QED
    BY <1>7, <2>2, <2>3, <2>4 DEF Checkout
<1>8. ASSUME CheckoutRefused \/ Unmerge \/ Restore PROVE Computed'
  BY <1>1, <1>2, <1>8, OpStepsTree DEF Went
<1>9. ASSUME Finish \/ Stop \/ Clear \/ Kill PROVE Computed'
  BY <1>2, <1>9, OpStepsRefs
<1>10. ASSUME SetOrigHead \/ Record \/ Reset \/ Move PROVE Computed'
  BY <1>1, <1>2, <1>10, OpStepsRefs DEF Went
<1>11. ASSUME StartRebase \/ ClearRebase \/ Advance PROVE Computed'
  BY <1>1, <1>2, <1>11, OpStepsRebase DEF Went
<1>12. ASSUME Seal PROVE Computed'
  <2>1. /\ op.pc = "seal" /\ op'.pc = "record" /\ op'.cmd = op.cmd /\ op'.at = branch
        /\ op'.of = op.of /\ op'.to = op.to /\ op'.tree = op.tree /\ op'.base = op.base
    BY <1>12, OpStepsRefs DEF Went
  <2>2. CASE op.cmd # "rebase"
    BY <2>1, <2>2 DEF Computed, Placed
  <2>3. CASE op.cmd = "rebase" /\ branch = op.at
    <3>1. op.at \in Ids /\ op.of \in Ids /\ Kept /\ Result
      BY <2>1, <2>3 DEF Computed, Provided, MaybeIds, Kept
    <3>2. Result'
      BY <2>1, <3>1, ResultKept
    <3> QED
      BY <2>1, <2>3, <3>2 DEF Computed
  <2>4. CASE op.cmd = "rebase" /\ Overtaken(branch)
    <3>1. Overtaken(op.at)'
      BY <2>1, <2>4 DEF Overtaken, Extends
    <3> QED
      BY <2>1, <2>4, <3>1 DEF Computed
  <2> QED
    BY <2>1, <2>2, <2>3, <2>4 DEF Computed
<1>13. ASSUME Replay PROVE Computed'
  <2>1. CASE op'.pc = "clearname" \/ op'.pc = "advance"
    BY <1>1, <2>1
  <2>2. CASE op'.pc # "clearname" /\ op'.pc # "advance"
    <3>1. /\ op'.cmd = "rebase" /\ op'.at = branch /\ op'.of \in Ids
          /\ op'.base = ParentTree(op'.of)
          /\ op'.tree = Merged(op'.base, HeadTree, TreeOf(op'.of))
          /\ op'.pc \in {"seal", "materialise", "checkout"}
      BY <1>13, <2>2, OpStepReplay DEF Went
    <3>2. branch' = branch
      BY <1>13 DEF Replay, refs
    <3>3. PICK a \in Ids, b \in Ids : a = branch /\ b = op'.of
      BY <3>1
    <3>4. op'.base = ParentTree(b) /\ op'.tree = Merged(op'.base, TreeOf(a), TreeOf(b))
      BY <3>1, <3>3 DEF HeadTree
    <3>5. Result'
      BY <3>1, <3>3, <3>4, ResultAt
    <3>6. op'.at # 0 /\ branch' = op'.at
      BY <3>1, <3>2 DEF Ids
    <3> QED
      BY <3>1, <3>5, <3>6 DEF Computed
  <2> QED
    BY <2>1, <2>2
<1> QED
  BY <1>3, <1>4, <1>5, <1>6, <1>7, <1>8, <1>9, <1>10, <1>11, <1>12, <1>13 DEF Next, Step

\* BuiltOnItsParent for one commit: a tree made in this way from c on a parent.
BuiltFrom(tree, how, c, onto) ==
  /\ how = "pick" \/ (how = "rebase" /\ commits[onto].how # "foreign") =>
       tree = Merged(ParentTree(c), TreeOf(onto), TreeOf(c))
  /\ how = "revert" => tree = Merged(TreeOf(c), TreeOf(onto), ParentTree(c))
  /\ how = "merge" => \E b \in MergeBases(onto, c) :
       tree = Merged(TreeOf(b), TreeOf(onto), TreeOf(c))

\* Later commits change nothing in it.
LEMMA BuiltKept ==
  ASSUME GraphTyped, GraphTyped', Extends, NEW tree, NEW how, NEW c \in Ids, NEW onto \in Ids,
         BuiltFrom(tree, how, c, onto)
  PROVE  BuiltFrom(tree, how, c, onto)'
<1>1. /\ TreeOf(c)' = TreeOf(c) /\ ParentTree(c)' = ParentTree(c)
      /\ TreeOf(onto)' = TreeOf(onto) /\ commits'[onto] = commits[onto]
      /\ MergeBases(onto, c)' = MergeBases(onto, c)
  BY HistoryKept
<1>2. \A b \in MergeBases(onto, c) : TreeOf(b)' = TreeOf(b)
  <2>1. MergeBases(onto, c) \subseteq Ids
    BY HistoryTyped
  <2> QED
    BY <2>1, HistoryKept
<1>3. \A x, y, z : Merged(x, y, z)' = Merged(x, y, z)
  BY DEF Merged, Conflicts
<1> QED
  BY <1>1, <1>2, <1>3 DEF BuiltFrom

\* A step makes at most commits that are built like this.
LEMMA BuiltSteps ==
  ASSUME Typed, Computed, Applied, BuiltOnItsParent, [Next]_vars
  PROVE  Applied' /\ BuiltOnItsParent'
<1> /\ Typed' /\ Extends /\ GraphTyped /\ GraphTyped'
  BY CommitSteps DEF Typed
<1> Placed /\ Provided /\ op.at \in MaybeIds /\ op.of \in MaybeIds /\ branch \in Ids
  BY DEF Typed, OpTyped, OpRecord, StateTyped
<1> DEFINE Applying == {"pick", "revert", "merge", "rebase"}
\* A commit that is built from a commit of the history.
<1>1. ASSUME NEW i, NEW tree, NEW how, NEW c, NEW onto,
             how \in Applying => c \in Ids /\ onto \in Ids /\ BuiltFrom(tree, how, c, onto),
             tree = commits'[i].tree, how = commits'[i].how, c = commits'[i].of,
             onto = commits'[i].parents[1]
      PROVE  BuiltFrom(commits[i].tree, commits[i].how, commits[i].of, commits[i].parents[1])'
  <2>1. BuiltFrom(tree, how, c, onto)'
    <3>1. CASE how \in Applying
      BY <1>1, <3>1, BuiltKept
    <3>2. CASE how \notin Applying
      BY <3>2 DEF BuiltFrom
    <3> QED
      BY <3>1, <3>2
  <2> QED
    BY <1>1, <2>1 DEF BuiltFrom
\* The commits there were.
<1>2. ASSUME NEW i \in Ids
      PROVE  /\ commits'[i].how \in Applying => commits'[i].of \in Ids' /\ commits'[i].parents # <<>>
             /\ BuiltFrom(commits[i].tree, commits[i].how, commits[i].of, commits[i].parents[1])'
  <2>1. PICK tree, how, c, onto :
          /\ tree = commits[i].tree /\ how = commits[i].how /\ c = commits[i].of
          /\ onto = commits[i].parents[1]
    OBVIOUS
  <2>2. commits'[i] = commits[i] /\ Ids \subseteq Ids'
    BY DEF Extends
  <2>3. how \in Applying => c \in Ids /\ commits[i].parents # <<>>
    BY <2>1 DEF Applied
  <2>4. commits[i].parents # <<>> => onto \in Ids
    <3> SUFFICES ASSUME commits[i].parents # <<>> PROVE onto \in Ids
      OBVIOUS
    <3>1. commits[i].parents \in Seq(Nat)
      BY TreesTyped DEF CommitRecord
    <3>2. onto \in Parents(commits, i)
      BY <2>1, <3>1 DEF Parents, ToSet
    <3> QED
      BY <3>2 DEF GraphTyped, Older, Ids
  <2>5. BuiltFrom(tree, how, c, onto)
    BY <2>1 DEF BuiltOnItsParent, BuiltFrom, TreeOf
  <2>6. BuiltFrom(commits[i].tree, commits[i].how, commits[i].of, commits[i].parents[1])'
    BY <2>1, <2>2, <2>3, <2>4, <2>5, <1>1
  <2> QED
    BY <2>1, <2>2, <2>3, <2>6
\* The commit that was made.
<1>3. ASSUME NEW tree, NEW how, NEW c, NEW onto, Made(tree, onto, how, c),
             how \in Applying => c \in Ids /\ onto \in Ids /\ BuiltFrom(tree, how, c, onto)
      PROVE  Applied' /\ BuiltOnItsParent'
  <2>1. PICK n : /\ Ids' = Ids \cup {n}
                 /\ commits'[n].tree = tree /\ commits'[n].how = how /\ commits'[n].of = c
                 /\ commits'[n].parents # <<>> /\ commits'[n].parents[1] = onto
    BY <1>3 DEF Made
  <2>2. BuiltFrom(commits[n].tree, commits[n].how, commits[n].of, commits[n].parents[1])'
    BY <1>1, <1>3, <2>1
  <2>3. commits'[n].how \in Applying => commits'[n].of \in Ids' /\ commits'[n].parents # <<>>
    BY <1>3, <2>1
  <2>4. Applied'
    BY <1>2, <2>1, <2>3 DEF Applied
  <2>5. \A i \in Ids' : BuiltFrom(commits[i].tree, commits[i].how, commits[i].of, commits[i].parents[1])'
    BY <1>2, <2>1, <2>2
  <2>6. BuiltOnItsParent'
    BY <2>5 DEF BuiltOnItsParent, BuiltFrom, TreeOf
  <2> QED
    BY <2>4, <2>6
<1>4. CASE UNCHANGED commits
  <2>1. Ids' = Ids
    BY <1>4 DEF Ids
  <2>2. Applied'
    BY <1>2, <2>1 DEF Applied
  <2>3. \A i \in Ids' : BuiltFrom(commits[i].tree, commits[i].how, commits[i].of, commits[i].parents[1])'
    BY <1>2, <2>1
  <2>4. BuiltOnItsParent'
    BY <2>3 DEF BuiltOnItsParent, BuiltFrom, TreeOf
  <2> QED
    BY <2>2, <2>4
<1>5. CASE Finish /\ op.cmd = "merge"
  <2>1. PICK tree, c, onto :
          tree = op.tree /\ c = op.of /\ onto = op.at /\ c \in Ids /\ onto \in Ids
    BY <1>5 DEF Finish, Provided, MaybeIds
  <2>2. Made(tree, onto, "merge", c)
    BY <1>5, <2>1, CommitSteps
  <2>3. Result
    BY <1>5 DEF Computed, Finish
  <2>4. BuiltFrom(tree, "merge", c, onto)
    BY <1>5, <2>1, <2>3 DEF Result, BaseRead, TheirTree, BuiltFrom
  <2> QED
    BY <1>3, <2>1, <2>2, <2>4
<1>6. CASE Record /\ branch = op.at
  <2>1. PICK tree, how, c, onto :
          tree = op.tree /\ how = op.cmd /\ c = op.of /\ onto = op.at /\ onto \in Ids
    BY <1>6
  <2>2. Made(tree, onto, how, c)
    BY <1>6, <2>1, CommitSteps
  <2>3. op.pc = "record"
    BY <1>6 DEF Record
  <2>4. how \in Applying => how \in {"pick", "revert", "rebase"} /\ c \in Ids
    BY <2>1, <2>3 DEF Placed, Provided, MaybeIds
  <2>5. how \in {"pick", "revert", "rebase"} => BuiltFrom(tree, how, c, onto)
    BY <2>1, <2>3 DEF Computed, Result, BaseRead, TheirTree, Overtaken, BuiltFrom
  <2> QED
    BY <1>3, <2>1, <2>2, <2>4, <2>5
<1>7. CASE \E c \in Foreign : Outside(c)
  <2>1. PICK c \in Foreign : Outside(c)
    BY <1>7
  <2>2. PICK tree, onto : tree = With(HeadTree, {c}) /\ onto = branch /\ onto \in Ids
    OBVIOUS
  <2>3. Made(tree, onto, "foreign", 0)
    BY <2>1, <2>2, CommitSteps
  <2> QED
    BY <1>3, <2>3
<1> QED
  BY <1>4, <1>5, <1>6, <1>7, CommitSteps

\* The commits of the setup apply no other.
LEMMA SetupBuilt ==
  ASSUME Init
  PROVE  Tips /\ Computed /\ Applied /\ BuiltOnItsParent
<1>1. Tips /\ Computed
  BY DEF Init, Idle, Tips, HeadLocked, Computed
<1>2. ASSUME NEW i \in Ids PROVE commits[i].how = "setup"
  <2>1. commits[i] \in SetupRecord
    BY SetupTyped DEF Init, Ids
  <2> QED
    BY <2>1 DEF SetupRecord
<1> QED
  BY <1>1, <1>2 DEF Applied, BuiltOnItsParent

\* A commit that a pick, a revert, a merge or a replay made is its change applied
\* to its own parent (merge_apply, commit_on_head, record_commit), also when the
\* branch moved while the command ran; only a replayed commit may sit on a tip
\* another writer had just made.
THEOREM CommitsAreBuiltOnTheirParents == Spec => []BuiltOnItsParent
<1>1. Typed /\ Computed /\ [Next]_vars => Computed'
  BY ComputedKept
<1>2. Typed /\ Computed /\ Applied /\ BuiltOnItsParent /\ [Next]_vars =>
        Applied' /\ BuiltOnItsParent'
  BY BuiltSteps
<1> QED
  BY <1>1, <1>2, SetupBuilt, InitTyped, NextTyped, PTL DEF Spec

-----------------------------------------------------------------------------
(* Conflict markers stay out of history *)

\* A merge leaves markers at its conflicts only.
LEMMA MergedUnmarked ==
  ASSUME NEW base, NEW ours, NEW theirs, Unmarked(ours), Unmarked(theirs)
  PROVE  /\ \A p \in Paths \ Conflicts(base, ours, theirs) : Marker \notin Merged(base, ours, theirs)[p]
         /\ Conflicts(base, ours, theirs) = {} => Unmarked(Merged(base, ours, theirs))
BY DEF Unmarked, Merged

\* Without markers in any commit there are none in the tree of its parent.
LEMMA ParentsUnmarked ==
  ASSUME GraphTyped, \A c \in Ids : Unmarked(TreeOf(c))
  PROVE  Unmarked(Empty) /\ \A c \in Ids : Unmarked(ParentTree(c))
<1>1. Unmarked(Empty)
  BY DEF Unmarked, Empty
<1>2. ASSUME NEW c \in Ids, commits[c].parents # <<>> PROVE commits[c].parents[1] \in Ids
  <2>1. commits[c].parents \in Seq(Nat)
    BY TreesTyped DEF CommitRecord
  <2>2. commits[c].parents[1] \in Parents(commits, c)
    BY <1>2, <2>1 DEF Parents, ToSet
  <2> QED
    BY <2>2 DEF GraphTyped, Older, Ids
<1> QED
  BY <1>1, <1>2 DEF ParentTree

\* Kills are remembered.
LEMMA KillsGrow == [Next]_vars => kills \subseteq kills'
<1> USE DEF ghosts, asked
<1>1. Start => UNCHANGED kills
  BY DEF Start, Merge, CherryPick, Revert, Rebase, Continue, PlainCommit, ContinueRebase,
         SkipRebase, Apply, Begin
<1>2. Abort \/ AbortRebase \/ User => UNCHANGED kills
  BY DEF Abort, AbortRebase, User, Edit, Resolve
<1>3. Kill \/ (\E c \in Foreign : Outside(c)) => kills \subseteq kills'
  BY DEF Kill, Outside
<1>4. Checkout \/ CheckoutRefused \/ Unmerge \/ Restore => UNCHANGED kills
  BY DEF Checkout, CheckoutRefused, Unmerge, Restore
<1>5. Finish \/ SetOrigHead \/ Stop \/ Seal \/ Record \/ Reset \/ Move \/ Clear => UNCHANGED kills
  BY DEF Finish, SetOrigHead, Stop, Seal, Record, Reset, Move, Clear
<1>6. StartRebase \/ ClearRebase \/ Replay \/ Advance => UNCHANGED kills
  BY DEF StartRebase, ClearRebase, Write, Replay, Advance
<1> QED
  BY <1>1, <1>2, <1>3, <1>4, <1>5, <1>6 DEF Next, Step, vars

\* The conflicts a command is about to record are the same in a longer history.
LEMMA ClashesKept ==
  ASSUME Typed, Typed', Extends, Kept, op'.cmd = op.cmd, op.at \in Ids, op.of \in Ids
  PROVE  Clashes' = Clashes
<1>1. PICK a \in Ids, b \in Ids : a = op.at /\ b = op.of
  OBVIOUS
<1>2. op'.at = a /\ op'.of = b /\ op'.base = op.base
  BY <1>1 DEF Kept
<1>3. /\ TreeOf(op.at)' = TreeOf(a) /\ TreeOf(op.of)' = TreeOf(b)
      /\ ParentTree(op.of)' = ParentTree(b)
  BY <1>2, OpReads DEF Typed
<1>4. TheirTree' = TheirTree
  BY <1>1, <1>3 DEF TheirTree
<1>5. Conflicts(op.base, TreeOf(op.at), TheirTree)' = Conflicts(op'.base, TreeOf(op.at)', TheirTree')
  BY DEF Conflicts
<1> QED
  BY <1>1, <1>2, <1>3, <1>4, <1>5 DEF Clashes

\* The steps make commits without markers.
LEMMA CommitsUnmarked ==
  ASSUME Typed, [Next]_vars, \A c \in Ids : Unmarked(TreeOf(c)),
         op.pc \notin {"materialise", "unmerge", "orig", "stop"} => Unmarked(op.tree)
  PROVE  (\A c \in Ids : Unmarked(TreeOf(c)))'
<1>1. \A c \in Ids : Unmarked(TreeOf(c)')
  <2>1. \A c \in Ids : TreeOf(c)' = TreeOf(c)
    BY CommitSteps, HistoryKept DEF Typed
  <2> QED
    BY <2>1
<1>2. ASSUME NEW tree, NEW first, NEW how, NEW of, Made(tree, first, how, of), Unmarked(tree)
      PROVE  \A c \in Ids' : Unmarked(TreeOf(c)')
  BY <1>1, <1>2 DEF Made, TreeOf
<1>3. \A c \in Ids' : Unmarked(TreeOf(c)')
  <2>1. CASE UNCHANGED commits
    BY <1>1, <2>1 DEF Ids
  <2>2. CASE (Finish /\ op.cmd = "merge") \/ (Record /\ branch = op.at)
    <3>1. op.pc \in {"finish", "record"}
      BY <2>2 DEF Finish, Record
    <3>2. PICK tree, first, how, of : tree = op.tree /\ Made(tree, first, how, of)
      BY <2>2, CommitSteps
    <3> QED
      BY <1>2, <3>1, <3>2
  <2>3. CASE \E c \in Foreign : Outside(c)
    <3>1. PICK c \in Foreign : Outside(c)
      BY <2>3
    <3>2. PICK tree : tree = With(HeadTree, {c}) /\ Made(tree, branch, "foreign", 0)
      BY <3>1, CommitSteps
    <3>3. Unmarked(HeadTree) /\ c # Marker
      BY ChangeAssumption, MarkerAssumption DEF HeadTree, Typed, StateTyped
    <3>4. Unmarked(tree)
      BY <3>2, <3>3 DEF Unmarked, With
    <3>5. PICK first : first = branch
      OBVIOUS
    <3> QED
      BY <1>2, <3>2, <3>4, <3>5
  <2> QED
    BY <2>1, <2>2, <2>3, CommitSteps
<1> QED
  BY <1>3 DEF Unmarked, TreeOf

\* Neither do they bring markers into a tree that will be committed, or leave
\* them in the index beyond the conflicts they are about to record.
LEMMA TreesUnmarked ==
  ASSUME Typed, Computed, [Next]_vars,
         \A k \in kills' : k[2] # "unmerge",
         \A c \in Ids : Unmarked(TreeOf(c)),
         op.pc \notin {"materialise", "unmerge", "orig", "stop"} => Unmarked(op.tree),
         op.pc # "unmerge" => Unmarked(idx.tree),
         op.pc = "unmerge" => \A p \in Paths \ Clashes : Marker \notin idx.tree[p]
  PROVE  /\ op'.pc \notin {"materialise", "unmerge", "orig", "stop"} => Unmarked(op'.tree)
         /\ op'.pc # "unmerge" => Unmarked(idx'.tree)
         /\ op'.pc = "unmerge" => (\A p \in Paths \ Clashes : Marker \notin idx.tree[p])'
<1> DEFINE Goal == /\ op'.pc \notin {"materialise", "unmerge", "orig", "stop"} => Unmarked(op'.tree)
                   /\ op'.pc # "unmerge" => Unmarked(idx'.tree)
                   /\ op'.pc = "unmerge" => (\A p \in Paths \ Clashes : Marker \notin idx.tree[p])'
<1> /\ op \in OpRecord /\ Placed /\ Provided /\ branch \in Ids /\ GraphTyped
    /\ op.at \in MaybeIds /\ op.of \in MaybeIds /\ op.to \in MaybeIds
    /\ idx \in [tree : Tree, unmerged : SUBSET Paths]
  BY DEF Typed, OpTyped, OpRecord, StateTyped
<1> Typed' /\ Extends
  BY CommitSteps
<1>0. Unmarked(Empty) /\ Unmarked(HeadTree) /\ \A c \in Ids : Unmarked(ParentTree(c))
  BY ParentsUnmarked DEF HeadTree
<1>1. ASSUME op'.pc # "unmerge", Unmarked(idx'.tree),
             op'.pc \in {"materialise", "orig", "stop"} \/ Unmarked(op'.tree)
      PROVE  Goal
  BY <1>1
<1>2. ASSUME Idling, Unmarked(idx'.tree) PROVE Goal
  BY <1>0, <1>2 DEF Idling
<1> HIDE DEF Goal
<1>3. ASSUME Start PROVE Goal
  <2>1. Begun /\ Starting
    BY <1>3, StartFacts
  <2>2. idx' = idx /\ Unmarked(idx.tree)
    BY <2>1 DEF Begun
  <2>3. CASE Applies
    <3>1. PICK b \in Ids : b = op'.of
      BY <2>3 DEF Applies
    <3> DEFINE theirs == IF op'.cmd = "revert" THEN ParentTree(b) ELSE TreeOf(b)
    <3>2. /\ op'.tree = Merged(op'.base, HeadTree, theirs)
          /\ \/ op'.pc = "materialise"
             \/ op'.pc = "checkout" /\ Conflicts(op'.base, HeadTree, theirs) = {}
      BY <2>3, <3>1 DEF Applies
    <3>3. Unmarked(theirs)
      BY <1>0
    <3> HIDE DEF theirs
    <3>4. op'.pc = "checkout" => Unmarked(op'.tree)
      BY <1>0, <3>2, <3>3, MergedUnmarked
    <3> QED
      BY <1>1, <2>2, <3>2, <3>4
  <2>4. CASE op'.pc \in {"checkout", "base", "name", "seal", "replay", "restore"} /\ ~Applies
    <3>1. op'.tree = Empty \/ op'.tree = idx.tree \/ \E c \in Ids : op'.tree = TreeOf(c)
      <4>1. op'.cmd = "ff" /\ op'.of \in Ids /\ op'.tree = TreeOf(op'.of) =>
              \E c \in Ids : op'.tree = TreeOf(c)
        OBVIOUS
      <4>2. op'.cmd = "rebase" /\ op'.to \in Ids /\ op'.tree = TreeOf(op'.to) =>
              \E c \in Ids : op'.tree = TreeOf(c)
        OBVIOUS
      <4> QED
        BY <2>1, <2>4, <4>1, <4>2 DEF Starting
    <3>2. Unmarked(op'.tree)
      BY <1>0, <2>2, <3>1
    <3> QED
      BY <1>1, <2>2, <2>4, <3>2
  <2> QED
    BY <2>1, <2>3, <2>4 DEF Starting
<1>4. ASSUME Abort \/ AbortRebase PROVE Goal
  <2>1. idx' = idx
    BY <1>4 DEF Abort, AbortRebase
  <2> QED
    BY <1>0, <1>1, <1>4, <2>1, OpStepsRebase
<1>5. ASSUME User PROVE Goal
  <2>1. op.pc = "idle" /\ op' = op
    BY <1>5 DEF User, Edit, Resolve, Waiting
  <2>2. Unmarked(idx'.tree)
    <3>1. CASE \E c \in Edits : Edit(c)
      <4>1. PICK c \in Edits : Edit(c)
        BY <3>1
      <4>2. c \in Changes /\ c # Marker /\ PathOf[c] \in Paths
        BY ChangeAssumption, MarkerAssumption, PathAssumption
      <4>3. idx'.tree = [idx.tree EXCEPT ![PathOf[c]] = @ \cup {c}]
        BY <4>1 DEF Edit
      <4>4. Unmarked(idx.tree) /\ idx.tree \in Tree
        BY <2>1
      <4> QED
        BY <4>2, <4>3, <4>4 DEF Unmarked, Tree
    <3>2. CASE \E p \in Paths : Resolve(p)
      <4>1. PICK p \in Paths : Resolve(p)
        BY <3>2
      <4>2. PICK extra \in {{}} \cup {{c} : c \in {d \in Changes \ (Foreign \cup Edits) : PathOf[d] = p}} :
              idx' = [tree |-> [idx.tree EXCEPT ![p] = (HeadTree[p] \ {Marker}) \cup extra],
                      unmerged |-> idx.unmerged \ {p}]
        BY <4>1, Zenon DEF Resolve
      <4>3. Marker \notin extra
        BY <4>2, MarkerAssumption
      <4>4. Unmarked(idx.tree) /\ idx.tree \in Tree
        BY <2>1
      <4>5. idx'.tree = [idx.tree EXCEPT ![p] = (HeadTree[p] \ {Marker}) \cup extra]
        BY <4>2
      <4> QED
        BY <4>3, <4>4, <4>5 DEF Unmarked, Tree
    <3> QED
      BY <1>5, <3>1, <3>2 DEF User
  <2> QED
    BY <1>1, <2>1, <2>2
<1>6. ASSUME UNCHANGED vars \/ \E c \in Foreign : Outside(c) PROVE Goal
  <2>1. op' = op /\ idx' = idx
    BY <1>6 DEF vars, Outside
  <2>2. CASE op.pc = "unmerge"
    <3>1. op.at \in Ids /\ op.of \in Ids
      BY <2>2 DEF Provided, MaybeIds
    <3>2. Clashes' = Clashes
      BY <2>1, <3>1, ClashesKept DEF Kept
    <3> QED
      BY <2>1, <2>2, <3>2 DEF Goal
  <2> QED
    BY <1>1, <2>1, <2>2
<1>7. ASSUME Checkout PROVE Goal
  <2>1. /\ Kept /\ op'.cmd = op.cmd /\ op.pc \in {"materialise", "checkout", "base"}
        /\ (op'.pc = "unmerge" <=> op.pc = "materialise")
    BY <1>7, OpStepsTree
  <2>2. /\ idx'.tree = Carried(TreeOf(op.at), op.tree)
        /\ idx.tree \in Tree /\ Unmarked(idx.tree)
    BY <1>7, <2>1 DEF Checkout
  <2>3. \A p \in Paths : Marker \notin op.tree[p] => Marker \notin idx'.tree[p]
    BY <2>2 DEF Carried, Unmarked
  <2>4. CASE op.pc = "materialise"
    <3>1. op.at \in Ids /\ op.of \in Ids
      BY <2>4 DEF Provided, MaybeIds
    <3>2. Clashes' = Clashes
      BY <2>1, <3>1, ClashesKept
    <3>3. Unmarked(TreeOf(op.at)) /\ Unmarked(TheirTree)
      BY <1>0, <3>1 DEF TheirTree
    <3>4. op.tree = Merged(op.base, TreeOf(op.at), TheirTree)
      BY <2>4 DEF Computed, Result
    <3>5. \A p \in Paths \ Clashes : Marker \notin op.tree[p]
      BY <3>3, <3>4, MergedUnmarked DEF Clashes
    <3>6. (\A p \in Paths \ Clashes : Marker \notin idx.tree[p])'
      BY <2>3, <3>2, <3>5
    <3> QED
      BY <2>1, <2>4, <3>6 DEF Goal
  <2>5. CASE op.pc # "materialise"
    <3>1. Unmarked(op.tree) /\ op'.tree = op.tree
      BY <2>1, <2>5 DEF Kept
    <3>2. Unmarked(idx'.tree)
      BY <2>3, <3>1 DEF Unmarked
    <3> QED
      BY <1>1, <2>1, <2>5, <3>1, <3>2
  <2> QED
    BY <2>4, <2>5
<1>8. ASSUME CheckoutRefused PROVE Goal
  <2>1. op.pc \in {"materialise", "checkout", "base"} /\ idx' = idx
        /\ (Return \/ op.pc = "base")
    BY <1>8 DEF CheckoutRefused, Withdraw
  <2>2. Idling \/ (op.pc = "base" /\ op'.pc = "clearname" /\ op'.tree = op.tree)
    BY <1>8, <2>1, ReturnIdles, OpStepsTree DEF Kept
  <2> QED
    BY <1>1, <1>2, <2>1, <2>2
<1>9. ASSUME Unmerge PROVE Goal
  <2>1. op.pc = "unmerge" /\ (Idling \/ op'.pc = "orig")
    BY <1>9, OpStepsTree DEF Went
  <2>2. idx'.tree = [p \in Paths |-> IF p \in Clashes THEN {} ELSE idx.tree[p]]
    BY <1>9 DEF Unmerge, Clashes, TheirTree
  <2>3. Unmarked(idx'.tree)
    BY <2>1, <2>2 DEF Unmarked
  <2> QED
    BY <1>1, <1>2, <2>1, <2>3
<1>10. ASSUME Restore PROVE Goal
  <2>1. op.pc = "restore" /\ op'.tree = op.tree /\ op'.pc \in {"clear", "clearname", "advance"}
    BY <1>10, OpStepsTree DEF Kept, Went
  <2>2. op.cmd = "abortrebase" => op.to \in Ids
    BY <2>1 DEF Provided, MaybeIds
  <2>3. idx'.tree = IF op.cmd = "abortrebase" THEN TreeOf(op.to) ELSE HeadTree
    BY <1>10 DEF Restore
  <2>4. Unmarked(idx'.tree)
    BY <1>0, <2>2, <2>3
  <2> QED
    BY <1>1, <2>1, <2>4
<1>11. ASSUME Finish \/ Stop \/ Clear \/ Kill PROVE Goal
  <2>1. idx' = idx
    BY <1>11 DEF Finish, Stop, Clear, Kill
  <2>2. op.pc # "unmerge"
    <3>1. Kill => <<op.cmd, op.pc>> \in kills'
      BY DEF Kill
    <3>2. Kill => <<op.cmd, op.pc>>[2] # "unmerge"
      BY <3>1
    <3> QED
      BY <1>11, <3>2 DEF Finish, Stop, Clear
  <2> QED
    BY <1>2, <1>11, <2>1, <2>2, OpStepsRefs
<1>12. ASSUME SetOrigHead \/ Seal \/ Record \/ Reset \/ Move PROVE Goal
  <2>1. idx' = idx
    BY <1>12 DEF SetOrigHead, Seal, Record, Reset, Move
  <2>2. Unmarked(idx'.tree)
    BY <1>12, <2>1, OpStepsRefs
  <2>3. SetOrigHead => op'.pc = "stop"
    BY OpStepsRefs DEF Went
  <2>4. Seal \/ Record \/ Reset \/ Move =>
          /\ Unmarked(op.tree)
          /\ Idling \/ (op'.pc # "unmerge" /\ op'.tree = op.tree)
    BY OpStepsRefs DEF Kept, Went
  <2> QED
    BY <1>1, <1>2, <1>12, <2>2, <2>3, <2>4
<1>13. ASSUME StartRebase \/ ClearRebase \/ Advance PROVE Goal
  <2>1. idx' = idx
    BY <1>13 DEF StartRebase, ClearRebase, Write, Advance
  <2>2. /\ op.pc \notin {"materialise", "unmerge", "orig", "stop"}
        /\ Idling \/ (op'.pc # "unmerge" /\ op'.tree = op.tree)
    BY <1>13, OpStepsRebase DEF Kept, Went
  <2> QED
    BY <1>1, <1>2, <2>1, <2>2
<1>14. ASSUME Replay PROVE Goal
  <2>1. idx' = idx /\ op.pc = "replay"
    BY <1>14 DEF Replay
  <2>2. CASE Kept /\ Went("clearname")
    BY <1>1, <2>1, <2>2 DEF Kept, Went
  <2>3. CASE ~(Kept /\ Went("clearname"))
    <3>1. /\ op'.of \in Ids
          /\ op'.tree = Merged(op'.base, HeadTree, TreeOf(op'.of))
          /\ \/ op'.pc \in {"seal", "advance"} /\ op'.tree = HeadTree
             \/ op'.pc = "materialise"
             \/ op'.pc = "checkout" /\ Conflicts(op'.base, HeadTree, TreeOf(op'.of)) = {}
      BY <1>14, <2>3, OpStepReplay
    <3>2. PICK theirs : theirs = TreeOf(op'.of) /\ Unmarked(theirs)
      BY <3>1
    <3>3. op'.pc = "checkout" => Unmarked(op'.tree)
      BY <1>0, <3>1, <3>2, MergedUnmarked
    <3> QED
      BY <1>0, <1>1, <2>1, <3>1, <3>3
  <2> QED
    BY <2>2, <2>3
<1>15. Goal
  BY <1>3, <1>4, <1>5, <1>6, <1>7, <1>8, <1>9, <1>10, <1>11, <1>12, <1>13, <1>14 DEF Next, Step
<1> QED
  BY <1>15 DEF Goal

\* Every step keeps markers where they may be.
LEMMA MarkerlessKept ==
  ASSUME Typed, Computed, Markerless, [Next]_vars
  PROVE  Markerless'
<1> SUFFICES ASSUME \A k \in kills' : k[2] # "unmerge" PROVE Markerless'
  BY DEF Markerless
<1>1. \A k \in kills : k[2] # "unmerge"
  BY KillsGrow
<1>2. /\ \A c \in Ids : Unmarked(TreeOf(c))
      /\ op.pc \notin {"materialise", "unmerge", "orig", "stop"} => Unmarked(op.tree)
      /\ op.pc # "unmerge" => Unmarked(idx.tree)
      /\ op.pc = "unmerge" => \A p \in Paths \ Clashes : Marker \notin idx.tree[p]
  BY <1>1 DEF Markerless
<1>3. (\A c \in Ids : Unmarked(TreeOf(c)))'
  BY <1>2, CommitsUnmarked
<1>4. /\ op'.pc \notin {"materialise", "unmerge", "orig", "stop"} => Unmarked(op'.tree)
      /\ op'.pc # "unmerge" => Unmarked(idx'.tree)
      /\ op'.pc = "unmerge" => (\A p \in Paths \ Clashes : Marker \notin idx.tree[p])'
  BY <1>2, TreesUnmarked
<1>5. Unmarked(op.tree)' = Unmarked(op'.tree) /\ Unmarked(idx.tree)' = Unmarked(idx'.tree)
  BY DEF Unmarked
<1> QED
  BY <1>3, <1>4, <1>5 DEF Markerless

\* Conflict markers stay out of history: a stopped command leaves the paths
\* unmerged (write_conflicted_state) until the user resolves them, and no commit
\* reachable from the branch has them, unless a command was killed between the
\* checkout of a conflict and the write of the index.
THEOREM MarkersStayOut == Spec => []NoMarkersCommitted
<1>1. ASSUME Init PROVE Markerless
  <2>1. \A c \in Ids : Unmarked(TreeOf(c))
    <3> SUFFICES ASSUME NEW c \in Ids PROVE Unmarked(TreeOf(c))
      OBVIOUS
    <3>1. commits[c] \in SetupRecord
      BY <1>1, SetupTyped DEF Init, Ids
    <3> QED
      BY <3>1, MarkerAssumption DEF SetupRecord, TreeOf, Unmarked
  <2>2. Unmarked(Empty)
    BY DEF Unmarked, Empty
  <2>3. op.pc = "idle" /\ op.tree = Empty
    BY <1>1 DEF Init, Idle
  <2>4. idx.tree = TreeOf(branch) /\ branch \in Ids
    BY <1>1, InitTyped DEF Init, TreeOf, Typed, StateTyped
  <2> QED
    BY <2>1, <2>2, <2>3, <2>4 DEF Markerless
<1>2. ASSUME Typed, Markerless PROVE NoMarkersCommitted
  <2>1. Reach[branch] \subseteq Ids
    BY <1>2, HistoryTyped DEF Typed, StateTyped
  <2> QED
    BY <1>2, <2>1 DEF Markerless, NoMarkersCommitted, Unmarked
<1>3. Typed /\ Computed /\ [Next]_vars => Computed'
  BY ComputedKept
<1>4. Typed /\ Computed /\ Markerless /\ [Next]_vars => Markerless'
  BY MarkerlessKept
<1> QED
  BY <1>1, <1>2, <1>3, <1>4, SetupBuilt, InitTyped, NextTyped, PTL DEF Spec

-----------------------------------------------------------------------------
(* --abort of a rebase returns to its start *)

\* The files of the rebase change in their own steps, the rebase that was asked
\* for when one starts.
LEMMA RebaseSteps ==
  ASSUME [Next]_vars
  PROVE  /\ UNCHANGED rebase \/ StartRebase \/ ClearRebase \/ Advance
         /\ UNCHANGED plan \/ Start
<1> USE DEF state, ghosts, asked
<1>1. Start => UNCHANGED rebase
  BY DEF Start, Merge, CherryPick, Revert, Rebase, Continue, PlainCommit, ContinueRebase,
         SkipRebase, Apply, Begin
<1>2. Abort \/ AbortRebase \/ User \/ Kill => UNCHANGED <<rebase, plan>>
  BY DEF Abort, AbortRebase, User, Edit, Resolve, Kill
<1>3. Checkout \/ CheckoutRefused \/ Unmerge \/ Restore => UNCHANGED <<rebase, plan>>
  BY DEF Checkout, CheckoutRefused, Unmerge, Restore
<1>4. Finish \/ SetOrigHead \/ Stop \/ Seal \/ Record \/ Reset \/ Move \/ Clear =>
        UNCHANGED <<rebase, plan>>
  BY DEF Finish, SetOrigHead, Stop, Seal, Record, Reset, Move, Clear
<1>5. StartRebase \/ ClearRebase \/ Advance => UNCHANGED plan
  BY DEF StartRebase, ClearRebase, Write, Advance
<1>6. Replay \/ (\E c \in Foreign : Outside(c)) => UNCHANGED <<rebase, plan>>
  BY DEF Replay, Outside
<1> QED
  BY <1>1, <1>2, <1>3, <1>4, <1>5, <1>6 DEF Next, Step, vars

\* Where the steps other than a start and an --abort leave the command.
LEMMA Onward ==
  ASSUME Typed, Step \/ Kill
  PROVE  \/ Idling
         \/ /\ Kept /\ op'.pc \notin {"idle", "name", "origfile"} /\ op'.cmd = op.cmd
            /\ op'.pc = "clearname" => op.pc \in {"restore", "replay"}
            /\ op'.pc = "restore" => op.pc = "move" /\ Move
            /\ op'.pc \in {"clearorig", "clearonto", "cleartodo"} => ClearRebase
            /\ op'.pc = "move" => op.pc = "reset"
            /\ op'.pc = "reset" => op.pc = "base"
         \/ Kept /\ op'.pc = "clearname" /\ op'.cmd = "failed"
         \/ Kept /\ op.pc = "name" /\ op'.pc = "origfile" /\ StartRebase /\ op'.cmd = op.cmd
         \/ op'.pc \in {"record", "move"} /\ op'.cmd = op.cmd /\ op'.to = op.to
              /\ (op'.pc = "move" => op.pc = "reset")
         \/ op'.cmd = "rebase" /\ op'.pc \in {"seal", "advance", "materialise", "checkout"}
<1>1. CASE Checkout
  BY <1>1, OpStepsTree
<1>2. CASE CheckoutRefused \/ Unmerge \/ Restore
  BY <1>2, OpStepsTree DEF Went
<1>3. CASE Finish \/ Stop \/ Clear \/ Kill
  BY <1>3, OpStepsRefs
<1>4. CASE SetOrigHead \/ Seal \/ Record \/ Reset
  BY <1>4, OpStepsRefs DEF Went
<1>5. CASE Move
  BY <1>5, OpStepsRefs DEF Went
<1>6. CASE StartRebase \/ ClearRebase \/ Advance
  BY <1>6, OpStepsRebase DEF Went
<1>7. CASE Replay
  BY <1>7, OpStepReplay DEF Went
<1> QED
  BY <1>1, <1>2, <1>3, <1>4, <1>5, <1>6, <1>7 DEF Step

\* Files are deleted and a rebase begins without REBASE_HEAD_NAME.
LEMMA NamelessKept ==
  ASSUME Typed, Returning, [Next]_vars
  PROVE  op'.pc \in {"name", "clearorig", "clearonto", "cleartodo"} => ~rebase'.name
<1> rebase \in [name : BOOLEAN, orig : MaybeIds, onto : MaybeIds, todo : Seq(Ids)]
  BY DEF Typed, StateTyped
<1>1. CASE Start
  BY <1>1, StartFacts DEF Begun, Starting, Applies
<1>2. CASE ClearRebase
  BY <1>2, OpStepsRebase DEF Returning, Idling
<1>3. CASE Step /\ ~ClearRebase
  BY <1>3, Onward DEF Idling
<1>4. CASE Kill
  BY <1>4, OpStepsRefs DEF Idling
<1>5. CASE Abort \/ AbortRebase
  BY <1>5, OpStepsRebase
<1>6. CASE UNCHANGED vars \/ User \/ \E c \in Foreign : Outside(c)
  <2>1. op' = op /\ rebase' = rebase
    BY <1>6 DEF vars, User, Edit, Resolve, Outside, state
  <2> QED
    BY <2>1 DEF Returning
<1> QED
  BY <1>1, <1>2, <1>3, <1>4, <1>5, <1>6 DEF Next

\* An --abort that has moved the branch stays on it and ends with its tree.
LEMMA ReturnKept ==
  ASSUME Typed, Returning, [Next]_vars
  PROVE  /\ op'.cmd = "abortrebase" /\ op'.pc \in {"restore", "clearname"} =>
              op'.to \in Reach'[branch']
         /\ op'.cmd = "abortrebase" /\ op'.pc = "clearname" => Clean(TreeOf(op.to))'
<1> DEFINE Goal == /\ op'.cmd = "abortrebase" /\ op'.pc \in {"restore", "clearname"} =>
                        op'.to \in Reach'[branch']
                   /\ op'.cmd = "abortrebase" /\ op'.pc = "clearname" => Clean(TreeOf(op.to))'
<1> /\ branch \in Ids /\ op.to \in MaybeIds /\ Placed /\ Provided
  BY DEF Typed, OpTyped, OpRecord, StateTyped
<1> Typed' /\ Extends
  BY CommitSteps
<1>1. ASSUME ~(op'.cmd = "abortrebase" /\ op'.pc \in {"restore", "clearname"}) PROVE Goal
  BY <1>1
<1> HIDE DEF Goal
<1>2. CASE Start
  BY <1>1, <1>2, StartFacts DEF Starting, Applies
<1>3. CASE Abort \/ AbortRebase
  BY <1>1, <1>3, OpStepsRebase
<1>4. CASE Restore /\ op.cmd = "abortrebase"
  <2>1. op.pc = "restore" /\ op'.to = op.to /\ op'.pc = "clearname" /\ op.to \in Reach[branch]
    BY <1>4, OpStepsTree DEF Kept, Went, Returning, IsAncestor
  <2>2. UNCHANGED <<commits, branch>> /\ idx' = [tree |-> TreeOf(op.to), unmerged |-> {}]
    BY <1>4 DEF Restore, refs
  <2>3. Reach' = Reach
    BY <2>2 DEF Reach, Ids
  <2>4. Clean(TreeOf(op.to))'
    BY <2>1, <2>2 DEF Clean, TreeOf
  <2> QED
    BY <2>1, <2>2, <2>3, <2>4 DEF Goal
<1>5. CASE Move /\ op'.pc = "restore"
  <2>1. op'.to = op.to /\ branch' = op.to
    BY <1>5, OpStepsRefs DEF Kept, Went, Idling
  <2>2. branch' \in Ids'
    BY DEF Typed, StateTyped
  <2>3. (\A c \in Ids : c \in Reach[c])'
    <3>1. \A c \in Ids' : c \in Reach'[c]
      <4> DEFINE more == commits'
      <4>1. Older(more)
        BY DEF Typed, GraphTyped
      <4>2. Reach' = ReachIn(more) /\ Ids' = 1 .. Len(more)
        BY DEF Reach, ReachIn, Unfolds, Ids, Parents
      <4> HIDE DEF more
      <4> QED
        BY <4>1, <4>2, ReachBounds
    <3> QED
      BY <3>1
  <2>4. op'.to \in Reach'[branch']
    BY <2>1, <2>2, <2>3
  <2> QED
    BY <1>5, <2>4 DEF Goal
<1>6. CASE (Step \/ Kill) /\ ~(Restore /\ op.cmd = "abortrebase") /\ ~(Move /\ op'.pc = "restore")
  <2>1. ~(op'.cmd = "abortrebase" /\ op'.pc = "restore")
    BY <1>6, Onward DEF Idling
  <2>2. ~(op'.cmd = "abortrebase" /\ op'.pc = "clearname")
    <3> SUFFICES ASSUME op'.cmd = "abortrebase" /\ op'.pc = "clearname" PROVE FALSE
      OBVIOUS
    <3>1. op.cmd = "abortrebase" /\ op.pc \in {"restore", "replay"}
      BY <1>6, Onward DEF Idling
    <3>2. op.pc = "restore"
      BY <3>1 DEF Placed
    <3>3. Restore \/ Kill
      BY <1>6, <3>2 DEF Step, Checkout, CheckoutRefused, Unmerge, Finish, SetOrigHead, Stop, Seal,
         Record, Reset, Move, Clear, StartRebase, ClearRebase, Write, Replay, Advance
    <3> QED
      BY <1>6, <3>1, <3>3, OpStepsRefs DEF Idling
  <2> QED
    BY <1>1, <2>1, <2>2
<1>7. CASE UNCHANGED vars \/ User \/ \E c \in Foreign : Outside(c)
  <2>1. op' = op
    BY <1>7 DEF vars, User, Edit, Resolve, Outside
  <2> SUFFICES ASSUME op.cmd = "abortrebase", op.pc \in {"restore", "clearname"}
               PROVE  Goal
    BY <1>1, <2>1 DEF Goal
  <2>2. op.to \in Ids /\ op.to \in Reach[branch]
    BY DEF Provided, MaybeIds, Returning, IsAncestor
  <2>3. idx' = idx
    BY <1>7 DEF vars, User, Edit, Resolve, Outside, Waiting
  <2>4. Reach[branch] \subseteq Reach'[branch']
    <3>1. CASE UNCHANGED <<commits, branch>>
      <4>1. Reach' = Reach
        BY <3>1 DEF Reach, Ids
      <4> QED
        BY <3>1, <4>1
    <3>2. CASE \E c \in Foreign : Outside(c)
      <4>1. PICK tree, first : Made(tree, first, "foreign", 0) /\ first = branch
        BY <3>2, CommitSteps
      <4>2. Reach[first] \subseteq Reach'[branch']
        BY <4>1, MadeOnParent
      <4> QED
        BY <4>1, <4>2
    <3> QED
      BY <1>7, <3>1, <3>2 DEF vars, User, Edit, Resolve, refs
  <2>5. op.pc = "clearname" => Clean(TreeOf(op.to))'
    <3>1. commits'[op.to] = commits[op.to]
      BY <2>2 DEF Extends
    <3> QED
      BY <2>1, <2>3, <3>1 DEF Returning, Clean, TreeOf
  <2> QED
    BY <2>1, <2>2, <2>4, <2>5 DEF Goal
<1> QED
  BY <1>2, <1>3, <1>4, <1>5, <1>6, <1>7 DEF Next

\* While no rebase died at its start, REBASE_ORIG_HEAD is the tip it started from.
LEMMA OriginalKept ==
  ASSUME Typed, Returning, [Next]_vars, ~DiedStarting'
  PROVE  /\ rebase'.name /\ op'.pc # "origfile" => rebase'.orig = plan'.tip
         /\ op'.pc \in {"name", "origfile"} => op'.at = plan'.tip
         /\ op'.cmd = "abortrebase" /\ op'.pc \in {"reset", "move", "restore", "clearname"} =>
              op'.to = plan'.tip
<1> /\ Placed /\ rebase \in [name : BOOLEAN, orig : MaybeIds, onto : MaybeIds, todo : Seq(Ids)]
  BY DEF Typed, OpTyped, StateTyped
<1>1. /\ rebase.name /\ op.pc # "origfile" => rebase.orig = plan.tip
      /\ op.pc \in {"name", "origfile"} => op.at = plan.tip
      /\ op.cmd = "abortrebase" /\ op.pc \in {"reset", "move", "restore", "clearname"} =>
           op.to = plan.tip
  <2>1. ~DiedStarting
    BY KillsGrow DEF DiedStarting
  <2> QED
    BY <2>1 DEF Returning
<1>2. CASE Start
  <2>1. Begun /\ Starting
    BY <1>2, StartFacts
  <2> QED
    BY <1>1, <2>1 DEF Begun, Starting, Applies
<1>3. CASE Abort \/ AbortRebase
  <2>1. UNCHANGED <<rebase, plan>>
    BY <1>3 DEF Abort, AbortRebase, state, ghosts
  <2> QED
    BY <1>1, <1>3, <2>1, OpStepsRebase
<1>4. CASE UNCHANGED vars \/ User \/ \E c \in Foreign : Outside(c)
  <2>1. UNCHANGED <<op, rebase, plan>>
    BY <1>4 DEF vars, User, Edit, Resolve, Outside, state, ghosts
  <2> QED
    BY <1>1, <2>1
\* The command, whatever happens to the files.
<1>5. ASSUME Step \/ Kill
      PROVE  /\ op'.pc \in {"name", "origfile"} => op'.at = plan.tip
             /\ op'.cmd = "abortrebase" /\ op'.pc \in {"reset", "move", "restore", "clearname"} =>
                  op'.to = plan.tip
  BY <1>1, <1>5, Onward DEF Idling, Kept, Placed
<1>6. plan' = plan \/ Start
  BY RebaseSteps
<1>7. CASE StartRebase \/ ClearRebase \/ Advance
  <2>1. plan' = plan
    BY <1>7 DEF StartRebase, ClearRebase, Write, Advance, ghosts, asked
  <2>2. rebase'.name /\ op'.pc # "origfile" => rebase'.orig = plan.tip
    BY <1>1, <1>7, OpStepsRebase DEF Returning
  <2> QED
    BY <1>5, <1>7, <2>1, <2>2 DEF Step
<1>8. CASE Step /\ ~(StartRebase \/ ClearRebase \/ Advance)
  <2>1. UNCHANGED <<rebase, plan>> /\ op.pc # "origfile"
    BY <1>8 DEF Step, Checkout, CheckoutRefused, Unmerge, Restore, Finish, SetOrigHead, Stop, Seal,
       Record, Reset, Move, Clear, Replay, state, ghosts
  <2> QED
    BY <1>1, <1>5, <1>8, <2>1
<1>9. CASE Kill
  <2>1. UNCHANGED <<rebase, plan>> /\ <<op.cmd, op.pc>> \in kills'
    BY <1>9 DEF Kill, state, asked
  <2>2. op.pc # "origfile"
    <3> SUFFICES ASSUME op.pc = "origfile" PROVE FALSE
      OBVIOUS
    <3>1. op.cmd = "rebase"
      BY DEF Placed
    <3>2. <<op.cmd, op.pc>> \in {"rebase"} \X {"origfile", "ontofile", "todofile", "base", "reset", "move"}
      BY <3>1
    <3> QED
      BY <2>1, <3>2 DEF DiedStarting
  <2> QED
    BY <1>1, <1>5, <1>9, <2>1, <2>2
<1> QED
  BY <1>2, <1>3, <1>4, <1>7, <1>8, <1>9 DEF Next

\* Every step keeps the way back of an --abort.
LEMMA ReturningKept ==
  ASSUME Typed, Returning, [Next]_vars
  PROVE  Returning'
BY NamelessKept, ReturnKept, OriginalKept DEF Returning, IsAncestor

\* --abort of a rebase ends at the commit and the tree it started from
\* (abort_rebase, reset_head, restore_to_head), also when an earlier --abort was
\* killed anywhere and whatever other writers commit, unless the rebase died at
\* its start.
THEOREM AbortGoesBack == Spec => []AbortRestoresTip
<1>1. Init => Returning
  BY DEF Init, Idle, Returning
<1>2. ASSUME Returning PROVE AbortRestoresTip
  BY <1>2 DEF Returning, AbortRestoresTip
<1>3. Typed /\ Returning /\ [Next]_vars => Returning'
  BY ReturningKept
<1> QED
  BY <1>1, <1>2, <1>3, InitTyped, NextTyped, PTL DEF Spec
=============================================================================
