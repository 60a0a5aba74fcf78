----------------------------- MODULE RebaseProofs -----------------------------
(***************************************************************************)
(* Proof that a rebase replays every commit of its list (Sequencer): the    *)
(* commits between the merge base and the tip are a chain, the content of   *)
(* the branch is that of one merge up to the commit that is next, and every *)
(* commit before that one is accounted for.                                 *)
(***************************************************************************)
EXTENDS SequencerProofs

-----------------------------------------------------------------------------
(* The commits between a merge base and the tip are a chain *)

\* The commits of cs that tip has and base has not; when each has one parent.
Between(cs, base, tip) == ReachIn(cs)[tip] \ ReachIn(cs)[base]
Single(cs, base, tip) == \A c \in Between(cs, base, tip) : \E d : Parents(cs, c) = {d}

\* A commit reaches what its only parent reaches, and itself.
LEMMA OneParent ==
  ASSUME NEW cs, Older(cs), NEW base \in 1 .. Len(cs), NEW tip \in 1 .. Len(cs),
         Single(cs, base, tip), NEW c \in Between(cs, base, tip)
  PROVE  /\ c \in 1 .. Len(cs) /\ c \in ReachIn(cs)[c]
         /\ \E d \in 1 .. c - 1 : /\ Parents(cs, c) = {d} /\ d \in ReachIn(cs)[tip]
                                  /\ d \in 1 .. Len(cs)
                                  /\ ReachIn(cs)[c] = {c} \cup ReachIn(cs)[d]
                                  /\ c \notin ReachIn(cs)[d]
<1> DEFINE R == ReachIn(cs)
<1> Len(cs) \in Nat
  BY DEF Older
<1>1. c \in R[tip] /\ R[tip] \subseteq 1 .. tip
  BY ReachBounds DEF Between
<1>2. c \in 1 .. Len(cs)
  BY <1>1
<1>3. c \in R[c] /\ R[c] \subseteq R[tip]
  BY <1>1, <1>2, ReachBounds, ReachTransitive
<1>4. PICK d : Parents(cs, c) = {d}
  BY DEF Single
<1>5. d \in 1 .. c - 1 /\ d \in 1 .. Len(cs)
  BY <1>2, <1>4 DEF Older
<1>6. R[c] = {c} \cup UNION {R[e] : e \in {d}}
  BY <1>2, <1>4, ReachUnfolds
<1>7. R[d] \subseteq 1 .. d /\ d \in R[d]
  BY <1>5, ReachBounds
<1> HIDE DEF R
<1>8. R[c] = {c} \cup R[d]
  BY <1>6, Zenon
<1>9. c \notin R[d]
  BY <1>2, <1>5, <1>7
<1>10. d \in R[tip]
  BY <1>3, <1>7, <1>8
<1> QED
  BY <1>2, <1>3, <1>4, <1>5, <1>8, <1>9, <1>10 DEF R

\* Each of them has the base among its ancestors, and the older ones too.
LEMMA Linear ==
  ASSUME NEW cs, Older(cs), NEW base \in 1 .. Len(cs), NEW tip \in 1 .. Len(cs),
         base \in ReachIn(cs)[tip], Single(cs, base, tip)
  PROVE  \A c \in Between(cs, base, tip) :
           /\ base \in ReachIn(cs)[c]
           /\ {d \in Between(cs, base, tip) : d <= c} = ReachIn(cs)[c] \ ReachIn(cs)[base]
<1> DEFINE R == ReachIn(cs)
           B == Between(cs, base, tip)
           S == {x \in 1 .. Len(cs) : x \in R[tip] /\ base \in R[x] =>
                   \A c \in R[x] \ R[base] :
                     /\ base \in R[c]
                     /\ \A d \in R[x] \ R[base] : d <= c => d \in R[c]}
<1> Len(cs) \in Nat
  BY DEF Older
<1>1. \A x \in 1 .. Len(cs) : x \in R[x] /\ R[x] \subseteq 1 .. x
  BY ReachBounds
<1>2. \A x \in 1 .. Len(cs) : \A d \in R[x] : R[d] \subseteq R[x]
  BY ReachTransitive
<1>3. B = R[tip] \ R[base]
  BY DEF Between
<1>4. ASSUME NEW c \in B
      PROVE  \E d \in 1 .. c - 1 : /\ d \in R[tip] /\ d \in 1 .. Len(cs)
                                   /\ R[c] = {c} \cup R[d] /\ c \notin R[d]
  BY OneParent
<1> HIDE DEF R, B
<1>5. ASSUME NEW x \in 1 .. Len(cs), 1 .. x - 1 \subseteq S PROVE x \in S
  <2> SUFFICES ASSUME x \in R[tip], base \in R[x]
               PROVE  \A c \in R[x] \ R[base] :
                        base \in R[c] /\ \A d \in R[x] \ R[base] : d <= c => d \in R[c]
    OBVIOUS
  <2>1. CASE x \in R[base]
    <3>1. R[x] \subseteq R[base]
      BY <1>2, <2>1
    <3> QED
      BY <3>1
  <2>2. CASE x \notin R[base]
    <3>1. x \in B /\ x # base
      BY <1>1, <1>3, <2>2
    <3>2. PICK y \in 1 .. x - 1 : /\ y \in R[tip] /\ y \in 1 .. Len(cs)
                                  /\ R[x] = {x} \cup R[y] /\ x \notin R[y]
      BY <1>4, <3>1
    <3>3. base \in R[y] /\ y \in S
      BY <1>5, <3>1, <3>2
    <3>4. \A c \in R[y] \ R[base] :
            base \in R[c] /\ \A d \in R[y] \ R[base] : d <= c => d \in R[c]
      BY <3>2, <3>3
    <3>5. \A c \in R[y] : c \in 1 .. y
      BY <1>1, <3>2
    <3> SUFFICES ASSUME NEW c \in R[x] \ R[base]
                 PROVE  base \in R[c] /\ \A d \in R[x] \ R[base] : d <= c => d \in R[c]
      OBVIOUS
    <3>6. CASE c = x
      BY <3>6
    <3>7. CASE c # x
      <4>1. c \in R[y] /\ ~(x <= c)
        BY <3>2, <3>5, <3>7
      <4> QED
        BY <3>2, <3>4, <4>1
    <3> QED
      BY <3>6, <3>7
  <2> QED
    BY <2>1, <2>2
<1>6. 1 .. Len(cs) \subseteq S
  <2> HIDE DEF S
  <2> QED
    BY <1>5, OldestFirst
<1>7. \A c \in B : base \in R[c] /\ \A d \in B : d <= c => d \in R[c]
  <2>1. tip \in S /\ tip \in R[tip] /\ base \in R[tip]
    BY <1>1, <1>6 DEF R
  <2> QED
    BY <1>3, <2>1
<1>8. ASSUME NEW c \in B PROVE {d \in B : d <= c} = R[c] \ R[base]
  <2>1. R[c] \subseteq R[tip] /\ c \in 1 .. Len(cs)
    BY <1>1, <1>2, <1>3
  <2>2. \A d \in R[c] : d <= c
    BY <1>1, <2>1
  <2>3. \A d \in B : d \notin R[base]
    BY <1>3
  <2>4. \A d \in R[c] \ R[base] : d \in B
    BY <1>3, <2>1
  <2> QED
    BY <1>7, <2>2, <2>3, <2>4, Zenon
<1> QED
  BY <1>7, <1>8 DEF R, B

\* There are finitely many commits.
LEMMA UpToFinite ==
  ASSUME NEW n \in Nat, NEW S \in SUBSET (1 .. n)
  PROVE  IsFiniteSet(S) /\ Cardinality(S) \in Nat
<1>1. IsFiniteSet(1 .. n)
  BY FS_Interval
<1>2. IsFiniteSet(S)
  BY <1>1, FS_Subset
<1> QED
  BY <1>2, FS_CardinalityType

\* How many of a set are not younger than c.
Rank(S, c) == Cardinality({d \in S : d <= c})

\* A commit of the range is known by how many of the range are not younger.
LEMMA SameRank ==
  ASSUME NEW n \in Nat, NEW S \in SUBSET (1 .. n), NEW c \in S, NEW d \in S,
         Rank(S, c) = Rank(S, d)
  PROVE  c = d
<1> USE DEF Rank
<1> DEFINE below(k) == {e \in S : e <= k}
<1>0. \A e \in S : e \in Nat
  OBVIOUS
<1>1. IsFiniteSet(S)
  BY UpToFinite
<1>2. \A k \in S : IsFiniteSet(below(k))
  BY <1>1, FS_Subset
<1>3. c \in below(c) /\ d \in below(d) /\ c \in Nat /\ d \in Nat
  OBVIOUS
<1>4. CASE c <= d
  <2>1. below(c) \subseteq below(d)
    <3>1. \A e \in S : e <= c => e <= d
      BY <1>0, <1>4
    <3> QED
      BY <3>1, Zenon
  <2>2. below(c) = below(d)
    <3>1. Cardinality(below(c)) = Cardinality(below(d)) /\ IsFiniteSet(below(d))
      BY <1>2
    <3> HIDE DEF below
    <3> QED
      BY <2>1, <3>1, FS_Subset
  <2>3. d <= c
    BY <1>3, <2>2
  <2> QED
    BY <1>3, <1>4, <2>3
<1>5. CASE d <= c
  <2>1. below(d) \subseteq below(c)
    <3>1. \A e \in S : e <= d => e <= c
      BY <1>0, <1>5
    <3> QED
      BY <3>1, Zenon
  <2>2. below(c) = below(d)
    <3>1. Cardinality(below(c)) = Cardinality(below(d)) /\ IsFiniteSet(below(c))
      BY <1>2
    <3> HIDE DEF below
    <3> QED
      BY <2>1, <3>1, FS_Subset
  <2>3. c <= d
    BY <1>3, <2>2
  <2> QED
    BY <1>3, <1>5, <2>3
<1> QED
  BY <1>3, <1>4, <1>5

\* So the list in order of age is a chain from the base to the tip.
LEMMA InOrder ==
  ASSUME NEW cs, Older(cs), NEW base \in 1 .. Len(cs), NEW tip \in 1 .. Len(cs),
         base \in ReachIn(cs)[tip], Single(cs, base, tip),
         NEW L, NEW n, n = Cardinality(Between(cs, base, tip)),
         \A i \in 1 .. n :
           /\ L[i] \in Between(cs, base, tip)
           /\ Rank(Between(cs, base, tip), L[i]) = i
  PROVE  /\ n \in Nat /\ \A i \in 1 .. n : L[i] \in Between(cs, base, tip)
         /\ \A i, j \in 1 .. n : i < j => L[i] # L[j]
         /\ \A i \in 1 .. n : Parents(cs, L[i]) = {IF i = 1 THEN base ELSE L[i - 1]}
         /\ n # 0 => L[n] = tip
<1> DEFINE R == ReachIn(cs)
           B == Between(cs, base, tip)
           rank(c) == Rank(B, c)
<1> Len(cs) \in Nat
  BY DEF Older
<1>1. B \subseteq 1 .. Len(cs) /\ tip \in R[tip]
  BY ReachBounds DEF Between
<1>2. IsFiniteSet(B) /\ n \in Nat
  <2> HIDE DEF B
  <2> QED
    BY <1>1, UpToFinite DEF B
<1>3. \A i \in 1 .. n : L[i] \in B /\ rank(L[i]) = i
  OBVIOUS
<1>4. ASSUME NEW c \in B, NEW d \in B, rank(c) = rank(d) PROVE c = d
  <2> HIDE DEF B
  <2> QED
    BY <1>1, <1>4, SameRank
<1>5. \A i, j \in 1 .. n : i < j => L[i] # L[j]
  <2> SUFFICES ASSUME NEW i \in 1 .. n, NEW j \in 1 .. n, i < j PROVE L[i] # L[j]
    OBVIOUS
  <2> HIDE DEF rank, B
  <2>1. rank(L[i]) = i /\ rank(L[j]) = j
    BY <1>3
  <2>2. i # j
    BY <1>2
  <2> QED
    BY <2>1, <2>2
<1>6. \A c \in B : base \in R[c] /\ {d \in B : d <= c} = R[c] \ R[base]
  BY Linear
<1>7. ASSUME NEW i \in 1 .. n PROVE Parents(cs, L[i]) = {IF i = 1 THEN base ELSE L[i - 1]}
  <2> DEFINE c == L[i]
  <2>1. c \in B /\ rank(c) = i
    BY <1>3
  <2>2. \E d \in 1 .. c - 1 : /\ Parents(cs, c) = {d} /\ d \in R[tip] /\ d \in 1 .. Len(cs)
                               /\ R[c] = {c} \cup R[d] /\ c \notin R[d]
    <3> HIDE DEF c
    <3> QED
      BY <2>1, OneParent
  <2>9. PICK d \in 1 .. c - 1 : /\ Parents(cs, c) = {d} /\ d \in R[tip] /\ d \in 1 .. Len(cs)
                                /\ R[c] = {c} \cup R[d] /\ c \notin R[d]
    BY <2>2, Zenon
  <2>3. d \in R[d] /\ R[d] \subseteq 1 .. d /\ base \in R[base] /\ R[base] \subseteq 1 .. base
    BY <2>9, ReachBounds
  <2>4. base \in R[c] /\ c \notin R[base] /\ {e \in B : e <= c} = R[c] \ R[base]
    BY <1>6, <2>1 DEF Between
  <2>5. base \in R[d]
    BY <2>9, <2>3, <2>4
  <2>6. CASE d \in R[base]
    <3>1. d <= base /\ base <= d /\ d \in Nat /\ base \in Nat
      BY <2>3, <2>5, <2>6
    <3>2. d = base
      BY <3>1
    <3>3. {e \in B : e <= c} = {c}
      BY <2>9, <2>4, <3>2, Zenon
    <3>4. i = 1
      BY <2>1, <3>3, FS_Singleton DEF Rank
    <3> QED
      BY <2>9, <3>2, <3>4
  <2>7. CASE d \notin R[base]
    <3>1. d \in B
      BY <2>9, <2>7 DEF Between
    <3>2. {e \in B : e <= d} = R[d] \ R[base]
      BY <1>6, <3>1
    <3>3. {e \in B : e <= c} = {e \in B : e <= d} \cup {c} /\ c \notin {e \in B : e <= d}
      <4>1. R[c] \ R[base] = (R[d] \ R[base]) \cup {c}
        BY <2>9, <2>4, Zenon
      <4> HIDE DEF R, B
      <4> QED
        BY <2>9, <2>4, <3>2, <4>1
    <3>4. IsFiniteSet({e \in B : e <= d})
      BY <1>2, FS_Subset
    <3>5. rank(c) = rank(d) + 1 /\ rank(d) \in Nat
      <4> HIDE DEF B
      <4> QED
        BY <3>3, <3>4, FS_AddElement, FS_CardinalityType DEF Rank
    <3>6. rank(d) # 0
      <4>1. d \in {e \in B : e <= d}
        BY <2>9, <3>1
      <4> HIDE DEF B
      <4> QED
        BY <3>4, <4>1, FS_EmptySet DEF Rank
    <3> HIDE DEF rank, B, R, c
    <3>7. i # 1 /\ i - 1 \in 1 .. n /\ rank(d) = i - 1
      BY <1>2, <2>1, <3>5, <3>6
    <3>8. L[i - 1] \in B /\ rank(L[i - 1]) = i - 1
      BY <1>3, <3>7
    <3>9. d = L[i - 1]
      BY <1>4, <3>1, <3>7, <3>8
    <3> QED
      BY <2>9, <3>7, <3>9 DEF c
  <2> QED
    BY <2>6, <2>7
<1>8. ASSUME n # 0 PROVE L[n] = tip
  <2>1. n \in 1 .. n
    BY <1>2, <1>8
  <2>2. L[n] \in B
    BY <1>3, <2>1
  <2>3. tip \in B
    <3>1. tip \notin R[base]
      <4> SUFFICES ASSUME tip \in R[base] PROVE FALSE
        OBVIOUS
      <4>1. R[tip] \subseteq R[base]
        BY ReachTransitive
      <4> QED
        BY <2>2, <4>1 DEF Between
    <3> QED
      BY <1>1, <3>1 DEF Between
  <2>4. {d \in B : d <= tip} = B
    BY <1>6, <2>3 DEF Between
  <2>5. rank(tip) = n
    BY <2>4 DEF Rank
  <2> HIDE DEF rank, B
  <2> QED
    BY <1>3, <1>4, <2>1, <2>3, <2>5
<1> QED
  BY <1>2, <1>3, <1>5, <1>7, <1>8

\* Only the first commit has no parent.
Rooted == \A c \in Ids : c = 1 \/ commits[c].parents # <<>>

\* So every commit descends from it.
LEMMA RootReached ==
  ASSUME GraphTyped, Rooted, NEW c \in Ids
  PROVE  1 \in Reach[c]
<1> DEFINE R == ReachIn(commits)
           S == {i \in 1 .. Len(commits) : 1 \in R[i]}
<1>1. Older(commits) /\ Len(commits) \in Nat /\ Reach = R /\ Ids = 1 .. Len(commits)
  BY ReachIsReachIn DEF GraphTyped, Older, Ids
<1>2. \A i \in 1 .. Len(commits) : R[i] = {i} \cup UNION {R[d] : d \in Parents(commits, i)}
  BY <1>1, ReachUnfolds
<1> HIDE DEF R
<1>3. ASSUME NEW i \in 1 .. Len(commits), 1 .. i - 1 \subseteq S PROVE i \in S
  <2>1. CASE i = 1
    BY <1>2, <2>1
  <2>2. CASE i # 1
    <3>1. commits[i] \in CommitRecord /\ commits[i].parents # <<>>
      BY <1>1, <2>2, TreesTyped DEF Rooted
    <3>2. PICK d : d \in Parents(commits, i)
      <4>1. commits[i].parents \in Seq(Nat)
        BY <3>1 DEF CommitRecord
      <4>2. commits[i].parents[1] \in Parents(commits, i)
        BY <3>1, <4>1 DEF Parents, ToSet
      <4> QED
        BY <4>2
    <3>3. d \in 1 .. i - 1
      BY <1>1, <3>2 DEF Older
    <3>4. 1 \in R[d]
      BY <1>3, <3>3
    <3> QED
      BY <1>2, <3>2, <3>4
  <2> QED
    BY <2>1, <2>2
<1>4. 1 .. Len(commits) \subseteq S
  <2> HIDE DEF S
  <2> QED
    BY <1>1, <1>3, OldestFirst
<1> QED
  BY <1>1, <1>4

\* commits_to_replay lists all of a range without merges, in an order in which
\* each commit is the parent of the next.
LEMMA ReplayChain ==
  ASSUME GraphTyped, Rooted, NEW tip \in Ids, NEW base \in Ids, base \in Reach[tip],
         NEW L, L = ToReplay(tip, base), \A c \in ToSet(L) : ~IsMerge(c)
  PROVE  /\ \A i \in 1 .. Len(L) :
              L[i] \in Ids /\ ParentTree(L[i]) = TreeOf(IF i = 1 THEN base ELSE L[i - 1])
         /\ \A i, j \in 1 .. Len(L) : i < j => L[i] # L[j]
         /\ L # <<>> => L[Len(L)] = tip
<1> DEFINE B == Between(commits, base, tip)
           n == Cardinality(B)
           rank(c) == Rank(B, c)
<1>1. Older(commits) /\ Len(commits) \in Nat /\ Reach = ReachIn(commits) /\ Ids = 1 .. Len(commits)
  BY ReachIsReachIn DEF GraphTyped, Older, Ids
<1>2. B = Reach[tip] \ Reach[base]
  BY <1>1 DEF Between
<1>3. L = [i \in 1 .. n |-> CHOOSE c \in B : rank(c) = i]
  BY <1>2 DEF ToReplay, Rank
<1>4. B \subseteq 1 .. Len(commits)
  <2>1. Reach[tip] \subseteq Ids
    BY HistoryTyped
  <2> QED
    BY <1>1, <1>2, <2>1
<1>5. IsFiniteSet(B) /\ n \in Nat
  <2> HIDE DEF B
  <2> QED
    BY <1>1, <1>4, UpToFinite
<1> HIDE DEF B
<1>6. L \in Seq(B) /\ Len(L) = n
  <2>1. [i \in 1 .. n |-> CHOOSE c \in B : rank(c) = i] \in Seq(B)
    BY <1>1, <1>4, ToReplayTyped DEF Rank
  <2> HIDE DEF rank
  <2> QED
    BY <1>3, <1>5, <2>1
<1>7. \A c \in B : c \in ToSet(L)
  <2> SUFFICES ASSUME NEW c \in B PROVE c \in ToSet(L)
    OBVIOUS
  <2> DEFINE k == rank(c)
  <2>1. k \in 1 .. n
    <3> DEFINE S == {d \in B : d <= c}
    <3>1. S \subseteq B /\ c \in S
      BY <1>4
    <3>2. k = Cardinality(S)
      BY DEF Rank
    <3> HIDE DEF S, k
    <3>3. IsFiniteSet(S) /\ Cardinality(S) <= n /\ Cardinality(S) \in Nat
      BY <1>5, <3>1, FS_Subset, FS_CardinalityType
    <3>4. Cardinality(S) # 0
      BY <3>1, <3>3, FS_EmptySet
    <3> QED
      BY <1>5, <3>2, <3>3, <3>4
  <2>2. L[k] \in B /\ rank(L[k]) = k
    <3> HIDE DEF k, n
    <3>1. \E e \in B : rank(e) = k
      <4>1. Len(commits) \in Nat /\ B \in SUBSET (1 .. Len(commits)) /\ k \in 1 .. Cardinality(B)
        BY <1>1, <1>4, <2>1 DEF n
      <4> QED
        BY <4>1, Ranked DEF Rank
    <3> HIDE DEF rank
    <3> QED
      BY <1>3, <2>1, <3>1
  <2>3. L[k] = c
    <3> DEFINE d == L[k]
    <3>1. d \in B /\ rank(d) = rank(c)
      BY <2>2
    <3> HIDE DEF d, k
    <3>2. d = c
      <4>1. Len(commits) \in Nat /\ B \in SUBSET (1 .. Len(commits))
        BY <1>1, <1>4
      <4> QED
        BY <3>1, <4>1, SameRank
    <3> QED
      BY <3>2 DEF d
  <2> HIDE DEF k, n
  <2> QED
    BY <1>6, <2>1, <2>3 DEF ToSet
<1>8. \A c \in B : \E d : commits[c].parents = <<d>> /\ Parents(commits, c) = {d}
  <2> SUFFICES ASSUME NEW c \in B
               PROVE  \E d : commits[c].parents = <<d>> /\ Parents(commits, c) = {d}
    OBVIOUS
  <2>1. c # 1
    <3>1. 1 \in Reach[base]
      BY RootReached
    <3> QED
      BY <1>2, <3>1
  <2>2. c \in Ids /\ commits[c] \in CommitRecord
    BY <1>1, <1>4, TreesTyped
  <2>3. commits[c].parents # <<>> /\ ~(Len(commits[c].parents) > 1)
    BY <1>7, <2>1, <2>2 DEF Rooted, IsMerge
  <2>4. commits[c].parents \in Seq(Nat)
    BY <2>2 DEF CommitRecord
  <2>5. PICK s \in Seq(Nat) : s = commits[c].parents
    BY <2>4
  <2>6. Len(s) = 1 /\ s = <<s[1]>>
    <3> DEFINE m == Len(s)
    <3>1. m \in Nat /\ m # 0 /\ ~(m > 1)
      BY <2>3, <2>5, EmptySeq
    <3>2. m = 1
      <4> HIDE DEF m
      <4> QED
        BY <3>1
    <3> QED
      BY <3>2
  <2>7. Parents(commits, c) = {s[1]}
    BY <2>5, <2>6 DEF Parents, ToSet
  <2> QED
    BY <2>5, <2>6, <2>7
<1>9. Single(commits, base, tip)
  BY <1>8 DEF Single, B
<1>10. /\ \A i \in 1 .. n : L[i] \in B
       /\ \A i, j \in 1 .. n : i < j => L[i] # L[j]
       /\ \A i \in 1 .. n : Parents(commits, L[i]) = {IF i = 1 THEN base ELSE L[i - 1]}
       /\ n # 0 => L[n] = tip
  <2>1. tip \in 1 .. Len(commits) /\ base \in 1 .. Len(commits) /\ base \in ReachIn(commits)[tip]
    BY <1>1
  <2>2. \A i \in 1 .. n : L[i] \in B /\ Rank(B, L[i]) = i
    <3> SUFFICES ASSUME NEW i \in 1 .. n PROVE L[i] \in B /\ rank(L[i]) = i
      OBVIOUS
    <3>1. Len(commits) \in Nat /\ B \in SUBSET (1 .. Len(commits)) /\ i \in 1 .. Cardinality(B)
      BY <1>1, <1>4
    <3>2. \E c \in B : rank(c) = i
      BY <3>1, Ranked DEF Rank
    <3> HIDE DEF rank, n
    <3> QED
      BY <1>3, <3>2
  <2>3. n = Cardinality(Between(commits, base, tip))
    BY DEF B
  <2>4. \A i \in 1 .. n : /\ L[i] \in Between(commits, base, tip)
                         /\ Rank(Between(commits, base, tip), L[i]) = i
    BY <2>2 DEF B
  <2> HIDE DEF n
  <2>5. /\ \A i \in 1 .. n : L[i] \in Between(commits, base, tip)
        /\ \A i, j \in 1 .. n : i < j => L[i] # L[j]
        /\ \A i \in 1 .. n : Parents(commits, L[i]) = {IF i = 1 THEN base ELSE L[i - 1]}
        /\ n # 0 => L[n] = tip
    BY <1>1, <1>9, <2>1, <2>3, <2>4, InOrder
  <2> QED
    BY <2>5 DEF B
<1>11. ASSUME NEW i \in 1 .. n
       PROVE  L[i] \in Ids /\ ParentTree(L[i]) = TreeOf(IF i = 1 THEN base ELSE L[i - 1])
  <2>1. PICK c \in B : c = L[i]
    BY <1>10
  <2>2. PICK d : commits[c].parents = <<d>> /\ Parents(commits, c) = {d}
    BY <1>8
  <2>3. d = IF i = 1 THEN base ELSE L[i - 1]
    BY <1>10, <2>1, <2>2
  <2>4. ParentTree(c) = TreeOf(d)
    BY <2>2 DEF ParentTree
  <2> QED
    BY <1>1, <1>4, <2>1, <2>3, <2>4
<1> HIDE DEF n
<1>12. L # <<>> => n # 0
  BY <1>6
<1> QED
  BY <1>6, <1>10, <1>11, <1>12

-----------------------------------------------------------------------------
(* The plan of a rebase *)

\* The commits of the plan with its base before them, and what one merge of the
\* i-th with the new base would contain.
Place(i) == IF i = 0 THEN plan.base ELSE plan.todo[i]
Planned(i) == Merged(TreeOf(plan.base), TreeOf(plan.onto), TreeOf(Place(i)))
PlannedTrees == [i \in 0 .. Len(plan.todo) |-> Planned(i)]
Agree(paths, tree, other) == \A p \in paths : tree[p] = other[p]
HasUpTo(tree, i) == Agree(Decided, tree, PlannedTrees[i])

\* The plan is a chain from its base to its tip.
Chained ==
  plan.todo # <<>> =>
    /\ plan.tip \in Ids /\ plan.base \in Ids /\ plan.onto \in Ids
    /\ \A i \in 1 .. Len(plan.todo) : ParentTree(plan.todo[i]) = TreeOf(Place(i - 1))
    /\ \A i, j \in 1 .. Len(plan.todo) : i < j => plan.todo[i] # plan.todo[j]
    /\ plan.todo[Len(plan.todo)] = plan.tip

\* Where only one side changed a path since the base, a commit on top of what is
\* there applies without a conflict and adds up to the one merge.
LEMMA MergeOne ==
  ASSUME NEW base \in Tree, NEW onto \in Tree, NEW prev \in Tree, NEW next \in Tree,
         NEW head \in Tree, NEW p \in Paths,
         onto[p] = base[p] \/ (prev[p] = base[p] /\ next[p] = base[p]),
         head[p] = Merged(base, onto, prev)[p] \/ head[p] = Merged(base, onto, next)[p]
  PROVE  p \notin Conflicts(prev, head, next)
         /\ Merged(prev, head, next)[p] = Merged(base, onto, next)[p]
<1>1. ASSUME NEW x \in Tree, onto[p] = base[p] \/ x[p] = base[p]
      PROVE  Merged(base, onto, x)[p] = IF onto[p] = base[p] THEN x[p] ELSE onto[p]
  <2>1. p \notin Conflicts(base, onto, x)
    BY <1>1 DEF Conflicts
  <2>2. Merged(base, onto, x)[p] = IF x[p] = base[p] THEN onto[p] ELSE x[p]
    BY <2>1 DEF Merged
  <2> QED
    BY <1>1, <2>2
<1>2. /\ Merged(base, onto, prev)[p] = IF onto[p] = base[p] THEN prev[p] ELSE onto[p]
      /\ Merged(base, onto, next)[p] = IF onto[p] = base[p] THEN next[p] ELSE onto[p]
  BY <1>1
<1>3. p \notin Conflicts(prev, head, next)
  BY <1>2 DEF Conflicts
<1>4. Merged(prev, head, next)[p] = IF next[p] = prev[p] THEN head[p] ELSE next[p]
  BY <1>3 DEF Merged
<1> QED
  BY <1>2, <1>3, <1>4

\* The commits at the places of a plan, and their trees.
LEMMA PlacesTyped ==
  ASSUME Typed, Chained, plan.todo # <<>>
  PROVE  /\ Len(plan.todo) \in Nat /\ Len(plan.todo) # 0
         /\ plan.base \in Ids /\ plan.onto \in Ids /\ plan.todo \in Seq(Ids)
         /\ \A i \in 0 .. Len(plan.todo) :
              Place(i) \in Ids /\ TreeOf(Place(i)) \in Tree /\ Planned(i) \in Tree
<1>1. plan.todo \in Seq(Ids) /\ plan.base \in Ids /\ plan.onto \in Ids
  BY DEF Typed, PlanTyped, Chained
<1>2. \A i \in 0 .. Len(plan.todo) : Place(i) \in Ids
  BY <1>1 DEF Place
<1>3. \A c \in Ids : TreeOf(c) \in Tree
  BY TreesTyped DEF Typed
<1>4. \A i \in 0 .. Len(plan.todo) : TreeOf(Place(i)) \in Tree /\ Planned(i) \in Tree
  BY <1>1, <1>2, <1>3, MergedIsTree DEF Planned
<1> QED
  BY <1>1, <1>2, <1>4, EmptySeq

\* What decides a path: one side left it as it was in the base.
LEMMA OneSide ==
  ASSUME Typed, Chained, plan.todo # <<>>, NEW p \in Decided
  PROVE  /\ p \in Paths
         /\ \/ TreeOf(plan.onto)[p] = TreeOf(plan.base)[p]
            \/ \A i \in 0 .. Len(plan.todo) : TreeOf(Place(i))[p] = TreeOf(plan.base)[p]
<1> DEFINE n == Len(plan.todo)
           S == {i \in Nat : i <= n => TreeOf(Place(i))[p] = TreeOf(plan.base)[p]}
<1>1. p \in Paths
  BY DEF Decided
<1>2. n \in Nat
  BY PlacesTyped
<1>3. ASSUME TreeOf(plan.onto)[p] # TreeOf(plan.base)[p]
      PROVE  \A i \in 1 .. n : TreeOf(plan.todo[i])[p] = ParentTree(plan.todo[i])[p]
  <2> SUFFICES ASSUME NEW i \in 1 .. n, TreeOf(plan.todo[i])[p] # ParentTree(plan.todo[i])[p]
               PROVE  FALSE
    OBVIOUS
  <2>1. p \in Touches(plan.todo[i]) /\ plan.todo[i] \in ToSet(plan.todo)
    BY <1>1, <1>2 DEF Touches, ToSet
  <2>2. p \in UNION {Touches(c) : c \in ToSet(plan.todo)}
    BY <2>1
  <2>3. p \in {q \in Paths : TreeOf(plan.onto)[q] # TreeOf(plan.base)[q]}
    BY <1>1, <1>3
  <2> QED
    BY <2>2, <2>3 DEF Decided
<1>4. ASSUME TreeOf(plan.onto)[p] # TreeOf(plan.base)[p] PROVE Nat \subseteq S
  <2>1. 0 \in S
    BY DEF Place
  <2>2. ASSUME NEW i \in Nat, i \in S PROVE i + 1 \in S
    <3> SUFFICES ASSUME i + 1 <= n PROVE TreeOf(Place(i + 1))[p] = TreeOf(plan.base)[p]
      OBVIOUS
    <3>1. i + 1 \in 1 .. n /\ (i + 1) - 1 = i /\ i <= n
      BY <1>2
    <3>2. Place(i + 1) = plan.todo[i + 1]
      BY <3>1 DEF Place
    <3>3. ParentTree(plan.todo[i + 1]) = TreeOf(Place(i))
      BY <3>1 DEF Chained
    <3>4. TreeOf(Place(i + 1))[p] = TreeOf(Place(i))[p]
      BY <1>3, <1>4, <3>1, <3>2, <3>3
    <3> QED
      BY <2>2, <3>1, <3>4
  <2> HIDE DEF S
  <2> QED
    BY <2>1, <2>2, Induction
<1> QED
  BY <1>1, <1>2, <1>4

\* The next commit applies to what the branch has, at every path that is decided.
LEMMA NextApplies ==
  ASSUME Typed, Chained, plan.todo # <<>>, NEW i \in 0 .. Len(plan.todo) - 1,
         NEW head \in Tree, HasUpTo(head, i) \/ HasUpTo(head, i + 1)
  PROVE  LET c == plan.todo[i + 1] IN
           /\ Conflicts(ParentTree(c), head, TreeOf(c)) \cap Decided = {}
           /\ HasUpTo(Merged(ParentTree(c), head, TreeOf(c)), i + 1)
<1> DEFINE c == plan.todo[i + 1]
<1>1. /\ Len(plan.todo) \in Nat /\ i + 1 \in 1 .. Len(plan.todo) /\ (i + 1) - 1 = i
      /\ i \in 0 .. Len(plan.todo) /\ i + 1 \in 0 .. Len(plan.todo)
  BY PlacesTyped
<1>2. ParentTree(c) = TreeOf(Place(i)) /\ c = Place(i + 1)
  BY <1>1 DEF Chained, Place
<1>3. /\ TreeOf(plan.base) \in Tree /\ TreeOf(plan.onto) \in Tree
      /\ TreeOf(Place(i)) \in Tree /\ TreeOf(Place(i + 1)) \in Tree
  BY <1>1, PlacesTyped, TreesTyped DEF Typed
<1> HIDE DEF c
<1>4. ASSUME NEW p \in Decided
      PROVE  /\ p \notin Conflicts(ParentTree(c), head, TreeOf(c))
             /\ Merged(ParentTree(c), head, TreeOf(c))[p] = Planned(i + 1)[p]
  <2>1. /\ p \in Paths
        /\ \/ TreeOf(plan.onto)[p] = TreeOf(plan.base)[p]
           \/ /\ TreeOf(Place(i))[p] = TreeOf(plan.base)[p]
              /\ TreeOf(Place(i + 1))[p] = TreeOf(plan.base)[p]
    BY <1>1, OneSide
  <2>2. head[p] = Planned(i)[p] \/ head[p] = Planned(i + 1)[p]
    BY <1>1 DEF HasUpTo, Agree, PlannedTrees
  <2> QED
    BY <1>2, <1>3, <2>1, <2>2, MergeOne DEF Planned
<1>5. PlannedTrees[i + 1] = Planned(i + 1)
  BY <1>1 DEF PlannedTrees
<1> QED
  BY <1>4, <1>5 DEF HasUpTo, Agree, c

\* A commit that does not touch a path changes nothing of it.
LEMMA NextUntouched ==
  ASSUME Typed, Chained, plan.todo # <<>>, NEW i \in 0 .. Len(plan.todo) - 1, NEW p \in Paths,
         p \notin Touches(plan.todo[i + 1])
  PROVE  PlannedTrees[i + 1][p] = PlannedTrees[i][p]
<1> DEFINE c == plan.todo[i + 1]
<1>1. Len(plan.todo) \in Nat /\ i + 1 \in 1 .. Len(plan.todo) /\ (i + 1) - 1 = i
  BY PlacesTyped
<1>2. ParentTree(c) = TreeOf(Place(i)) /\ c = Place(i + 1)
  BY <1>1 DEF Chained, Place
<1>3. TreeOf(Place(i + 1))[p] = TreeOf(Place(i))[p]
  BY <1>2 DEF Touches
<1>4. Planned(i + 1)[p] = Planned(i)[p]
  BY <1>3 DEF Planned, Merged, InConflict, Conflicts
<1> QED
  BY <1>1, <1>4 DEF PlannedTrees

\* The new base is what the plan starts from, and the merge with the tip where it
\* ends.
LEMMA PlanEnds ==
  ASSUME Typed, Chained, plan.todo # <<>>
  PROVE  /\ HasUpTo(TreeOf(plan.onto), 0)
         /\ PlannedTrees[Len(plan.todo)] =
              Merged(TreeOf(plan.base), TreeOf(plan.onto), TreeOf(plan.tip))
<1>0. Len(plan.todo) \in Nat
  BY PlacesTyped
<1>1. Place(0) = plan.base /\ Place(Len(plan.todo)) = plan.tip
  BY PlacesTyped DEF Place, Chained
<1>2. \A p \in Paths : Planned(0)[p] = TreeOf(plan.onto)[p]
  BY <1>1 DEF Planned, Merged, Conflicts
<1> QED
  BY <1>0, <1>1, <1>2 DEF HasUpTo, Agree, Decided, Planned, PlannedTrees

\* What a plan says stays as it is when the history grows; dropping a commit
\* leaves fewer paths to decide.
LEMMA PlanStays ==
  ASSUME Typed, Typed', Extends, Chained, plan.todo # <<>>, UNCHANGED plan,
         skipped \subseteq skipped'
  PROVE  /\ PlannedTrees' = PlannedTrees /\ Decided' \subseteq Decided
         /\ skipped' = skipped => Decided' = Decided
         /\ \A p \in Decided' : \A c \in skipped' \cap Ids : p \notin Touches(c)
<1>1. \A c \in Ids : TreeOf(c)' = TreeOf(c) /\ ParentTree(c)' = ParentTree(c)
  BY HistoryKept DEF Typed
<1>2. \A i \in 0 .. Len(plan.todo) : Place(i) \in Ids /\ Place(i)' = Place(i)
  BY PlacesTyped DEF Place
<1>3. plan.base \in Ids /\ plan.onto \in Ids /\ plan.todo \in Seq(Ids) /\ skipped \subseteq Ids
  BY PlacesTyped DEF Typed, PlanTyped
<1>4. PICK q : q = plan
  OBVIOUS
<1>5. \A i \in 0 .. Len(plan.todo) : Planned(i)' = Planned(i)
  <2> SUFFICES ASSUME NEW i \in 0 .. Len(plan.todo) PROVE Planned(i)' = Planned(i)
    OBVIOUS
  <2>1. PICK x \in Ids : x = Place(i)
    BY <1>2
  <2>2. x = Place(i)'
    BY <1>2, <2>1
  <2>3. TreeOf(x)' = TreeOf(x) /\ TreeOf(q.base)' = TreeOf(q.base) /\ TreeOf(q.onto)' = TreeOf(q.onto)
    BY <1>1, <1>3, <1>4
  <2> QED
    BY <1>4, <2>1, <2>2, <2>3 DEF Planned, TreeOf
<1>6. PlannedTrees' = PlannedTrees
  BY <1>5 DEF PlannedTrees
<1>7. \A c \in Ids : Touches(c)' = Touches(c)
  BY <1>1 DEF Touches
<1>8. ToSet(plan.todo) \subseteq Ids
  BY <1>3 DEF ToSet
<1> DEFINE T == UNION {Touches(c) : c \in ToSet(plan.todo)}
           M == {p \in Paths : TreeOf(plan.onto)[p] # TreeOf(plan.base)[p]}
           O == {PathOf[c] : c \in Foreign \cup Edits}
           X == UNION {Touches(c) : c \in skipped}
<1>9. T' = T
  <2>1. {Touches(c)' : c \in ToSet(plan.todo)} = {Touches(c) : c \in ToSet(plan.todo)}
    BY <1>7, <1>8
  <2> QED
    BY <2>1
<1>10. M' = M
  <2>1. TreeOf(q.base)' = TreeOf(q.base) /\ TreeOf(q.onto)' = TreeOf(q.onto)
    BY <1>1, <1>3, <1>4
  <2>2. TreeOf(plan.base)' = TreeOf(plan.base) /\ TreeOf(plan.onto)' = TreeOf(plan.onto)
    BY <1>4, <2>1 DEF TreeOf
  <2> QED
    BY <2>2
<1>11. X \subseteq X'
  BY <1>3, <1>7
<1>12. skipped' = skipped => X' = X
  <2> SUFFICES ASSUME skipped' = skipped PROVE X' = X
    OBVIOUS
  <2>1. {Touches(c)' : c \in skipped'} = {Touches(c) : c \in skipped}
    BY <1>3, <1>7
  <2> QED
    BY <2>1
<1>14. \A p : p \in Decided <=> p \in Paths /\ ~(p \in T /\ p \in M) /\ p \notin X /\ p \notin O
  BY DEF Decided
<1>15. \A p : p \in Decided' <=> p \in Paths /\ ~(p \in T' /\ p \in M') /\ p \notin X' /\ p \notin O
  BY DEF Decided
<1>16. \A c \in skipped' : Touches(c)' \subseteq X'
  OBVIOUS
<1> HIDE DEF T, M, O, X
<1>17. skipped' = skipped => Decided' = Decided
  <2> SUFFICES ASSUME skipped' = skipped PROVE Decided' = Decided
    OBVIOUS
  <2>1. \A p : p \in Decided' <=> p \in Decided
    BY <1>9, <1>10, <1>12, <1>14, <1>15
  <2>2. Decided \subseteq Paths /\ Decided' \subseteq Paths
    BY <1>14, <1>15
  <2> QED
    BY <2>1, <2>2
<1>18. \A p \in Decided' : p \in Decided /\ p \notin X'
  BY <1>9, <1>10, <1>11, <1>14, <1>15
<1> QED
  BY <1>6, <1>7, <1>16, <1>17, <1>18

-----------------------------------------------------------------------------
(* The invariants *)

\* How many commits of the plan REBASE_TODO no longer lists.
Finished == Len(plan.todo) - Len(rebase.todo)

\* A rebase that writes its state and moves to the new base, one that replays,
\* and one that has nothing left to replay.
Replayers == {"rebase", "resolved", "skip"}
Setting ==
  /\ op.cmd = "rebase" /\ op.todo # <<>>
  /\ op.pc \in {"name", "origfile", "ontofile", "todofile", "base", "reset", "move"}
Replaying ==
  /\ op.cmd \in Replayers
  /\ op.pc \in {"restore", "replay", "checkout", "materialise", "unmerge", "seal", "record",
                "advance", "clearname"}
Ending ==
  \/ op.cmd = "rebased"
  \/ op.cmd \in Replayers /\ op.pc \in {"clearorig", "clearonto", "cleartodo"}
Underway ==
  /\ rebase.name /\ ~Setting /\ op.cmd # "failed"
  /\ ~(op.cmd = "abortrebase" /\ op.pc \in {"restore", "clearname"})

\* REBASE_HEAD_NAME keeps the other commands out, and a rebase the recovery
\* state of the others.
Others == {"merge", "ff", "pick", "revert", "continue", "commit", "abort"}
Exclusive ==
  /\ rebase.name \/ op.cmd \in Replayers \cup {"abortrebase"} => Stopped = {}
  /\ op.cmd \in Others => ~rebase.name
  /\ (Setting /\ op.pc # "name") \/ Replaying => rebase.name
  /\ op.cmd = "rebase" /\ op.pc \in {"base", "reset", "move"} /\ op.todo = <<>> => ~rebase.name
  /\ op.pc \in {"name", "origfile", "ontofile", "todofile"} => op.todo # <<>>

\* A rebase that starts has the plan in its hands and a clean index.
Settled ==
  /\ plan.todo = op.todo /\ plan.onto = op.to /\ op.tree = TreeOf(plan.onto) /\ stopped = 0
  /\ op.pc \in {"base", "reset", "move"} => rebase.todo = plan.todo
  /\ op.pc \in {"name", "origfile", "ontofile", "todofile", "base"} => idx.tree = TreeOf(op.at)
  /\ op.pc \in {"reset", "move"} => idx.tree = TreeOf(plan.onto)

\* REBASE_TODO is a rest of the plan.
Listed ==
  /\ plan.todo # <<>> /\ Len(rebase.todo) <= Len(plan.todo)
  /\ \A i \in 1 .. Len(rebase.todo) : rebase.todo[i] = plan.todo[Finished + i]

\* The branch has every commit before the rest, or the first of the rest as well
\* if the command ended before it struck that off; and the index of a commit
\* that has stopped has what the commit adds.
Resting ==
  /\ HasUpTo(HeadTree, Finished) \/ (rebase.todo # <<>> /\ HasUpTo(HeadTree, Finished + 1))
  /\ stopped \in ToSet(rebase.todo) =>
       /\ stopped = rebase.todo[1]
       /\ HasUpTo(idx.tree, Finished + 1) /\ idx.unmerged \cap Decided = {}

\* What a rebase that replays has read and written.
Working ==
  /\ op.todo = rebase.todo
  /\ op.pc = "clearname" => op.todo = <<>>
  /\ op.pc = "replay" /\ op.todo # <<>> =>
       /\ HasUpTo(HeadTree, Finished) /\ HasUpTo(idx.tree, Finished)
       /\ stopped \notin ToSet(op.todo)
  /\ op.cmd = "rebase" /\ op.pc \in {"checkout", "materialise", "unmerge", "seal", "record"} =>
       /\ stopped \notin ToSet(op.todo) /\ op.of = op.todo[1]
       /\ HasUpTo(op.tree, Finished + 1)
  /\ op.cmd = "rebase" /\ op.pc \in {"checkout", "materialise", "unmerge"} =>
       HasUpTo(TreeOf(op.at), Finished)
  /\ op.cmd = "rebase" /\ op.pc \in {"checkout", "materialise"} => HasUpTo(idx.tree, Finished)
  /\ op.cmd = "rebase" /\ op.pc \in {"unmerge", "seal", "record"} => HasUpTo(idx.tree, Finished + 1)
  /\ op.cmd = "resolved" /\ op.pc \in {"seal", "record"} =>
       stopped = op.todo[1] /\ HasUpTo(op.tree, Finished + 1)
  /\ op.cmd \in {"rebase", "resolved"} /\ op.pc = "advance" =>
       HasUpTo(HeadTree, Finished + 1) /\ HasUpTo(idx.tree, Finished + 1)
  /\ op.cmd = "skip" /\ op.pc = "advance" =>
       stopped = 0 /\ Agree(Decided, idx.tree, HeadTree)

\* The parts together, where the user continued only commits that had stopped
\* and no command died in the middle of a move.
Followed == ~blind /\ ~DiedStarting /\ ~DiedAborting
Replayed ==
  Followed =>
    /\ Setting => Settled
    /\ Underway => Listed /\ Resting
    /\ Replaying => Working
    /\ Ending => plan.todo # <<>> /\ HasUpTo(HeadTree, Len(plan.todo))

\* Every commit that REBASE_TODO no longer lists was skipped, is on the branch or
\* conflicts with it in paths that keep our side.
Struck == ToSet(plan.todo) \ ToSet(rebase.todo)
Accounted(c) == c \in skipped \/ Has(c) \/ KeepsOurs(c)
AllOf(cs) == IsAncestor(plan.onto, branch) /\ \A c \in cs : Accounted(c)
Counted ==
  Followed =>
    /\ Underway => AllOf(Struck)
    /\ Replaying /\ op.pc = "advance" /\ op.cmd # "skip" => Accounted(op.todo[1])
    /\ Replaying /\ op.pc \in {"seal", "record"} /\ op.cmd = "resolved" => op.of = op.todo[1]
    /\ Ending => AllOf(ToSet(plan.todo))

-----------------------------------------------------------------------------
(* The plan *)

\* The history starts with one commit without a parent, and every later one is
\* made on a parent.
LEMMA SetupRooted ==
  ASSUME Init PROVE Rooted
<1> DEFINE root == <<Commit(Empty, <<>>, "setup", 0)>>
           mine == Chain(1, Mine, 1)
           theirs == Chain(1, Theirs, 1 + Len(Mine))
           m == Len(Mine)
           t == Len(Theirs)
<1>1. /\ Mine \in Seq(SUBSET Changes) /\ Theirs \in Seq(SUBSET Changes)
      /\ m \in Nat /\ t \in Nat
  BY SetupAssumption
<1>2. root \in Seq(SetupRecord) /\ Len(root) = 1
  BY DEF Commit, SetupRecord, Empty
<1>3. /\ mine \in Seq(SetupRecord) /\ Len(mine) = m
      /\ \A i \in 1 .. m : mine[i].parents # <<>>
  <2>1. /\ mine \in Seq(SetupRecord) /\ Len(mine) = m
        /\ \A i \in 1 .. m : mine[i].parents = <<IF i = 1 THEN 1 ELSE 1 + i - 1>>
    BY <1>1, ChainTyped
  <2> HIDE DEF mine
  <2> QED
    BY <2>1
<1>4. /\ theirs \in Seq(SetupRecord) /\ Len(theirs) = t
      /\ \A i \in 1 .. t : theirs[i].parents # <<>>
  <2>1. /\ theirs \in Seq(SetupRecord) /\ Len(theirs) = t
        /\ \A i \in 1 .. t : theirs[i].parents = <<IF i = 1 THEN 1 ELSE (1 + m) + i - 1>>
    BY <1>1, ChainTyped
  <2> HIDE DEF theirs, t, m
  <2>2. ASSUME NEW i \in 1 .. t PROVE theirs[i].parents # <<>>
    <3>1. PICK x : theirs[i].parents = <<x>>
      BY <2>1, Zenon
    <3> QED
      BY <3>1
  <2> QED
    BY <2>1, <2>2, Zenon
<1>5. Setup = (root \o mine) \o theirs
  BY DEF Setup
<1> HIDE DEF root, mine, theirs, m, t
<1> DEFINE both == root \o mine
<1>6. /\ both \in Seq(SetupRecord) /\ Len(both) = 1 + m
      /\ \A i \in 1 .. 1 + m : both[i] = IF i <= 1 THEN root[i] ELSE mine[i - 1]
  <2>1. /\ both \in Seq(SetupRecord) /\ Len(both) = Len(root) + Len(mine)
        /\ \A i \in 1 .. Len(root) + Len(mine) :
             both[i] = IF i <= Len(root) THEN root[i] ELSE mine[i - Len(root)]
    BY <1>2, <1>3, ConcatProperties, Zenon
  <2> QED
    BY <1>2, <1>3, <2>1, Zenon
<1>0. Setup = both \o theirs
  BY <1>5
<1> HIDE DEF both
<1>7. /\ Len(Setup) = (1 + m) + t
      /\ \A i \in 1 .. (1 + m) + t :
           Setup[i] = IF i <= 1 + m THEN both[i] ELSE theirs[i - (1 + m)]
  <2>1. /\ Len(Setup) = Len(both) + Len(theirs)
        /\ \A i \in 1 .. Len(both) + Len(theirs) :
             Setup[i] = IF i <= Len(both) THEN both[i] ELSE theirs[i - Len(both)]
    BY <1>0, <1>4, <1>6, ConcatProperties, Zenon
  <2> QED
    BY <1>4, <1>6, <2>1, Zenon
<1>8. ASSUME NEW c \in 1 .. Len(Setup), c # 1 PROVE Setup[c].parents # <<>>
  <2>1. CASE c <= 1 + m
    <3>1. c \in 1 .. 1 + m /\ ~(c <= 1) /\ c - 1 \in 1 .. m /\ c \in 1 .. (1 + m) + t
      BY <1>1, <1>8, <2>1
    <3> QED
      BY <1>3, <1>6, <1>7, <2>1, <3>1
  <2>2. CASE ~(c <= 1 + m)
    <3>1. c - (1 + m) \in 1 .. t /\ c \in 1 .. (1 + m) + t
      BY <1>1, <1>7, <2>2
    <3> QED
      BY <1>4, <1>7, <2>2, <3>1
  <2> QED
    BY <2>1, <2>2
<1> QED
  BY <1>8 DEF Init, Rooted, Ids

\* Every commit a command or git makes has a parent (Made).
LEMMA RootedKept ==
  ASSUME Typed, Rooted, [Next]_vars
  PROVE  Rooted'
<1>1. /\ Typed' /\ Extends
      /\ UNCHANGED commits \/ \E tree, first, how, of : Made(tree, first, how, of)
  BY CommitSteps
<1>2. CASE UNCHANGED commits
  BY <1>2 DEF Rooted, Ids
<1>3. CASE \E tree, first, how, of : Made(tree, first, how, of)
  BY <1>1, <1>3 DEF Rooted, Made, Extends
<1> QED
  BY <1>1, <1>2, <1>3

\* No step changes a plan that a chain makes, but for the start of a rebase.
LEMMA ChainedStays ==
  ASSUME Typed, Typed', Extends, Chained, UNCHANGED plan
  PROVE  Chained'
<1> SUFFICES ASSUME plan.todo # <<>> PROVE Chained'
  BY DEF Chained
<1>1. \A c \in Ids : c \in Ids' /\ TreeOf(c)' = TreeOf(c) /\ ParentTree(c)' = ParentTree(c)
  BY HistoryKept DEF Typed
<1>2. PICK q : q = plan
  OBVIOUS
<1>3. /\ q.tip \in Ids /\ q.base \in Ids /\ q.onto \in Ids
      /\ \A i, j \in 1 .. Len(q.todo) : i < j => q.todo[i] # q.todo[j]
      /\ q.todo[Len(q.todo)] = q.tip
  BY <1>2 DEF Chained
<1>4. ASSUME NEW i \in 1 .. Len(q.todo)
      PROVE  (ParentTree(plan.todo[i]) = TreeOf(Place(i - 1)))'
  <2>1. PICK c \in Ids, d \in Ids : c = q.todo[i] /\ d = IF i - 1 = 0 THEN q.base ELSE q.todo[i - 1]
    <3>1. q.todo \in Seq(Ids) /\ q.base \in Ids
      BY <1>2 DEF Typed, PlanTyped, Chained
    <3>2. Len(q.todo) \in Nat
      BY <3>1
    <3>3. q.todo[i] \in Ids
      BY <3>1, <3>2
    <3>4. i - 1 = 0 \/ i - 1 \in 1 .. Len(q.todo)
      BY <3>2
    <3>5. (IF i - 1 = 0 THEN q.base ELSE q.todo[i - 1]) \in Ids
      BY <3>1, <3>2, <3>4
    <3> QED
      BY <3>3, <3>5
  <2>2. ParentTree(c) = TreeOf(d)
    BY <1>2, <2>1 DEF Chained, Place
  <2>3. ParentTree(c)' = TreeOf(d)'
    BY <1>1, <2>2
  <2> QED
    BY <1>2, <2>1, <2>3 DEF Place, ParentTree, TreeOf
<1> QED
  BY <1>1, <1>2, <1>3, <1>4 DEF Chained

-----------------------------------------------------------------------------
(* Starting *)

\* What a rebase holds when it starts to write its state.
Planning ==
  /\ op'.cmd = "rebase" /\ op'.pc = "name" /\ ~InProgress /\ idx.tree = HeadTree
  /\ op'.todo # <<>> /\ plan'.todo = op'.todo /\ plan'.onto = op'.to
  /\ op'.to \in Ids /\ op'.tree = TreeOf(op'.to) /\ stopped' = 0 /\ Chained'

\* The commands that may start, and what they have read of the rebase state.
Opening ==
  \/ Planning
  \/ /\ op'.cmd \in {"merge", "ff", "pick", "revert", "commit"} /\ ~InProgress
     /\ UNCHANGED asked
  \/ op'.cmd = "continue" /\ Stopped # {} /\ UNCHANGED asked
  \/ /\ op'.cmd = "rebase" /\ op'.pc = "base" /\ op'.todo = <<>> /\ ~InProgress
     /\ UNCHANGED asked
  \/ /\ op'.cmd \in {"rebase", "skip"} /\ op'.pc = "replay" /\ op'.todo = <<>>
     /\ rebase.name /\ op'.todo = rebase.todo /\ UNCHANGED asked
  \/ /\ op'.cmd = "skip" /\ op'.pc = "restore" /\ op'.todo # <<>>
     /\ rebase.name /\ op'.todo = rebase.todo /\ UNCHANGED asked
  \/ /\ op'.cmd = "resolved" /\ op'.pc = "seal" /\ op'.todo # <<>> /\ op'.tree = idx.tree
     /\ rebase.name /\ op'.todo = rebase.todo /\ op'.of = op'.todo[1]
     /\ ~blind' => ~blind /\ stopped = rebase.todo[1]
     /\ UNCHANGED <<plan, skipped, stopped>>

\* The plan of a rebase is a chain from the merge base to the tip.
LEMMA PlanIsChain ==
  ASSUME Typed, Rooted, UNCHANGED commits, NEW b \in Ids, NEW onto \in Ids, NEW L,
         b \in Reach[branch], L = ToReplay(branch, b), \A c \in ToSet(L) : ~IsMerge(c),
         plan' = [tip |-> branch, base |-> b, onto |-> onto, todo |-> L]
  PROVE  Chained'
<1>1. GraphTyped /\ branch \in Ids
  BY DEF Typed, StateTyped
<1>2. /\ \A i \in 1 .. Len(L) :
           L[i] \in Ids /\ ParentTree(L[i]) = TreeOf(IF i = 1 THEN b ELSE L[i - 1])
      /\ \A i, j \in 1 .. Len(L) : i < j => L[i] # L[j]
      /\ L # <<>> => L[Len(L)] = branch
  BY <1>1, ReplayChain
<1>3. L \in Seq(Ids)
  BY <1>1, ListTyped
<1>4. Ids' = Ids
  BY DEF Ids
<1>5. PICK t : t = branch
  OBVIOUS
<1>6. ASSUME NEW i \in 1 .. Len(L) PROVE (ParentTree(plan.todo[i]) = TreeOf(Place(i - 1)))'
  <2>1. (i = 1) = (i - 1 = 0)
    BY <1>3
  <2>2. ParentTree(L[i]) = TreeOf(IF i - 1 = 0 THEN b ELSE L[i - 1])
    BY <1>2, <2>1
  <2> QED
    BY <2>2 DEF Place, ParentTree, TreeOf
<1> QED
  BY <1>1, <1>2, <1>4, <1>6 DEF Chained

\* What a command that starts has in its hands, whatever it is.
LEMMA StartsRebase ==
  ASSUME Typed, Rooted, NEW upstream \in Upstreams, NEW onto \in Upstreams, Rebase(upstream, onto)
  PROVE  Begun /\ Opening
<1> DEFINE first == New("rebase")
           tree == TreeOf(onto)
           list(b) == ToReplay(branch, b)
           o(b) == [first EXCEPT !.to = onto, !.tree = tree, !.todo = list(b)]
<1>1. PICK b \in MergeBases(branch, upstream) :
        /\ ~InProgress /\ Clean(HeadTree)
        /\ \A c \in ToSet(list(b)) : ~IsMerge(c)
        /\ IF list(b) = <<>> THEN Begin("base", o(b)) /\ UNCHANGED asked
           ELSE /\ Begin("name", o(b))
                /\ plan' = [tip |-> branch, base |-> b, onto |-> onto, todo |-> list(b)]
                /\ stopped' = 0
  BY Zenon DEF Rebase
<1>2. GraphTyped /\ branch \in Ids /\ upstream \in Ids /\ onto \in Ids
  BY DEF Typed, StateTyped, GraphTyped
<1>3. b \in Ids /\ b \in Reach[branch]
  BY <1>1, <1>2, HistoryTyped DEF MergeBases
<1>4. list(b) \in Seq(Ids) /\ tree \in Tree /\ onto \in MaybeIds
  BY <1>2, <1>3, ListTyped, TreesTyped DEF MaybeIds
<1>5. first \in OpRecord /\ first.cmd = "rebase" /\ first.at = branch
  BY NewTyped DEF Names
<1>6. PICK L : L = list(b)
  OBVIOUS
<1>7. PICK q : q = o(b)
  OBVIOUS
<1>8. /\ IF L = <<>> THEN Begin("base", q) /\ UNCHANGED asked
         ELSE /\ Begin("name", q)
              /\ plan' = [tip |-> branch, base |-> b, onto |-> onto, todo |-> L]
              /\ stopped' = 0
      /\ \A c \in ToSet(L) : ~IsMerge(c)
  BY <1>1, <1>6, <1>7
<1>9. L \in Seq(Ids) /\ L = ToReplay(branch, b)
  BY <1>4, <1>6
<1> HIDE DEF first, list
<1>10. q = [first EXCEPT !.to = onto, !.tree = tree, !.todo = L]
  BY <1>6, <1>7
<1>11. /\ q \in OpRecord /\ q.cmd = "rebase" /\ q.at = branch /\ q.to = onto /\ q.tree = tree
       /\ q.todo = L
  BY <1>4, <1>5, <1>9, <1>10 DEF OpRecord
<1>12. idx.tree = HeadTree
  BY <1>1 DEF Clean
<1>13. CASE L = <<>>
  <2>1. Begin("base", q)
    BY <1>8, <1>13
  <2>2. Begun /\ op'.pc = "base" /\ op'.cmd = "rebase" /\ op'.todo = <<>>
    BY <1>11, <1>13, <2>1, BeginFields, BeginAt DEF Points
  <2> QED
    BY <1>1, <1>8, <1>13, <2>2 DEF Opening
<1>14. CASE L # <<>>
  <2>1. Begin("name", q)
    BY <1>8, <1>14
  <2>2. /\ Begun /\ op'.pc = "name" /\ op'.cmd = "rebase" /\ op'.todo = L /\ op'.to = onto
        /\ op'.tree = tree
    BY <1>11, <2>1, BeginFields, BeginAt DEF Points
  <2>3. plan' = [tip |-> branch, base |-> b, onto |-> onto, todo |-> L] /\ stopped' = 0
    BY <1>8, <1>14
  <2>4. Chained'
    BY <1>2, <1>3, <1>8, <1>9, <2>2, <2>3, PlanIsChain DEF Begun
  <2>5. Planning
    BY <1>1, <1>2, <1>12, <1>14, <2>2, <2>3, <2>4 DEF Planning
  <2> QED
    BY <2>2, <2>5 DEF Opening
<1> QED
  BY <1>13, <1>14

\* Every other command leaves the plan as it is, and one that starts to merge, pick
\* or revert finds no rebase (refuse_if_in_progress).
LEMMA StartsOther ==
  ASSUME Typed
  PROVE  /\ \A c \in Upstreams, noFf \in BOOLEAN : Merge(c, noFf) => Begun /\ Opening
         /\ \A c \in Upstreams : CherryPick(c) => Begun /\ Opening
         /\ \A c \in Reach[branch] : Revert(c) => Begun /\ Opening
         /\ \A h \in DOMAIN heads : Continue(h) => Begun /\ Opening
         /\ PlainCommit => Begun /\ Opening
<1> branch \in Ids /\ GraphTyped /\ idx.tree \in Tree /\ rebase.todo \in Seq(Ids)
  BY DEF Typed, StateTyped
<1> Upstreams \subseteq Ids /\ Reach[branch] \subseteq Ids
  BY HistoryTyped DEF GraphTyped
<1>1. ASSUME NEW c \in Upstreams, NEW noFf \in BOOLEAN, Merge(c, noFf) PROVE Begun /\ Opening
  <2>0. ~InProgress /\ UNCHANGED asked /\ UNCHANGED plan
    BY <1>1 DEF Merge, asked
  <2>1. TreeOf(c) \in Tree /\ c \in MaybeIds
    BY TreesTyped DEF MaybeIds
  <2>2. CASE IsAncestor(branch, c) /\ ~noFf
    <3> DEFINE first == New("merge")
               tree == TreeOf(c)
               q == [[first EXCEPT !.of = c] EXCEPT !.cmd = "ff", !.tree = tree]
    <3>1. Begin("checkout", q)
      BY <1>1, <2>2 DEF Merge
    <3>2. first \in OpRecord /\ first.at = branch /\ tree \in Tree
      BY <2>1, NewTyped DEF Names
    <3> HIDE DEF first, tree
    <3>3. q \in OpRecord /\ q.cmd = "ff" /\ q.at = branch
      BY <2>1, <3>2 DEF OpRecord, Names
    <3> HIDE DEF q
    <3>4. Begun /\ op'.cmd = "ff"
      BY <3>1, <3>3, BeginFields DEF Points
    <3> QED
      BY <2>0, <3>4 DEF Opening
  <2>3. CASE ~(IsAncestor(branch, c) /\ ~noFf)
    <3>1. PICK b \in MergeBases(branch, c) :
            Apply([New("merge") EXCEPT !.of = c], TreeOf(b), TreeOf(c))
      BY <1>1, <2>3 DEF Merge
    <3>2. TreeOf(b) \in Tree
      BY <3>1, HistoryTyped, TreesTyped
    <3>3. Begun /\ op'.cmd = "merge"
      BY <2>0, <2>1, <3>1, <3>2, ApplyFields
    <3> QED
      BY <2>0, <3>3 DEF Opening
  <2> QED
    BY <2>2, <2>3
<1>2. ASSUME NEW c \in Upstreams, CherryPick(c) PROVE Begun /\ Opening
  <2>1. TreeOf(c) \in Tree /\ ParentTree(c) \in Tree
    BY TreesTyped
  <2>2. /\ Apply([New("pick") EXCEPT !.of = c], ParentTree(c), TreeOf(c))
        /\ ~InProgress /\ UNCHANGED asked /\ UNCHANGED plan
    BY <1>2 DEF CherryPick, asked
  <2>3. Begun /\ op'.cmd = "pick"
    BY <2>1, <2>2, ApplyFields
  <2> QED
    BY <2>2, <2>3 DEF Opening
<1>3. ASSUME NEW c \in Reach[branch], Revert(c) PROVE Begun /\ Opening
  <2>1. TreeOf(c) \in Tree /\ ParentTree(c) \in Tree
    BY TreesTyped
  <2>2. /\ Apply([New("revert") EXCEPT !.of = c], TreeOf(c), ParentTree(c))
        /\ ~InProgress /\ UNCHANGED asked /\ UNCHANGED plan
    BY <1>3 DEF Revert, asked
  <2>3. Begun /\ op'.cmd = "revert"
    BY <2>1, <2>2, ApplyFields
  <2> QED
    BY <2>2, <2>3 DEF Opening
<1>4. ASSUME NEW h \in DOMAIN heads, Continue(h) PROVE Begun /\ Opening
  <2> DEFINE first == New(h)
             c == heads[h]
             o == [first EXCEPT !.cmd = "continue", !.of = c, !.tree = idx.tree]
  <2>1. Begin("seal", o) /\ UNCHANGED asked /\ Stopped # {}
    BY <1>4 DEF Continue
  <2>2. h \in {"merge", "pick", "revert"} /\ c \in MaybeIds
    BY DEF Typed, StateTyped
  <2>3. first \in OpRecord /\ first.at = branch
    BY <2>2, NewTyped DEF Names
  <2> HIDE DEF first, c
  <2>4. o \in OpRecord /\ o.cmd = "continue" /\ o.at = branch
    BY <2>2, <2>3 DEF OpRecord, Names
  <2> HIDE DEF o
  <2>5. Begun /\ op'.cmd = "continue"
    BY <2>1, <2>4, BeginFields DEF Points
  <2> QED
    BY <2>1, <2>5 DEF Opening
<1>5. ASSUME PlainCommit PROVE Begun /\ Opening
  <2> DEFINE first == New("commit")
             o == [first EXCEPT !.tree = idx.tree]
  <2>1. Begin("seal", o) /\ UNCHANGED asked /\ ~InProgress
    BY <1>5 DEF PlainCommit
  <2>2. first \in OpRecord /\ first.at = branch /\ first.cmd = "commit"
    BY NewTyped DEF Names
  <2> HIDE DEF first
  <2>3. o \in OpRecord /\ o.cmd = "commit" /\ o.at = branch
    BY <2>2 DEF OpRecord
  <2> HIDE DEF o
  <2>4. Begun /\ op'.cmd = "commit"
    BY <2>1, <2>3, BeginFields DEF Points
  <2> QED
    BY <2>1, <2>4 DEF Opening
<1> QED
  BY <1>1, <1>2, <1>3, <1>4, <1>5

\* So does a command that goes on or aborts; --continue seals the index it finds for
\* the commit it takes to have stopped.
LEMMA StartsFollowUp ==
  ASSUME Typed, ContinueRebase \/ SkipRebase
  PROVE  Begun /\ Opening
<1> idx.tree \in Tree /\ rebase.todo \in Seq(Ids)
  BY DEF Typed, StateTyped
<1>0. rebase.name
  BY DEF ContinueRebase, SkipRebase, Readable
<1>1. PICK L \in Seq(Ids) : L = rebase.todo
  OBVIOUS
<1>2. CASE ContinueRebase
  <2> DEFINE first == New("rebase")
             o == [first EXCEPT !.todo = rebase.todo]
             q == [o EXCEPT !.cmd = "resolved", !.of = rebase.todo[1], !.tree = idx.tree]
  <2>1. first \in OpRecord /\ first.cmd = "rebase" /\ first.at = branch
    BY NewTyped DEF Names
  <2>2. CASE L = <<>>
    <3>1. Begin("replay", o) /\ UNCHANGED asked
      BY <1>1, <1>2, <2>2 DEF ContinueRebase
    <3> HIDE DEF first
    <3>2. o \in OpRecord /\ o.cmd = "rebase" /\ o.at = branch /\ o.todo = L
      BY <1>1, <2>1 DEF OpRecord
    <3> HIDE DEF o
    <3>3. Begun /\ op'.pc = "replay" /\ op'.cmd = "rebase" /\ op'.todo = L
      BY <3>1, <3>2, BeginFields, BeginAt DEF Points
    <3> QED
      BY <1>0, <1>1, <2>2, <3>1, <3>3 DEF Opening
  <2>3. CASE L # <<>>
    <3>1. /\ Begin("seal", q) /\ UNCHANGED <<plan, skipped, stopped>>
          /\ blind' = (blind \/ stopped # rebase.todo[1])
      BY <1>1, <1>2, <2>3 DEF ContinueRebase
    <3>2. rebase.todo[1] \in MaybeIds
      BY <1>1, <2>3 DEF MaybeIds
    <3> HIDE DEF first
    <3>3. o \in OpRecord /\ o.at = branch /\ o.todo = L
      BY <1>1, <2>1 DEF OpRecord
    <3> HIDE DEF o
    <3>4. /\ q \in OpRecord /\ q.cmd = "resolved" /\ q.at = branch /\ q.tree = idx.tree /\ q.todo = L
          /\ q.of = L[1]
      BY <1>1, <3>2, <3>3 DEF OpRecord, Names
    <3> HIDE DEF q
    <3>5. /\ Begun /\ op'.pc = "seal" /\ op'.cmd = "resolved" /\ op'.tree = idx.tree
          /\ op'.todo = L /\ op'.of = L[1]
      BY <3>1, <3>4, BeginFields, BeginAt DEF Points
    <3>6. ~blind' => ~blind /\ stopped = rebase.todo[1]
      BY <3>1, Zenon
    <3> QED
      BY <1>0, <1>1, <2>3, <3>1, <3>5, <3>6 DEF Opening
  <2> QED
    BY <2>2, <2>3
<1>3. CASE SkipRebase
  <2> DEFINE first == New("skip")
             o == [first EXCEPT !.todo = rebase.todo]
             pc == IF rebase.todo = <<>> THEN "replay" ELSE "restore"
  <2>1. Begin(pc, o) /\ UNCHANGED asked
    BY <1>3 DEF SkipRebase
  <2>2. first \in OpRecord /\ first.cmd = "skip" /\ first.at = branch
    BY NewTyped DEF Names
  <2> HIDE DEF first
  <2>3. o \in OpRecord /\ o.cmd = "skip" /\ o.at = branch /\ o.todo = L
    BY <1>1, <2>2 DEF OpRecord
  <2> HIDE DEF o
  <2>4. Begun /\ op'.pc = pc /\ op'.cmd = "skip" /\ op'.todo = L
    BY <2>1, <2>3, BeginFields, BeginAt DEF Points
  <2> QED
    BY <1>0, <1>1, <2>1, <2>4 DEF Opening
<1> QED
  BY <1>2, <1>3

\* Whatever starts.
LEMMA StartsAre ==
  ASSUME Typed, Rooted, Start
  PROVE  Begun /\ Opening
BY StartsRebase, StartsOther, StartsFollowUp DEF Start

\* A step leaves the plan or starts a rebase, which makes one (PlanIsChain).
LEMMA ChainedKept ==
  ASSUME Typed, Rooted, Chained, [Next]_vars
  PROVE  Chained'
<1>1. Typed' /\ Extends
  BY CommitSteps
<1>2. UNCHANGED plan \/ Start
  BY RebaseSteps
<1>3. ASSUME UNCHANGED plan PROVE Chained'
  BY <1>1, <1>3, ChainedStays
<1>4. CASE Start
  <2>1. Opening
    BY <1>4, StartsAre
  <2> QED
    BY <1>3, <2>1 DEF Opening, Planning, asked
<1> QED
  BY <1>2, <1>3, <1>4

-----------------------------------------------------------------------------
(* The other commands stay out *)

\* A command keeps its list until it strikes a commit off, and only a rebase
\* with nothing left reports that it is complete.
LEMMA ListHeld ==
  ASSUME Typed, Step \/ Kill, ~Advance
  PROVE  op' = Idle \/ (op' = Rebased /\ ClearRebase /\ op.pc = "cleartodo" /\ op.cmd \in Replayers)
           \/ op'.todo = op.todo
<1> op \in OpRecord /\ Placed
  BY DEF Typed, OpTyped
<1> USE DEF OpRecord
<1>1. ASSUME Checkout \/ CheckoutRefused \/ Unmerge \/ Restore
      PROVE  op' = Idle \/ op'.todo = op.todo
  BY <1>1 DEF Checkout, CheckoutRefused, Withdraw, Unmerge, Restore, Goto, Return
<1>2. ASSUME Finish \/ SetOrigHead \/ Stop \/ Seal \/ Record \/ Reset \/ Clear \/ Kill
      PROVE  op' = Idle \/ op'.todo = op.todo
  <2>1. Finish \/ Stop \/ Clear \/ Kill => op' = Idle
    BY DEF Finish, Stop, Clear, Kill, Return
  <2>2. SetOrigHead \/ Seal \/ Reset => op'.todo = op.todo
    BY DEF SetOrigHead, Seal, Reset, Goto
  <2>3. Record => op' = Idle \/ op'.todo = op.todo
    BY DEF Record, Goto, Return
  <2> QED
    BY <1>2, <2>1, <2>2, <2>3
<1>3. ASSUME Move PROVE op' = Idle \/ op'.todo = op.todo
  BY <1>3 DEF Move, Withdraw, Goto, Return
<1>4. ASSUME StartRebase \/ Replay PROVE op'.todo = op.todo
  <2>1. StartRebase => op'.todo = op.todo
    BY DEF StartRebase, Write, Goto
  <2>2. Replay => op'.todo = op.todo
    BY DEF Replay, Goto
  <2> QED
    BY <1>4, <2>1, <2>2
<1>5. ASSUME ClearRebase
      PROVE  op' = Idle \/ (op' = Rebased /\ op.pc = "cleartodo" /\ op.cmd \in Replayers)
               \/ op'.todo = op.todo
  BY <1>5 DEF ClearRebase, Write, Goto, Return, Placed, Replayers
<1> QED
  BY <1>1, <1>2, <1>3, <1>4, <1>5 DEF Step

\* The two values the command has when none runs.
LEMMA IdleFields ==
  /\ Idle.pc = "idle" /\ Idle.cmd = "none" /\ Idle.todo = <<>>
  /\ Rebased.pc = "idle" /\ Rebased.cmd = "rebased" /\ Rebased.todo = <<>>
BY DEF Idle, Rebased

\* A move of the branch ends the command or puts it where the next step is.
LEMMA MoveSteps ==
  ASSUME Typed, Move
  PROVE  /\ op.pc = "move"
         /\ \/ branch = op.at /\ branch' = op.to
                 /\ \/ op.cmd = "abortrebase" /\ Kept /\ Went("restore") /\ op'.todo = op.todo
                    \/ op.cmd = "rebase" /\ op.todo = <<>> /\ op' = Idle
                    \/ op.cmd = "rebase" /\ op.todo # <<>> /\ Kept /\ Went("replay")
                         /\ op'.todo = op.todo
            \/ branch' = branch
                 /\ \/ op' = Idle /\ (op.cmd = "abortrebase" \/ op.todo = <<>>)
                    \/ /\ op.cmd = "rebase" /\ op.todo # <<>>
                       /\ op'.cmd = "failed" /\ op'.pc = "clearname"
<1> op \in OpRecord /\ Placed
  BY DEF Typed, OpTyped
<1> USE DEF OpRecord
<1>1. op.pc = "move" /\ op.cmd \in {"rebase", "abortrebase"}
  BY DEF Move, Placed
<1>2. CASE branch = op.at
  <2>1. /\ branch' = op.to
        /\ IF op.cmd = "abortrebase" THEN Goto("restore", op)
           ELSE IF op.todo = <<>> THEN Return ELSE Goto("replay", op)
    BY <1>2 DEF Move
  <2>2. ASSUME NEW pc \in {"restore", "replay"}, Goto(pc, op)
        PROVE  Kept /\ Went(pc) /\ op'.todo = op.todo
    BY <2>2 DEF Goto, Kept, Went
  <2> QED
    BY <1>1, <1>2, <2>1, <2>2 DEF Return
<1>3. CASE branch # op.at
  <2>1. branch' = branch /\ Withdraw
    BY <1>3 DEF Move
  <2>2. CASE op.cmd = "rebase" /\ op.todo # <<>>
    <3>1. Goto("clearname", [op EXCEPT !.cmd = "failed"])
      BY <1>1, <2>1, <2>2, Zenon DEF Withdraw
    <3>2. op'.cmd = "failed" /\ op'.pc = "clearname"
      BY <3>1 DEF Goto
    <3> QED
      BY <1>1, <2>1, <2>2, <3>2
  <2>3. CASE ~(op.cmd = "rebase" /\ op.todo # <<>>)
    <3>1. Return
      BY <2>1, <2>3, Zenon DEF Withdraw
    <3>2. op' = Idle /\ branch' = branch
      BY <2>1, <3>1 DEF Return
    <3>3. op.cmd = "abortrebase" \/ op.todo = <<>>
      BY <1>1, <2>3
    <3> QED
      BY <1>1, <3>2, <3>3, Zenon
  <2> QED
    BY <2>2, <2>3
<1> QED
  BY <1>2, <1>3

\* MERGE_HEAD, CHERRY_PICK_HEAD and REVERT_HEAD change when a command stops on a
\* conflict and when they are cleared (clear_merge, clear_cherry_pick, clear_revert).
LEMMA HeadsKept ==
  ASSUME Typed, [Next]_vars
  PROVE  \/ UNCHANGED heads
         \/ Stop /\ op.cmd \in {"merge", "pick", "revert"}
         \/ Clear /\ Stopped' = {}
<1> Placed
  BY DEF Typed, OpTyped
<1>1. Start => UNCHANGED heads
  BY DEF Start, Merge, Apply, CherryPick, Revert, Rebase, Continue, PlainCommit, ContinueRebase,
     SkipRebase, Begin, state
<1>2. Abort \/ AbortRebase \/ User \/ Kill \/ UNCHANGED vars \/ (\E c \in Foreign : Outside(c)) =>
        UNCHANGED heads
  BY DEF Abort, AbortRebase, User, Edit, Resolve, Kill, vars, Outside, state
<1>3. Step => UNCHANGED heads \/ Stop \/ Clear
  BY DEF Step, Checkout, CheckoutRefused, Unmerge, Restore, Finish, SetOrigHead, Seal, Record, Reset,
     Move, StartRebase, ClearRebase, Write, Replay, Advance, state
<1>4. Stop => op.cmd \in {"merge", "pick", "revert"}
  BY DEF Stop, Placed
<1>5. Clear => Stopped' = {}
  <2> SUFFICES ASSUME Clear PROVE Stopped' = {}
    OBVIOUS
  <2>1. heads' = [h \in {"merge", "pick", "revert"} |-> 0]
    BY DEF Clear, Typed, StateTyped
  <2> QED
    BY <2>1 DEF Stopped
<1> QED
  BY <1>1, <1>2, <1>3, <1>4, <1>5 DEF Next

\* Where a command is after a step of it.
LEMMA ExclusiveSteps ==
  ASSUME Typed, Exclusive, Step \/ Kill, UNCHANGED Stopped
  PROVE  Exclusive'
<1> /\ Placed /\ op \in OpRecord
    /\ rebase \in [name : BOOLEAN, orig : MaybeIds, onto : MaybeIds, todo : Seq(Ids)]
  BY DEF Typed, OpTyped, StateTyped
<1> USE DEF Replayers, Others
<1>1. ASSUME op' = Idle \/ op' = Rebased, rebase'.name => rebase.name PROVE Exclusive'
  BY <1>1, IdleFields DEF Exclusive, Setting, Replaying
<1>2. CASE op' = Idle \/ op' = Rebased
  <2>1. rebase' = rebase \/ StartRebase \/ ClearRebase \/ Advance
    BY RebaseSteps DEF Next
  <2>2. ClearRebase => (rebase'.name => rebase.name)
    BY OpStepsRebase
  <2>3. ~StartRebase /\ ~Advance
    BY <1>2, IdleFields, OpStepsRebase DEF Went
  <2> QED
    BY <1>1, <1>2, <2>1, <2>2, <2>3
<1>3. CASE ~(op' = Idle \/ op' = Rebased) /\ StartRebase
  <2>1. op'.todo = op.todo /\ op'.cmd = op.cmd
    BY <1>3, ListHeld, OpStepsRebase DEF Advance, StartRebase, Write
  <2>2. op.cmd = "rebase" /\ (op.pc # "name" => rebase.name) /\ Stopped = {} /\ op.todo # <<>>
    BY <1>3, OpStepsRebase DEF Placed, Exclusive, Setting
  <2>3. rebase'.name /\ op'.pc \in {"origfile", "ontofile", "todofile", "base"}
    BY <1>3, <2>2, OpStepsRebase
  <2> QED
    BY <2>1, <2>2, <2>3 DEF Exclusive, Setting, Replaying
<1>4. CASE ~(op' = Idle \/ op' = Rebased) /\ ClearRebase
  <2>1. op'.cmd = op.cmd /\ op'.pc \in {"clearorig", "clearonto", "cleartodo"}
    BY <1>4, OpStepsRebase, ListHeld DEF Went, ClearRebase, Write, Return, Idle, Rebased, Idling
  <2>2. rebase'.name => rebase.name
    BY <1>4, OpStepsRebase
  <2>3. op.pc \in {"clearname", "clearorig", "clearonto", "cleartodo"}
    BY <1>4, OpStepsRebase
  <2> QED
    BY <2>1, <2>2, <2>3 DEF Exclusive, Setting, Replaying, Placed
<1>5. CASE Advance
  <2>1. /\ op'.cmd = op.cmd /\ op'.pc = "replay" /\ op.pc = "advance" /\ rebase'.name = rebase.name
    BY <1>5, OpStepsRebase DEF Went
  <2> QED
    BY <2>1 DEF Exclusive, Setting, Replaying, Placed
<1>6. CASE Replay
  <2>1. rebase' = rebase
    BY <1>6 DEF Replay, state
  <2>2. op.pc = "replay" /\ op.cmd \in {"rebase", "resolved", "skip"}
    BY <1>6, OpStepReplay DEF Placed
  <2>3. \/ op'.cmd = op.cmd /\ op'.pc = "clearname"
        \/ op'.cmd = "rebase" /\ op'.pc \in {"seal", "advance", "materialise", "checkout"}
    BY <1>6, OpStepReplay DEF Went
  <2> QED
    BY <2>1, <2>2, <2>3 DEF Exclusive, Setting, Replaying
<1>7. CASE ~(op' = Idle \/ op' = Rebased) /\ Move
  <2>1. rebase' = rebase
    BY <1>7 DEF Move, state
  <2> QED
    BY <1>7, <2>1, MoveSteps DEF Exclusive, Setting, Replaying, Went
<1>8. CASE /\ ~(op' = Idle \/ op' = Rebased)
           /\ Checkout \/ CheckoutRefused \/ Unmerge \/ Restore
  <2>1. rebase' = rebase /\ op'.todo = op.todo
    BY <1>8, ListHeld DEF Checkout, CheckoutRefused, Unmerge, Restore, state, Advance
  <2>2. CASE CheckoutRefused
    <3>1. op'.cmd = "failed" /\ op'.pc = "clearname" /\ op.cmd = "rebase"
      BY <1>8, <2>2 DEF CheckoutRefused, Withdraw, Return, Goto, OpRecord
    <3> QED
      BY <2>1, <3>1 DEF Exclusive, Setting, Replaying
  <2>3. CASE Checkout
    BY <2>1, <2>3, OpStepsTree DEF Exclusive, Setting, Replaying, Placed
  <2>4. CASE Unmerge \/ Restore
    BY <1>8, <2>1, <2>4, OpStepsTree DEF Exclusive, Setting, Replaying, Placed, Went, Idling, Unmerge, Return
  <2> QED
    BY <1>8, <2>2, <2>3, <2>4
<1>9. CASE /\ ~(op' = Idle \/ op' = Rebased)
           /\ Finish \/ SetOrigHead \/ Stop \/ Seal \/ Record \/ Reset \/ Clear \/ Kill
  <2>1. rebase' = rebase /\ op'.todo = op.todo /\ ~Finish /\ ~Stop /\ ~Clear /\ ~Kill
    BY <1>9, ListHeld DEF Finish, SetOrigHead, Stop, Seal, Record, Reset, Clear, Kill, state, Advance, Return
  <2>2. CASE SetOrigHead \/ Seal \/ Reset
    BY <2>1, <2>2, OpStepsRefs DEF Exclusive, Setting, Replaying, Placed, Went
  <2>3. CASE Record
    <3>1. /\ op.pc = "record" /\ op'.cmd = op.cmd
          /\ op'.pc \in {"clear", "advance"}
      BY <1>9, <2>3 DEF Record, Return, Goto, OpRecord
    <3> QED
      BY <2>1, <3>1 DEF Exclusive, Setting, Replaying, Placed
  <2> QED
    BY <1>9, <2>1, <2>2, <2>3
<1> QED
  BY <1>2, <1>3, <1>4, <1>5, <1>6, <1>7, <1>8, <1>9 DEF Step

\* No step lets another command into a rebase, or a rebase into another command
\* (refuse_if_in_progress).
LEMMA ExclusiveKept ==
  ASSUME Typed, Rooted, Exclusive, [Next]_vars
  PROVE  Exclusive'
<1> USE DEF Replayers, Others
<1>1. CASE Start
  <2>1. Begun /\ Opening
    BY <1>1, StartsAre
  <2>2. Stopped' = Stopped /\ rebase' = rebase
    BY <2>1 DEF Begun, Stopped
  <2>3. Placed'
    BY <1>1, NextTyped DEF Typed, OpTyped, Next
  <2>4. Exclusive /\ Placed' /\ Opening
    BY <2>1, <2>3
  <2>5. CASE ~InProgress
    <3>1. Stopped' = {} /\ ~rebase'.name
      BY <2>2, <2>5 DEF InProgress
    <3>2. op'.cmd # "resolved" /\ op'.cmd # "skip" /\ op'.cmd # "abortrebase"
      BY <2>1, <2>5, <2>4 DEF Opening, Planning, Exclusive, InProgress
    <3>3. op'.cmd = "rebase" =>
            (op'.pc = "name" /\ op'.todo # <<>>) \/ (op'.pc = "base" /\ op'.todo = <<>>)
      BY <2>1, <2>5 DEF Opening, Planning, InProgress
    <3> QED
      BY <2>3, <3>1, <3>2, <3>3 DEF Exclusive, Setting, Replaying, Placed
  <2>6. CASE InProgress
    <3>1. \/ op'.cmd = "continue" /\ ~rebase.name
          \/ op'.cmd \in Replayers /\ op'.pc \in {"replay", "restore", "seal"} /\ rebase.name
               /\ Stopped = {}
      BY <2>1, <2>6 DEF Exclusive, Opening, Planning
    <3> QED
      BY <2>2, <2>3, <3>1 DEF Exclusive, Setting, Replaying, Placed
  <2> QED
    BY <2>5, <2>6
<1>2. CASE Abort \/ AbortRebase
  <2>1. Stopped' = Stopped /\ rebase' = rebase
    BY <1>2 DEF Abort, AbortRebase, state, Stopped
  <2>2. Abort => Stopped # {}
    BY DEF Abort
  <2> QED
    BY <1>2, <2>1, <2>2, OpStepsRebase DEF Exclusive, Setting, Replaying
<1>3. CASE UNCHANGED vars \/ User \/ \E c \in Foreign : Outside(c)
  <2>1. Stopped' = Stopped /\ UNCHANGED <<op, rebase>>
    BY <1>3 DEF vars, User, Edit, Resolve, Outside, state, Stopped
  <2> QED
    BY <2>1 DEF Exclusive, Setting, Replaying
<1>4. CASE (Step \/ Kill) /\ UNCHANGED heads
  <2>1. Stopped' = Stopped
    BY <1>4 DEF Stopped
  <2> QED
    BY <1>4, <2>1, ExclusiveSteps
<1>5. CASE Stop \/ Clear
  <2>1. op' = Idle /\ rebase' = rebase
    BY <1>5 DEF Stop, Clear, Return
  <2>2. Stop => op.pc = "stop"
    BY DEF Stop
  <2>3. Stop => ~rebase.name
    BY <2>2 DEF Exclusive, Typed, OpTyped, Placed
  <2>4. Clear => Stopped' = {}
    <3> SUFFICES ASSUME Clear PROVE Stopped' = {}
      OBVIOUS
    <3>1. heads' = [h \in {"merge", "pick", "revert"} |-> 0]
      BY DEF Clear, Typed, StateTyped
    <3> QED
      BY <3>1 DEF Stopped
  <2> QED
    BY <1>5, <2>1, <2>3, <2>4, IdleFields DEF Exclusive, Setting, Replaying
<1>6. (Step \/ Kill) => UNCHANGED heads \/ Stop \/ Clear
  BY HeadsKept
<1> QED
  BY <1>1, <1>2, <1>3, <1>4, <1>5, <1>6 DEF Next

-----------------------------------------------------------------------------
(* What a step leaves as it is *)

\* The commit that is next is the one after those that are finished, and the
\* rest of the list goes on from there.
LEMMA NextListed ==
  ASSUME Typed, Chained, Listed
  PROVE  /\ Len(plan.todo) \in Nat /\ Len(rebase.todo) \in Nat /\ rebase.todo \in Seq(Ids)
         /\ Finished \in 0 .. Len(plan.todo)
         /\ rebase.todo = <<>> <=> Finished = Len(plan.todo)
         /\ rebase.todo # <<>> =>
              /\ Finished \in 0 .. Len(plan.todo) - 1
              /\ rebase.todo[1] = plan.todo[Finished + 1] /\ rebase.todo[1] \in Ids
              /\ rebase.todo[1] \notin ToSet(Tail(rebase.todo))
              /\ rebase.todo[1] \in ToSet(rebase.todo)
              /\ ToSet(Tail(rebase.todo)) \subseteq ToSet(rebase.todo)
              /\ Len(Tail(rebase.todo)) = Len(rebase.todo) - 1
              /\ \A i \in 1 .. Len(Tail(rebase.todo)) :
                   Tail(rebase.todo)[i] = plan.todo[(Finished + 1) + i]
<1> DEFINE t == rebase.todo
           n == Len(plan.todo)
           f == Finished
<1>1. t \in Seq(Ids) /\ plan.todo \in Seq(Ids)
  BY DEF Typed, StateTyped, PlanTyped
<1>2. n \in Nat /\ Len(t) \in Nat /\ Len(t) <= n /\ f = n - Len(t)
  BY <1>1 DEF Listed, Finished
<1>3. \A i \in 1 .. Len(t) : t[i] = plan.todo[f + i]
  BY DEF Listed
<1>4. \A i, j \in 1 .. n : i < j => plan.todo[i] # plan.todo[j]
  BY DEF Chained, Listed
<1> HIDE DEF t, n, f
<1>5. f \in 0 .. n /\ (t = <<>> <=> f = n)
  BY <1>1, <1>2, EmptySeq
<1>6. ASSUME t # <<>>
      PROVE  /\ f \in 0 .. n - 1 /\ t[1] = plan.todo[f + 1] /\ t[1] \in Ids
             /\ t[1] \notin ToSet(Tail(t)) /\ t[1] \in ToSet(t)
             /\ ToSet(Tail(t)) \subseteq ToSet(t) /\ Len(Tail(t)) = Len(t) - 1
             /\ \A i \in 1 .. Len(Tail(t)) : Tail(t)[i] = plan.todo[(f + 1) + i]
  <2>1. Len(t) # 0 /\ 1 \in 1 .. Len(t)
    BY <1>1, <1>2, <1>6, EmptySeq
  <2>2. f \in 0 .. n - 1 /\ t[1] = plan.todo[f + 1] /\ t[1] \in Ids
    BY <1>1, <1>2, <1>3, <2>1
  <2>3. /\ Tail(t) \in Seq(Ids) /\ Len(Tail(t)) = Len(t) - 1
        /\ \A i \in 1 .. Len(t) - 1 : Tail(t)[i] = t[i + 1]
    BY <1>1, <1>6, <2>1
  <2>4. \A i \in 1 .. Len(t) - 1 :
          /\ i + 1 \in 1 .. Len(t) /\ f + (i + 1) = (f + 1) + i
          /\ f + 1 \in 1 .. n /\ (f + 1) + i \in 1 .. n /\ f + 1 < (f + 1) + i
    BY <1>2, <1>5, <2>1
  <2>5. \A i \in 1 .. Len(t) - 1 :
          Tail(t)[i] = plan.todo[(f + 1) + i] /\ Tail(t)[i] = t[i + 1] /\ Tail(t)[i] # t[1]
    BY <1>3, <1>4, <2>2, <2>3, <2>4
  <2>6. t[1] \in ToSet(t)
    BY <1>1, <2>1 DEF ToSet
  <2>7. ToSet(Tail(t)) \subseteq ToSet(t) /\ t[1] \notin ToSet(Tail(t))
    BY <1>1, <2>3, <2>4, <2>5 DEF ToSet
  <2> QED
    BY <2>2, <2>3, <2>5, <2>6, <2>7
<1> QED
  BY <1>1, <1>2, <1>5, <1>6 DEF t, n, f

\* A step that does not start a rebase leaves its plan, and one that does not
\* skip a commit leaves what it decides.
LEMMA PlanHeld ==
  ASSUME Typed, Typed', Extends, Chained, plan.todo # <<>>, UNCHANGED <<plan, skipped>>
  PROVE  PlannedTrees' = PlannedTrees /\ Decided' = Decided
BY PlanStays

\* A branch that does not move has the content it had.
LEMMA TipHeld ==
  ASSUME Typed, Typed', Extends, UNCHANGED branch
  PROVE  HeadTree' = HeadTree
<1>1. branch \in Ids
  BY DEF Typed, StateTyped
<1> QED
  BY <1>1 DEF HeadTree, TreeOf, Extends

\* A step that changes nothing at the paths a rebase decides.
LEMMA RestingKept ==
  ASSUME Typed, Typed', Extends, Chained, UNCHANGED <<plan, skipped, stopped>>,
         rebase'.todo = rebase.todo, Agree(Decided, HeadTree', HeadTree),
         stopped \in ToSet(rebase.todo) =>
           Agree(Decided, idx'.tree, idx.tree) /\ idx'.unmerged \subseteq idx.unmerged,
         Listed, Resting
  PROVE  Listed' /\ Resting'
<1>1. plan.todo # <<>>
  BY DEF Listed
<1>2. PlannedTrees' = PlannedTrees /\ Decided' = Decided /\ Finished' = Finished
  BY <1>1, PlanHeld DEF Finished
<1>3. Listed'
  BY <1>2 DEF Listed
<1>4. \A T : Agree(Decided, HeadTree, T) => Agree(Decided, HeadTree', T)
  BY DEF Agree
<1>5. \A T : Agree(Decided, idx.tree, T) /\ Agree(Decided, idx'.tree, idx.tree) =>
               Agree(Decided, idx'.tree, T)
  BY DEF Agree
<1>6. HasUpTo(HeadTree, Finished)' \/ (rebase.todo # <<>> /\ HasUpTo(HeadTree, Finished + 1)')
  BY <1>2, <1>4 DEF Resting, HasUpTo
<1>7. ASSUME stopped \in ToSet(rebase.todo)
      PROVE  /\ stopped = rebase.todo[1]
             /\ HasUpTo(idx.tree, Finished + 1)' /\ idx'.unmerged \cap Decided' = {}
  BY <1>2, <1>5, <1>7 DEF Resting, HasUpTo
<1> QED
  BY <1>3, <1>6, <1>7 DEF Resting

\* Only a rebase that starts forgets what was not followed before.
LEMMA FollowedBefore ==
  ASSUME Step \/ Abort \/ AbortRebase \/ User \/ Kill \/ (\E c \in Foreign : Outside(c)) \/ UNCHANGED vars,
         Followed'
  PROVE  Followed /\ UNCHANGED <<plan, blind>>
<1>0. [Next]_vars
  BY DEF Next
<1>1. ~DiedStarting /\ ~DiedAborting
  BY <1>0, KillsGrow DEF Followed, DiedStarting, DiedAborting
<1>2. UNCHANGED <<plan, blind>>
  <2>1. Step => UNCHANGED <<plan, blind>>
    BY DEF Step, Checkout, CheckoutRefused, Unmerge, Restore, Finish, SetOrigHead, Stop, Seal, Record, Reset,
       Move, Clear, StartRebase, ClearRebase, Write, Replay, Advance, ghosts
  <2>2. Abort \/ AbortRebase \/ User \/ Kill \/ UNCHANGED vars \/ (\E c \in Foreign : Outside(c)) =>
          UNCHANGED <<plan, blind>>
    BY DEF Abort, AbortRebase, User, Edit, Resolve, Kill, vars, Outside, ghosts, asked
  <2> QED
    BY <2>1, <2>2
<1> QED
  BY <1>1, <1>2 DEF Followed

\* The inductive invariant.
RebaseInv ==
  Typed /\ Computed /\ Returning /\ Rooted /\ Chained /\ Exclusive /\ Replayed

-----------------------------------------------------------------------------
(* Between two commands *)

\* With no rebase under way there is nothing to show.
Apart ==
  /\ ~rebase.name
  /\ op.cmd \notin Replayers \cup {"rebased"}
       \/ (op.cmd = "rebase" /\ op.pc \in {"base", "reset", "move"} /\ op.todo = <<>>)
LEMMA Unrelated ==
  ASSUME Followed' => Apart'
  PROVE  Replayed' /\ Counted'
BY DEF Apart, Replayed, Counted, Setting, Underway, Replaying, Ending, Replayers

\* A step that neither the command nor the user made.
LEMMA QuietReplayed ==
  ASSUME RebaseInv, [Next]_vars, Followed, UNCHANGED <<op, rebase, plan, skipped, stopped, idx>>,
         plan.todo # <<>> => Agree(Decided, HeadTree', HeadTree)
  PROVE  Replayed'
<1> /\ Typed /\ Chained /\ Placed /\ Provided /\ op.at \in MaybeIds
  BY DEF RebaseInv, Typed, OpTyped, OpRecord
<1>1. Typed' /\ Extends
  BY CommitSteps
<1>2. /\ Setting => Settled
      /\ Underway => Listed /\ Resting
      /\ Replaying => Working /\ Underway
      /\ Ending => plan.todo # <<>> /\ HasUpTo(HeadTree, Len(plan.todo))
  <2>1. Replaying => Underway
    BY DEF RebaseInv, Exclusive, Replaying, Underway, Setting, Replayers
  <2> QED
    BY <2>1 DEF RebaseInv, Replayed
<1>3. Setting' = Setting /\ Underway' = Underway /\ Replaying' = Replaying /\ Ending' = Ending
  BY DEF Setting, Underway, Replaying, Ending
<1>4. ASSUME op.at \in Ids PROVE TreeOf(op.at)' = TreeOf(op.at)
  BY <1>1, <1>4 DEF Extends, TreeOf
<1>5. plan.todo # <<>> => TreeOf(plan.onto)' = TreeOf(plan.onto)
  BY <1>1 DEF Chained, Extends, TreeOf
<1>6. ASSUME plan.todo # <<>>
      PROVE  /\ PlannedTrees' = PlannedTrees /\ Decided' = Decided /\ Finished' = Finished
             /\ \A T : Agree(Decided, HeadTree, T) => Agree(Decided, HeadTree', T)
             /\ \A T : Agree(Decided, T, HeadTree) => Agree(Decided, T, HeadTree')
  <2>1. Agree(Decided, HeadTree', HeadTree)
    BY <1>6
  <2> QED
    BY <1>1, <1>6, <2>1, PlanHeld DEF Agree, Finished
<1>7. ASSUME Setting PROVE Settled'
  <2>1. Settled /\ op.todo # <<>>
    BY <1>2, <1>7 DEF Setting
  <2>2. op.pc \in {"name", "origfile", "ontofile", "todofile", "base"} => op.at \in Ids
    BY DEF Provided, MaybeIds
  <2> QED
    BY <1>4, <1>5, <2>1, <2>2 DEF Settled
<1>8. ASSUME Underway PROVE Listed' /\ Resting'
  <2>1. Listed /\ Resting /\ plan.todo # <<>>
    BY <1>2, <1>8 DEF Listed
  <2>2. Agree(Decided, idx'.tree, idx.tree)
    BY DEF Agree
  <2> QED
    BY <1>1, <2>1, <2>2, RestingKept
<1>9. ASSUME Replaying PROVE Working'
  <2>1. Working /\ plan.todo # <<>>
    BY <1>2, <1>9 DEF Listed
  <2>2. op.pc \in {"checkout", "materialise", "unmerge"} => op.at \in Ids
    BY DEF Provided, MaybeIds
  <2> QED
    BY <1>4, <1>6, <2>1, <2>2 DEF Working, HasUpTo
<1>10. ASSUME Ending PROVE plan'.todo # <<>> /\ HasUpTo(HeadTree, Len(plan.todo))'
  BY <1>2, <1>6, <1>10 DEF HasUpTo
<1> QED
  BY <1>3, <1>7, <1>8, <1>9, <1>10 DEF Replayed

\* What other writers commit is at paths the rebase does not decide.
LEMMA OutsideReplayed ==
  ASSUME RebaseInv, UNCHANGED vars \/ \E c \in Foreign : Outside(c)
  PROVE  Replayed'
<1>1. [Next]_vars /\ Typed /\ Typed' /\ Extends
  <2>1. [Next]_vars
    BY DEF Next
  <2> QED
    BY <2>1, CommitSteps DEF RebaseInv
<1> SUFFICES ASSUME Followed' PROVE Replayed'
  BY DEF Replayed
<1>2. Followed
  BY FollowedBefore
<1>3. CASE UNCHANGED vars
  <2>1. UNCHANGED <<op, rebase, plan, skipped, stopped, idx, branch>>
    BY <1>3 DEF vars
  <2>2. Agree(Decided, HeadTree', HeadTree)
    BY <1>1, <2>1, TipHeld DEF Agree
  <2> QED
    BY <1>1, <1>2, <2>1, <2>2, QuietReplayed
<1>4. ASSUME NEW c \in Foreign, Outside(c) PROVE Replayed'
  <2>1. UNCHANGED <<op, rebase, plan, skipped, stopped, idx>>
    BY <1>4 DEF Outside, state, ghosts
  <2>2. Made(With(HeadTree, {c}), branch, "foreign", 0)
    BY <1>1, <1>4, CommitSteps
  <2>3. HeadTree' = With(HeadTree, {c})
    BY <2>2 DEF Made, HeadTree, TreeOf
  <2>4. HeadTree \in Tree
    BY <1>1, TreesTyped DEF Typed, StateTyped, HeadTree
  <2>5. \A p \in Decided : p \in Paths /\ p # PathOf[c]
    BY DEF Decided
  <2>6. \A p \in Paths : p # PathOf[c] => With(HeadTree, {c})[p] = HeadTree[p]
    BY <2>4 DEF With, Tree
  <2>7. Agree(Decided, HeadTree', HeadTree)
    BY <2>3, <2>5, <2>6 DEF Agree
  <2> QED
    BY <1>1, <1>2, <2>1, <2>7, QuietReplayed
<1> QED
  BY <1>3, <1>4

\* What the user stages is at other paths, or it resolves a commit at a path the
\* rebase does not decide.
LEMMA UserReplayed ==
  ASSUME RebaseInv, User
  PROVE  Replayed'
<1>1. [Next]_vars /\ Typed /\ Typed' /\ Extends /\ Chained
  BY CommitSteps DEF Next, RebaseInv
<1> SUFFICES ASSUME Followed' PROVE Replayed'
  BY DEF Replayed
<1>2. Followed
  BY FollowedBefore
<1>3. op.pc = "idle" /\ UNCHANGED <<op, rebase, plan, skipped, stopped, branch>>
  BY DEF User, Edit, Resolve, Waiting, refs, state, ghosts
<1>4. HeadTree' = HeadTree
  BY <1>1, <1>3, TipHeld
<1>5. ~Setting' /\ ~Replaying' /\ Ending' = Ending /\ Underway' = Underway
  BY <1>3 DEF Setting, Replaying, Ending, Underway
<1>6. ASSUME Ending PROVE plan'.todo # <<>> /\ HasUpTo(HeadTree, Len(plan.todo))'
  <2>1. plan.todo # <<>> /\ HasUpTo(HeadTree, Len(plan.todo))
    BY <1>2, <1>6 DEF RebaseInv, Replayed
  <2> QED
    BY <1>1, <1>3, <1>4, <2>1, PlanHeld DEF HasUpTo
<1>7. ASSUME Underway PROVE Listed' /\ Resting'
  <2>1. Listed /\ Resting
    BY <1>2, <1>7 DEF RebaseInv, Replayed
  <2>2. idx.tree \in Tree /\ idx \in [tree : Tree, unmerged : SUBSET Paths]
    BY <1>1 DEF Typed, StateTyped
  <2>3. ASSUME NEW c \in Edits, Edit(c)
        PROVE  Agree(Decided, idx'.tree, idx.tree) /\ idx'.unmerged \subseteq idx.unmerged
    <3>1. idx' = [idx EXCEPT !.tree[PathOf[c]] = @ \cup {c}]
      BY <2>3 DEF Edit
    <3>2. \A p \in Decided : p \in Paths /\ p # PathOf[c]
      BY DEF Decided
    <3>3. \A p \in Paths : p # PathOf[c] => idx'.tree[p] = idx.tree[p]
      BY <2>2, <3>1 DEF Tree
    <3>4. idx'.unmerged = idx.unmerged
      BY <2>2, <3>1
    <3> QED
      BY <3>2, <3>3, <3>4 DEF Agree
  <2>4. ASSUME NEW q \in Paths, Resolve(q), stopped \in ToSet(rebase.todo)
        PROVE  Agree(Decided, idx'.tree, idx.tree) /\ idx'.unmerged \subseteq idx.unmerged
    <3>1. PICK x : idx' = [tree |-> [idx.tree EXCEPT ![q] = x], unmerged |-> idx.unmerged \ {q}]
      BY <2>4 DEF Resolve
    <3>2. q \in idx.unmerged
      BY <2>4 DEF Resolve
    <3>3. q \notin Decided
      BY <2>1, <2>4, <3>2 DEF Resting
    <3>4. \A p \in Paths : p # q => idx'.tree[p] = idx.tree[p]
      BY <2>2, <3>1 DEF Tree
    <3>5. Decided \subseteq Paths
      BY DEF Decided
    <3> QED
      BY <3>1, <3>3, <3>4, <3>5 DEF Agree
  <2>5. Agree(Decided, HeadTree', HeadTree)
    BY <1>4 DEF Agree
  <2>6. stopped \in ToSet(rebase.todo) =>
          Agree(Decided, idx'.tree, idx.tree) /\ idx'.unmerged \subseteq idx.unmerged
    BY <2>3, <2>4 DEF User
  <2> QED
    BY <1>1, <1>3, <2>1, <2>5, <2>6, RestingKept
<1> QED
  BY <1>5, <1>6, <1>7 DEF Replayed

\* A killed command leaves a rebase under way if the kill is one it survives.
LEMMA KilledUnderway ==
  ASSUME RebaseInv, Kill, Followed', rebase.name
  PROVE  Underway
<1>1. Placed /\ Returning /\ <<op.cmd, op.pc>> \in kills'
  BY DEF RebaseInv, Typed, OpTyped, Kill
<1>2. ~Setting
  <2> SUFFICES ASSUME Setting PROVE FALSE
    OBVIOUS
  <2>1. op.pc # "name"
    BY <1>1 DEF Returning
  <2>2. <<op.cmd, op.pc>> \in {"rebase"} \X {"origfile", "ontofile", "todofile", "base", "reset", "move"}
    BY <2>1 DEF Setting
  <2> QED
    BY <1>1, <2>2 DEF Followed, DiedStarting
<1>3. op.cmd # "failed"
  <2> SUFFICES ASSUME op.cmd = "failed" PROVE FALSE
    OBVIOUS
  <2>1. op.pc = "clearname"
    BY <1>1 DEF Returning, Placed
  <2> QED
    BY <1>1, <2>1 DEF Followed, DiedStarting
<1>4. ~(op.cmd = "abortrebase" /\ op.pc \in {"restore", "clearname"})
  <2> SUFFICES ASSUME op.cmd = "abortrebase", op.pc \in {"restore", "clearname"} PROVE FALSE
    OBVIOUS
  <2>1. <<op.cmd, op.pc>> \in {"abortrebase"} \X {"restore", "clearname"}
    OBVIOUS
  <2> QED
    BY <1>1, <2>1 DEF Followed, DiedAborting
<1> QED
  BY <1>2, <1>3, <1>4 DEF Underway

\* A killed command leaves what it has written.
LEMMA KillReplayed ==
  ASSUME RebaseInv, Kill
  PROVE  Replayed'
<1>1. [Next]_vars /\ Typed /\ Typed' /\ Extends /\ Chained /\ Placed /\ Returning
  BY CommitSteps DEF Next, RebaseInv, Typed, OpTyped
<1> SUFFICES ASSUME Followed' PROVE Replayed'
  BY DEF Replayed
<1>2. Followed
  BY FollowedBefore
<1>3. /\ op' = Idle /\ <<op.cmd, op.pc>> \in kills'
      /\ UNCHANGED <<rebase, plan, skipped, stopped, branch, idx>>
  BY DEF Kill, Return, refs, state, asked
<1>4. ~Setting' /\ ~Replaying' /\ ~Ending'
  BY <1>3, IdleFields DEF Setting, Replaying, Ending, Replayers
<1>5. rebase.name => Underway
  BY KilledUnderway
<1>6. ASSUME Underway' PROVE Listed' /\ Resting'
  <2>1. Listed /\ Resting
    BY <1>2, <1>3, <1>5, <1>6 DEF RebaseInv, Replayed, Underway
  <2>2. Agree(Decided, HeadTree', HeadTree) /\ Agree(Decided, idx'.tree, idx.tree)
    BY <1>1, <1>3, TipHeld DEF Agree
  <2> QED
    BY <1>1, <1>3, <2>1, <2>2, RestingKept
<1> QED
  BY <1>4, <1>6 DEF Replayed

-----------------------------------------------------------------------------
(* Starting *)

\* A command that starts.
LEMMA StartReplayed ==
  ASSUME RebaseInv, Start
  PROVE  Replayed'
<1>1. [Next]_vars /\ Typed /\ Typed' /\ Extends /\ Chained /\ Placed /\ Exclusive
  BY CommitSteps DEF Next, RebaseInv, Typed, OpTyped
<1>2. Begun /\ Opening
  BY StartsAre DEF RebaseInv
<1>3. /\ op.pc = "idle" /\ op.cmd \in {"none", "rebased"} /\ op'.at = branch
      /\ UNCHANGED <<commits, branch, idx, heads, rebase, kills>>
  BY <1>1, <1>2 DEF Begun, Placed
<1>4. CASE Planning
  <2>1. ~rebase'.name
    BY <1>3, <1>4 DEF Planning, InProgress
  <2>2. ~Underway' /\ ~Replaying' /\ ~Ending'
    BY <1>4, <2>1 DEF Underway, Replaying, Ending, Planning
  <2>3. Settled'
    <3>1. idx'.tree = HeadTree /\ HeadTree = TreeOf(op.at)'
      BY <1>3, <1>4 DEF Planning, HeadTree, TreeOf
    <3>2. op'.tree = TreeOf(plan.onto)'
      BY <1>3, <1>4 DEF Planning, TreeOf
    <3> QED
      BY <1>4, <3>1, <3>2 DEF Planning, Settled
  <2> QED
    BY <2>2, <2>3 DEF Replayed
<1>5. ASSUME ~rebase.name, ~Planning PROVE Replayed'
  <2>1. op'.cmd \notin Replayers \cup {"rebased"}
          \/ (op'.cmd = "rebase" /\ op'.pc \in {"base", "reset", "move"} /\ op'.todo = <<>>)
    BY <1>2, <1>5 DEF Opening, Replayers
  <2> QED
    BY <1>3, <1>5, <2>1, Unrelated DEF Apart
<1>6. ASSUME rebase.name, Followed'
      PROVE  Replayed'
  <2>1. Stopped = {} /\ InProgress
    BY <1>1, <1>6 DEF Exclusive, InProgress
  <2>2. \/ /\ op'.cmd \in {"rebase", "skip"} /\ op'.pc = "replay" /\ op'.todo = <<>>
           /\ op'.todo = rebase.todo /\ UNCHANGED asked
        \/ /\ op'.cmd = "skip" /\ op'.pc = "restore" /\ op'.todo # <<>>
           /\ op'.todo = rebase.todo /\ UNCHANGED asked
        \/ /\ op'.cmd = "resolved" /\ op'.pc = "seal" /\ op'.todo # <<>> /\ op'.tree = idx.tree
           /\ op'.todo = rebase.todo
           /\ ~blind' => ~blind /\ stopped = rebase.todo[1]
           /\ UNCHANGED <<plan, skipped, stopped>>
    BY <1>2, <2>1 DEF Opening, Planning
  <2>3. Followed /\ UNCHANGED <<plan, skipped, stopped>>
    BY <1>3, <1>6, <2>2 DEF Followed, DiedStarting, DiedAborting, asked
  <2>4. Underway
    BY <1>3, <1>6 DEF Underway, Setting
  <2>5. Listed /\ Resting /\ plan.todo # <<>>
    BY <2>3, <2>4 DEF RebaseInv, Replayed, Listed
  <2>6. Agree(Decided, HeadTree', HeadTree) /\ Agree(Decided, idx'.tree, idx.tree)
    BY <1>1, <1>3, TipHeld DEF Agree
  <2>7. Listed' /\ Resting'
    BY <1>1, <1>3, <2>3, <2>5, <2>6, RestingKept
  <2>8. ~Setting' /\ ~Ending'
    BY <2>2 DEF Setting, Ending
  <2>9. Working'
    <3>1. PlannedTrees' = PlannedTrees /\ Decided' = Decided /\ Finished' = Finished
      BY <1>1, <1>3, <2>3, <2>5, PlanHeld DEF Finished
    <3>2. CASE op'.cmd = "resolved"
      <4>1. /\ stopped = rebase.todo[1] /\ op'.tree = idx.tree /\ op'.todo = rebase.todo
            /\ rebase.todo # <<>> /\ op'.pc = "seal"
        BY <1>6, <2>2, <3>2 DEF Followed
      <4>2. stopped \in ToSet(rebase.todo)
        BY <1>1, <2>5, <4>1, NextListed
      <4>3. HasUpTo(op.tree, Finished + 1)'
        BY <2>5, <3>1, <4>1, <4>2 DEF Resting, HasUpTo
      <4> QED
        BY <1>3, <2>3, <3>2, <4>1, <4>3 DEF Working
    <3>3. CASE op'.cmd # "resolved"
      BY <1>3, <2>2, <3>3 DEF Working
    <3> QED
      BY <3>2, <3>3
  <2> QED
    BY <2>7, <2>8, <2>9 DEF Replayed
<1>7. CASE rebase.name
  BY <1>6, <1>7 DEF Replayed
<1> QED
  BY <1>4, <1>5, <1>7

\* --abort that starts or goes on.
LEMMA AbortReplayed ==
  ASSUME RebaseInv, Abort \/ AbortRebase
  PROVE  Replayed'
<1>1. [Next]_vars /\ Typed /\ Typed' /\ Extends /\ Chained /\ Placed /\ Exclusive
  BY CommitSteps DEF Next, RebaseInv, Typed, OpTyped
<1>2. UNCHANGED <<rebase, plan, skipped, stopped, branch, idx>>
  BY DEF Abort, AbortRebase, refs, state, ghosts
<1>3. CASE Abort
  <2>1. Stopped # {} /\ op'.cmd = "abort"
    BY <1>1, <1>3, OpStepsRebase DEF Abort
  <2>2. ~rebase'.name
    BY <1>1, <1>2, <2>1 DEF Exclusive
  <2> QED
    BY <2>1, <2>2, Unrelated DEF Apart, Replayers
<1>4. CASE AbortRebase /\ Followed'
  <2>1. Followed
    BY <1>4, FollowedBefore
  <2>2. op.pc = "idle" /\ op'.pc = "reset" /\ op'.cmd = "abortrebase" /\ rebase.name
    BY <1>1, <1>4, OpStepsRebase
  <2>3. Underway
    BY <1>1, <2>2 DEF Underway, Setting, Placed
  <2>4. Listed /\ Resting
    BY <2>1, <2>3 DEF RebaseInv, Replayed
  <2>5. Agree(Decided, HeadTree', HeadTree) /\ Agree(Decided, idx'.tree, idx.tree)
    BY <1>1, <1>2, TipHeld DEF Agree
  <2>6. Listed' /\ Resting'
    BY <1>1, <1>2, <2>4, <2>5, RestingKept
  <2>7. ~Setting' /\ ~Replaying' /\ ~Ending'
    BY <2>2 DEF Setting, Replaying, Ending, Replayers
  <2> QED
    BY <2>6, <2>7 DEF Replayed
<1> QED
  BY <1>3, <1>4 DEF Replayed

-----------------------------------------------------------------------------
(* Commands that replay nothing *)

\* A command stays what it is until it ends, but for a rebase whose checkout or
\* move failed and for one that goes on from a resolved or skipped commit.
LEMMA CommandHeld ==
  ASSUME Typed, Step
  PROVE  \/ op' = Idle \/ (op' = Rebased /\ ClearRebase /\ op.cmd \in Replayers)
         \/ op'.cmd = op.cmd
         \/ op.cmd = "rebase" /\ op'.cmd = "failed" /\ op'.pc = "clearname"
              /\ (CheckoutRefused \/ Move)
         \/ Replay /\ op.cmd \in Replayers /\ op'.cmd = "rebase"
<1> op \in OpRecord /\ Placed
  BY DEF Typed, OpTyped
<1>1. Checkout \/ StartRebase \/ Advance \/ SetOrigHead \/ Seal \/ Reset \/ Restore => op'.cmd = op.cmd
  BY OpStepsTree, OpStepsRefs, OpStepsRebase DEF Went
<1>2. Finish \/ Stop \/ Clear => op' = Idle
  BY DEF Finish, Stop, Clear, Return
<1>3. CheckoutRefused => op' = Idle \/ (op.cmd = "rebase" /\ op'.cmd = "failed" /\ op'.pc = "clearname")
  BY DEF CheckoutRefused, Withdraw, Return, Goto, OpRecord
<1>4. Unmerge => op' = Idle \/ op'.cmd = op.cmd
  BY DEF Unmerge, Return, Goto, OpRecord
<1>5. Record => op' = Idle \/ op'.cmd = op.cmd
  BY DEF Record, Return, Goto, OpRecord
<1>6. Move => op' = Idle \/ op'.cmd = op.cmd \/ (op.cmd = "rebase" /\ op'.cmd = "failed" /\ op'.pc = "clearname")
  BY MoveSteps DEF Went
<1>7. ClearRebase =>
        op' = Idle \/ (op' = Rebased /\ op.cmd \in Replayers) \/ op'.cmd = op.cmd
  BY DEF ClearRebase, Write, Return, Goto, OpRecord, Placed, Replayers
<1>8. Replay => op'.cmd = op.cmd \/ (op.cmd \in Replayers /\ op'.cmd = "rebase")
  BY OpStepReplay DEF Went, Placed, Replayers
<1> QED
  BY <1>1, <1>2, <1>3, <1>4, <1>5, <1>6, <1>7, <1>8 DEF Step

\* The commands that are no rebase leave it alone.
LEMMA OtherApart ==
  ASSUME RebaseInv, Step,
         \/ op.cmd \in Others
         \/ op.cmd = "rebase" /\ op.pc \in {"base", "reset", "move"} /\ op.todo = <<>>
  PROVE  Apart'
<1>1. Typed /\ Placed /\ Exclusive /\ [Next]_vars
  BY DEF RebaseInv, Typed, OpTyped, Next
<1>2. ~rebase.name
  BY <1>1 DEF Exclusive
<1>3. ~StartRebase /\ ~ClearRebase /\ ~Advance
  BY <1>1, OpStepsRebase DEF Placed, Others
<1>4. rebase' = rebase
  BY <1>1, <1>3, RebaseSteps
<1>5. op' = Idle \/ op'.todo = op.todo
  BY <1>1, <1>3, ListHeld
<1>6. CASE op' = Idle
  BY <1>2, <1>4, <1>6, IdleFields DEF Apart, Replayers
<1>7. CASE op' # Idle /\ op.cmd \in Others
  <2>1. op'.cmd = op.cmd
    BY <1>1, <1>3, <1>7, CommandHeld DEF Others, Replayers
  <2> QED
    BY <1>2, <1>4, <1>7, <2>1 DEF Apart, Others, Replayers
<1>8. CASE op' # Idle /\ op.cmd = "rebase" /\ op.pc \in {"base", "reset", "move"} /\ op.todo = <<>>
  <2>1. Checkout \/ CheckoutRefused \/ Reset \/ Move
    BY <1>3, <1>8 DEF Step, Unmerge, Restore, Finish, SetOrigHead, Stop, Seal, Record, Clear, Replay
  <2>2. op'.todo = <<>>
    BY <1>5, <1>8
  <2>3. op'.cmd = "rebase" /\ op'.pc \in {"reset", "move"}
    <3>1. CASE Checkout \/ Reset
      BY <1>1, <1>8, <3>1, OpStepsTree, OpStepsRefs DEF Went
    <3>2. CASE CheckoutRefused
      BY <1>8, <3>2 DEF CheckoutRefused, Withdraw, Return
    <3>3. CASE Move
      BY <1>1, <1>8, <3>3, MoveSteps
    <3> QED
      BY <2>1, <3>1, <3>2, <3>3
  <2> QED
    BY <1>2, <1>4, <2>2, <2>3 DEF Apart
<1> QED
  BY <1>6, <1>7, <1>8

\* A command whose checkout failed ends.
LEMMA FailedApart ==
  ASSUME RebaseInv, Step, op.cmd = "failed"
  PROVE  Apart'
<1>1. Typed /\ Placed /\ Returning
  BY DEF RebaseInv, Typed, OpTyped
<1>2. ClearRebase
  BY <1>1 DEF Step, Placed, Checkout, CheckoutRefused, Unmerge, Restore, Finish, SetOrigHead, Stop, Seal,
     Record, Reset, Move, Clear, StartRebase, Write, Replay, Advance
<1>3. op'.cmd \in {"failed", "none"}
  BY <1>1, <1>2 DEF ClearRebase, Write, Goto, Return, Idle, Typed, OpTyped, OpRecord
<1>4. ~rebase'.name
  <2>1. rebase \in [name : BOOLEAN, orig : MaybeIds, onto : MaybeIds, todo : Seq(Ids)]
    BY <1>1 DEF Typed, StateTyped
  <2> QED
    BY <1>1, <1>2, <2>1, OpStepsRebase DEF Returning
<1> QED
  BY <1>3, <1>4 DEF Apart, Replayers

\* A step that leaves the branch, the index and the list.
LEMMA Unmoved ==
  ASSUME RebaseInv, [Next]_vars, UNCHANGED <<plan, skipped, stopped, branch, idx>>,
         rebase'.todo = rebase.todo, Listed, Resting
  PROVE  Listed' /\ Resting'
<1>1. Typed /\ Typed' /\ Extends /\ Chained
  BY CommitSteps DEF RebaseInv
<1>2. Agree(Decided, HeadTree', HeadTree) /\ Agree(Decided, idx'.tree, idx.tree)
  BY <1>1, TipHeld DEF Agree
<1> QED
  BY <1>1, <1>2, RestingKept

\* --abort undoes what was replayed.
LEMMA BackReplayed ==
  ASSUME RebaseInv, Step, op.cmd = "abortrebase"
  PROVE  Replayed'
<1>1. [Next]_vars /\ Typed /\ Placed /\ Returning
  BY DEF Next, RebaseInv, Typed, OpTyped
<1> SUFFICES ASSUME Followed' PROVE Replayed'
  BY DEF Replayed
<1>2. Followed
  BY FollowedBefore
<1>3. op'.cmd \in {"abortrebase", "none"}
  BY <1>1, CommandHeld, IdleFields DEF Replayers
<1>4. ~Setting' /\ ~Replaying' /\ ~Ending'
  BY <1>3 DEF Setting, Replaying, Ending, Replayers
<1>5. Reset \/ Move \/ Restore \/ ClearRebase
  BY <1>1 DEF Step, Placed, Checkout, CheckoutRefused, Unmerge, Finish, SetOrigHead, Stop, Seal,
     Record, Clear, StartRebase, Write, Replay, Advance
<1>6. CASE ClearRebase
  <2>1. rebase \in [name : BOOLEAN, orig : MaybeIds, onto : MaybeIds, todo : Seq(Ids)]
    BY <1>1 DEF Typed, StateTyped
  <2>2. ~rebase'.name
    BY <1>1, <1>6, <2>1, OpStepsRebase DEF Returning
  <2> QED
    BY <1>3, <2>2, Unrelated DEF Apart, Replayers
<1>7. CASE Restore
  <2>1. op'.cmd = "abortrebase" /\ op'.pc = "clearname"
    BY <1>1, <1>7, OpStepsTree DEF Went
  <2> QED
    BY <1>4, <2>1 DEF Replayed, Underway
<1>8. CASE Reset \/ Move
  <2>1. UNCHANGED <<rebase, plan, skipped, stopped, idx>> /\ op.pc \in {"reset", "move"}
    BY <1>8 DEF Reset, Move, state, ghosts
  <2>2. branch' = branch \/ (op'.cmd = "abortrebase" /\ op'.pc = "restore")
    BY <1>1, <1>8, MoveSteps DEF Reset, Went
  <2>3. ASSUME Underway' PROVE Listed' /\ Resting'
    <3>1. Underway
      BY <2>1, <2>3 DEF Underway, Setting
    <3>2. Listed /\ Resting
      BY <1>2, <3>1 DEF RebaseInv, Replayed
    <3> QED
      BY <1>1, <2>1, <2>2, <2>3, <3>2, Unmoved DEF Underway
  <2> QED
    BY <1>4, <2>3 DEF Replayed
<1> QED
  BY <1>5, <1>6, <1>7, <1>8

\* A rebase with an empty list clears its state and reports that it is complete.
LEMMA ClearReplayed ==
  ASSUME RebaseInv, ClearRebase, op.cmd \in Replayers
  PROVE  Replayed'
<1>1. [Next]_vars /\ Typed /\ Typed' /\ Extends /\ Placed /\ Returning /\ Chained /\ Exclusive
  BY CommitSteps DEF Next, Step, RebaseInv, Typed, OpTyped
<1> SUFFICES ASSUME Followed' PROVE Replayed'
  BY DEF Replayed
<1>2. Followed /\ UNCHANGED <<plan, skipped, stopped, branch, idx>>
  <2>1. Followed
    BY FollowedBefore DEF Step
  <2> QED
    BY <2>1 DEF ClearRebase, Write, refs, ghosts
<1>3. ~rebase'.name
  <2>1. rebase \in [name : BOOLEAN, orig : MaybeIds, onto : MaybeIds, todo : Seq(Ids)]
    BY <1>1 DEF Typed, StateTyped
  <2> QED
    BY <1>1, <2>1, OpStepsRebase DEF Returning
<1>4. \/ op'.pc \in {"clearorig", "clearonto", "cleartodo"} \/ op'.pc = "idle"
  BY <1>1, OpStepsRebase DEF Went, Idling
<1>5. ~Setting' /\ ~Underway' /\ ~Replaying'
  BY <1>3, <1>4 DEF Setting, Underway, Replaying
<1>6. plan.todo # <<>> /\ HasUpTo(HeadTree, Len(plan.todo))
  <2>1. CASE op.pc = "clearname"
    <3>1. Replaying /\ Underway
      BY <1>1, <2>1 DEF Replaying, Underway, Exclusive, Setting, Replayers
    <3>2. Working /\ Listed /\ Resting
      BY <1>2, <3>1 DEF RebaseInv, Replayed
    <3>3. rebase.todo = <<>>
      BY <2>1, <3>2 DEF Working
    <3>4. Finished = Len(plan.todo)
      BY <1>1, <3>2, <3>3, NextListed
    <3> QED
      BY <3>2, <3>3, <3>4 DEF Resting, Listed
  <2>2. CASE op.pc # "clearname"
    <3>1. Ending
      BY <1>1, <2>2, OpStepsRebase DEF Ending
    <3> QED
      BY <1>2, <3>1 DEF RebaseInv, Replayed
  <2> QED
    BY <2>1, <2>2
<1>7. plan'.todo # <<>> /\ HasUpTo(HeadTree, Len(plan.todo))'
  BY <1>1, <1>2, <1>6, PlanHeld, TipHeld DEF HasUpTo
<1> QED
  BY <1>5, <1>7 DEF Replayed

-----------------------------------------------------------------------------
(* Starting a rebase *)

\* The steps of a rebase that starts.
LEMMA SettingSteps ==
  ASSUME RebaseInv, Step, Setting
  PROVE  StartRebase \/ Checkout \/ CheckoutRefused \/ Reset \/ Move
BY DEF Step, Setting, Unmerge, Restore, Finish, SetOrigHead, Stop, Seal, Record, Clear, ClearRebase, Write,
   Replay, Advance

\* A rebase that starts writes its state, checks out the new base and moves the
\* branch to it (start_rebase): the branch then has what the plan starts from.
LEMMA SettingReplayed ==
  ASSUME RebaseInv, Step, Setting
  PROVE  Replayed'
<1>1. /\ [Next]_vars /\ Typed /\ Typed' /\ Extends /\ Placed /\ Provided /\ Chained /\ Exclusive
      /\ op \in OpRecord /\ rebase \in [name : BOOLEAN, orig : MaybeIds, onto : MaybeIds, todo : Seq(Ids)]
  BY CommitSteps DEF Next, RebaseInv, Typed, OpTyped, StateTyped
<1> SUFFICES ASSUME Followed' PROVE Replayed'
  BY DEF Replayed
<1>2. Followed /\ UNCHANGED plan
  BY FollowedBefore
<1>3. Settled /\ plan.todo # <<>> /\ op.todo # <<>> /\ op.cmd = "rebase"
  BY <1>2 DEF RebaseInv, Replayed, Setting, Settled
<1>4. op.pc # "reset" => op.at \in Ids
  BY <1>1 DEF Setting, Provided, MaybeIds, OpRecord
<1>5. op.pc # "reset" => TreeOf(op.at)' = commits'[op'.at].tree /\ commits'[op.at] = commits[op.at]
  BY <1>1, <1>4 DEF Extends, TreeOf
<1>6. plan.onto \in Ids /\ TreeOf(plan.onto)' = TreeOf(plan.onto)
  BY <1>1, <1>2, <1>3 DEF Chained, Extends, TreeOf
<1>7. CASE StartRebase
  <2>1. /\ UNCHANGED <<idx, stopped>> /\ op'.todo = op.todo /\ Kept /\ op'.cmd = op.cmd
        /\ op'.pc \in {"origfile", "ontofile", "todofile", "base"}
        /\ op'.pc = "base" => rebase' = [rebase EXCEPT !.todo = op.todo]
        /\ op.pc \in {"name", "origfile", "ontofile", "todofile"}
    <3>1. UNCHANGED <<idx, stopped>>
      BY <1>7 DEF StartRebase, Write, ghosts
    <3>2. op'.todo = op.todo
      BY <1>1, <1>3, <1>7, ListHeld, OpStepsRebase, IdleFields DEF Step
    <3> QED
      BY <1>1, <1>7, <3>1, <3>2, OpStepsRebase
  <2>2. Setting' /\ ~Underway' /\ ~Replaying' /\ ~Ending'
    BY <1>3, <2>1 DEF Setting, Underway, Replaying, Ending
  <2>3. op'.pc = "base" => rebase'.todo = plan'.todo
    BY <1>1, <1>2, <1>3, <2>1 DEF Settled
  <2>4. idx'.tree = TreeOf(op.at)'
    BY <1>3, <1>5, <2>1 DEF Settled, Kept, TreeOf
  <2>5. Settled'
    BY <1>2, <1>3, <1>6, <2>1, <2>3, <2>4 DEF Settled, Kept
  <2> QED
    BY <2>2, <2>5 DEF Replayed
<1>8. CASE Checkout
  <2>1. /\ op.pc = "base" /\ op'.pc = "reset" /\ Kept /\ op'.cmd = op.cmd
        /\ idx' = [idx EXCEPT !.tree = Carried(TreeOf(op.at), op.tree)]
        /\ UNCHANGED <<rebase, stopped>>
    BY <1>1, <1>8, OpStepsTree DEF Checkout, state, ghosts, Setting
  <2>2. op'.todo = op.todo
    BY <1>1, <1>8, <2>1, ListHeld, IdleFields DEF Advance
  <2>3. idx.tree = TreeOf(op.at) /\ op.tree = TreeOf(plan.onto)
    BY <1>3, <2>1 DEF Settled
  <2>4. op.tree \in Tree /\ idx.tree \in Tree
    BY <1>1 DEF OpRecord, Typed, StateTyped
  <2>5. Carried(TreeOf(op.at), op.tree) = op.tree
    BY <2>3, <2>4 DEF Carried, Tree
  <2>6. idx'.tree = op.tree
    BY <1>1, <2>1, <2>5 DEF Typed, StateTyped
  <2>7. Settled'
    BY <1>2, <1>3, <1>6, <2>1, <2>2, <2>3, <2>6 DEF Settled, Kept
  <2>8. Setting' /\ ~Underway' /\ ~Replaying' /\ ~Ending'
    BY <1>3, <2>1, <2>2 DEF Setting, Underway, Replaying, Ending
  <2> QED
    BY <2>7, <2>8 DEF Replayed
<1>9. CASE Reset
  <2>1. /\ op.pc = "reset" /\ op'.pc = "move" /\ op'.cmd = op.cmd
        /\ op'.to = op.to /\ op'.tree = op.tree
        /\ UNCHANGED <<rebase, stopped, idx>>
    BY <1>1, <1>9, OpStepsRefs DEF Reset, state, ghosts, Went
  <2>2. op'.todo = op.todo
    BY <1>1, <1>9, <2>1, ListHeld, IdleFields DEF Advance
  <2>3. Settled'
    BY <1>2, <1>3, <1>6, <2>1, <2>2 DEF Settled
  <2>4. Setting' /\ ~Underway' /\ ~Replaying' /\ ~Ending'
    BY <1>3, <2>1, <2>2 DEF Setting, Underway, Replaying, Ending
  <2> QED
    BY <2>3, <2>4 DEF Replayed
<1>10. ASSUME op'.cmd = "failed" PROVE Replayed'
  BY <1>10 DEF Replayed, Setting, Underway, Replaying, Ending, Replayers
<1>11. CASE CheckoutRefused
  <2>1. op.pc = "base"
    BY <1>11 DEF CheckoutRefused, Setting
  <2>2. Goto("clearname", [op EXCEPT !.cmd = "failed"])
    BY <1>3, <1>11, <2>1 DEF CheckoutRefused, Withdraw
  <2>3. op'.cmd = "failed"
    BY <1>1, <2>2 DEF Goto, OpRecord
  <2> QED
    BY <1>10, <2>3
<1>13. CASE Move /\ op'.cmd # "failed"
  <2>1. /\ branch' = op.to /\ Kept /\ op'.cmd = "rebase" /\ op'.pc = "replay" /\ op'.todo = op.todo
        /\ op.pc = "move" /\ UNCHANGED <<rebase, stopped, idx, skipped>>
    BY <1>1, <1>3, <1>13, MoveSteps DEF Went, Move, state, ghosts
  <2>2. HeadTree' = TreeOf(plan.onto)
    BY <1>2, <1>3, <1>6, <2>1 DEF HeadTree, Settled, TreeOf
  <2>3. idx'.tree = TreeOf(plan.onto) /\ rebase'.todo = plan.todo /\ stopped' = 0 /\ op'.todo = plan.todo
    BY <1>3, <2>1 DEF Settled
  <2>4. plan.todo \in Seq(Ids) /\ Len(plan.todo) \in Nat
    BY <1>1 DEF Typed, PlanTyped
  <2>5. Finished' = 0
    BY <1>2, <2>3, <2>4 DEF Finished
  <2>6. PlannedTrees' = PlannedTrees /\ Decided' = Decided
    BY <1>1, <1>2, <1>3, <2>1, PlanHeld
  <2>7. HasUpTo(TreeOf(plan.onto), 0)
    BY <1>1, <1>3, PlanEnds
  <2>8. HasUpTo(HeadTree, Finished)' /\ HasUpTo(idx.tree, Finished)'
    BY <2>2, <2>3, <2>5, <2>6, <2>7 DEF HasUpTo
  <2>9. stopped' \notin ToSet(rebase'.todo)
    BY <2>3, <2>4 DEF ToSet, Ids
  <2>10. Listed'
    <3>1. \A i \in 1 .. Len(plan.todo) : 0 + i = i
      BY <2>4
    <3> QED
      BY <1>2, <1>3, <2>3, <2>4, <2>5, <3>1 DEF Listed
  <2>11. Resting'
    BY <2>8, <2>9 DEF Resting
  <2>12. Working'
    BY <2>1, <2>3, <2>8, <2>9 DEF Working
  <2>13. ~Setting' /\ ~Ending'
    BY <2>1 DEF Setting, Ending
  <2> QED
    BY <2>10, <2>11, <2>12, <2>13 DEF Replayed
<1>14. CASE Move /\ op'.cmd = "failed"
  BY <1>10, <1>14
<1> QED
  BY <1>7, <1>8, <1>9, <1>11, <1>13, <1>14, SettingSteps

-----------------------------------------------------------------------------
(* Replaying *)

\* What a rebase that replays has behind it and before it.
LEMMA ReplayHolds ==
  ASSUME RebaseInv, Followed, Replaying
  PROVE  /\ Underway /\ Listed /\ Resting /\ Working /\ plan.todo # <<>>
         /\ Typed /\ Chained /\ Computed /\ Placed /\ Provided /\ op \in OpRecord
<1>1. Underway
  BY DEF RebaseInv, Exclusive, Replaying, Underway, Setting, Replayers
<1> QED
  BY <1>1 DEF RebaseInv, Replayed, Listed, Typed, OpTyped

\* A command that ends where it is.
LEMMA StopsHere ==
  ASSUME RebaseInv, [Next]_vars, Followed, Replaying, op' = Idle,
         UNCHANGED <<plan, skipped, stopped, branch, idx, rebase>>
  PROVE  Replayed'
<1>1. Listed' /\ Resting'
  BY ReplayHolds, Unmoved
<1>2. ~Setting' /\ ~Replaying' /\ ~Ending'
  BY IdleFields DEF Setting, Replaying, Ending, Replayers
<1> QED
  BY <1>1, <1>2 DEF Replayed

\* Sealing the index takes what it has, which is what the commit adds.
LEMMA SealReplayed ==
  ASSUME RebaseInv, Seal, Followed, Replaying
  PROVE  Replayed'
<1>1. /\ [Next]_vars /\ Typed /\ Typed' /\ Extends /\ Chained /\ Listed /\ Resting /\ Working
      /\ plan.todo # <<>>
  BY ReplayHolds, CommitSteps DEF Next, Step
<1>2. /\ UNCHANGED <<plan, skipped, stopped, branch, idx, rebase>>
      /\ op.pc = "seal" /\ op'.pc = "record" /\ op'.cmd = op.cmd /\ op'.of = op.of /\ op'.tree = op.tree
  BY <1>1, OpStepsRefs DEF Seal, refs, state, ghosts, Went
<1>3. op'.todo = op.todo
  BY <1>1, <1>2, ListHeld, IdleFields DEF Advance, Step
<1>4. Listed' /\ Resting'
  BY <1>1, <1>2, Unmoved
<1>5. PlannedTrees' = PlannedTrees /\ Decided' = Decided /\ Finished' = Finished
  BY <1>1, <1>2, PlanHeld DEF Finished
<1>6. Working'
  BY <1>1, <1>2, <1>3, <1>5 DEF Working, HasUpTo
<1>7. ~Setting' /\ ~Ending'
  BY <1>2 DEF Setting, Ending, Replaying, Replayers
<1> QED
  BY <1>4, <1>6, <1>7 DEF Replayed

\* The checkout changes the paths that the commit changes.
LEMMA CheckoutReplayed ==
  ASSUME RebaseInv, Checkout, Followed, Replaying
  PROVE  Replayed'
<1>1. /\ [Next]_vars /\ Typed /\ Typed' /\ Extends /\ Chained /\ Listed /\ Resting /\ Working
      /\ plan.todo # <<>> /\ Placed /\ Provided /\ op \in OpRecord
  BY ReplayHolds, CommitSteps DEF Next, Step
<1>2. /\ UNCHANGED <<plan, skipped, stopped, branch, rebase>>
      /\ idx' = [idx EXCEPT !.tree = Carried(TreeOf(op.at), op.tree)]
      /\ op'.cmd = op.cmd /\ Kept
  BY <1>1, OpStepsTree DEF Checkout, refs, state, ghosts
<1>3. /\ op.cmd = "rebase"
      /\ \/ op.pc = "materialise" /\ op'.pc = "unmerge"
         \/ op.pc = "checkout" /\ op'.pc = "seal"
  BY <1>1, OpStepsTree DEF Placed, Replaying, Replayers
<1>4. op'.todo = op.todo
  BY <1>1, <1>3, ListHeld, IdleFields DEF Advance, Step
<1>5. PlannedTrees' = PlannedTrees /\ Decided' = Decided /\ Finished' = Finished
  BY <1>1, <1>2, PlanHeld DEF Finished
<1>6. op.at \in Ids /\ TreeOf(op.at)' = TreeOf(op.at)
  BY <1>1, <1>2, <1>3 DEF Provided, MaybeIds, OpRecord, Extends, TreeOf, Kept
<1>7. idx'.tree = Carried(TreeOf(op.at), op.tree) /\ idx'.unmerged = idx.unmerged
  BY <1>1, <1>2 DEF Typed, StateTyped
<1>8. /\ op.todo = rebase.todo /\ stopped \notin ToSet(op.todo) /\ op.of = op.todo[1]
      /\ HasUpTo(op.tree, Finished + 1) /\ HasUpTo(TreeOf(op.at), Finished) /\ HasUpTo(idx.tree, Finished)
  BY <1>1, <1>3 DEF Working
<1>9. HasUpTo(Carried(TreeOf(op.at), op.tree), Finished + 1)
  <2>1. ASSUME NEW p \in Decided
        PROVE  Carried(TreeOf(op.at), op.tree)[p] = PlannedTrees[Finished + 1][p]
    <3>1. p \in Paths
      BY DEF Decided
    <3>2. /\ op.tree[p] = PlannedTrees[Finished + 1][p] /\ TreeOf(op.at)[p] = PlannedTrees[Finished][p]
          /\ idx.tree[p] = PlannedTrees[Finished][p]
      BY <1>8 DEF HasUpTo, Agree
    <3> QED
      BY <3>1, <3>2 DEF Carried
  <2> QED
    BY <2>1 DEF HasUpTo, Agree
<1>10. HasUpTo(idx.tree, Finished + 1)' /\ HasUpTo(op.tree, Finished + 1)' /\ HasUpTo(TreeOf(op.at), Finished)'
  BY <1>2, <1>5, <1>6, <1>7, <1>8, <1>9 DEF HasUpTo, Kept
<1>11. Working'
  BY <1>2, <1>3, <1>4, <1>8, <1>10 DEF Working, Kept
<1>12. Listed' /\ Resting'
  <2>1. Agree(Decided, HeadTree', HeadTree)
    BY <1>1, <1>2, TipHeld DEF Agree
  <2> QED
    BY <1>1, <1>2, <1>8, <2>1, RestingKept
<1>13. ~Setting' /\ ~Ending'
  BY <1>2, <1>3 DEF Setting, Ending
<1> QED
  BY <1>11, <1>12, <1>13 DEF Replayed

\* The conflicts are at paths that the rebase does not decide.
LEMMA UnmergeReplayed ==
  ASSUME RebaseInv, Unmerge, Followed, Replaying
  PROVE  Replayed'
<1>1. /\ [Next]_vars /\ Typed /\ Typed' /\ Extends /\ Chained /\ Listed /\ Resting /\ Working
      /\ plan.todo # <<>> /\ Placed /\ Provided /\ op \in OpRecord /\ Computed
  BY ReplayHolds, CommitSteps DEF Next, Step
<1>2. op.pc = "unmerge" /\ op.cmd = "rebase"
  BY <1>1 DEF Unmerge, Placed, Replaying, Replayers
<1>3. op.base = ParentTree(op.of) /\ op.at \in Ids
  BY <1>1, <1>2 DEF Computed, Result, BaseRead, Provided, MaybeIds, OpRecord
<1> DEFINE cs == Conflicts(op.base, TreeOf(op.at), TreeOf(op.of))
<1>4. /\ UNCHANGED <<plan, skipped, branch, rebase>> /\ op' = Idle /\ stopped' = op.of
      /\ idx' = [tree |-> [p \in Paths |-> IF p \in cs THEN {} ELSE idx.tree[p]], unmerged |-> cs]
  BY <1>2 DEF Unmerge, refs, state, Return
<1>5. /\ op.todo = rebase.todo /\ op.of = op.todo[1] /\ rebase.todo # <<>>
      /\ HasUpTo(TreeOf(op.at), Finished) /\ HasUpTo(idx.tree, Finished + 1)
  BY <1>1, <1>2 DEF Working, Provided
<1>6. /\ Finished \in 0 .. Len(plan.todo) - 1 /\ op.of = plan.todo[Finished + 1]
      /\ op.of \in ToSet(rebase.todo)
  BY <1>1, <1>5, NextListed
<1>7. cs \cap Decided = {}
  <2>1. TreeOf(op.at) \in Tree
    BY <1>1, <1>3, TreesTyped DEF Typed
  <2> QED
    BY <1>1, <1>3, <1>5, <1>6, <2>1, NextApplies
<1> HIDE DEF cs
<1>8. HasUpTo(idx'.tree, Finished + 1)
  <2>1. \A p \in Decided : p \in Paths /\ p \notin cs
    BY <1>7 DEF Decided
  <2> QED
    BY <1>4, <1>5, <2>1 DEF HasUpTo, Agree
<1>9. /\ PlannedTrees' = PlannedTrees /\ Decided' = Decided /\ Finished' = Finished
      /\ HeadTree' = HeadTree
  BY <1>1, <1>4, PlanHeld, TipHeld DEF Finished
<1>10. Listed'
  BY <1>1, <1>4, <1>9 DEF Listed
<1>11. Resting'
  <2>1. HasUpTo(HeadTree, Finished)' \/ HasUpTo(HeadTree, Finished + 1)'
    BY <1>1, <1>9 DEF Resting, HasUpTo
  <2>2. HasUpTo(idx.tree, Finished + 1)' /\ idx'.unmerged \cap Decided' = {}
    BY <1>4, <1>7, <1>8, <1>9 DEF HasUpTo
  <2> QED
    BY <1>4, <1>5, <2>1, <2>2 DEF Resting
<1>12. ~Setting' /\ ~Replaying' /\ ~Ending'
  BY <1>4, IdleFields DEF Setting, Replaying, Ending, Replayers
<1> QED
  BY <1>10, <1>11, <1>12 DEF Replayed

\* --skip goes back to what the branch has.
LEMMA RestoreReplayed ==
  ASSUME RebaseInv, Restore, Followed, Replaying
  PROVE  Replayed'
<1>1. /\ [Next]_vars /\ Typed /\ Typed' /\ Extends /\ Chained /\ Listed /\ Resting /\ Working
      /\ plan.todo # <<>> /\ Placed /\ Provided /\ op \in OpRecord
  BY ReplayHolds, CommitSteps DEF Next, Step
<1>2. /\ op.pc = "restore" /\ op.cmd = "skip" /\ op'.cmd = "skip" /\ op'.pc = "advance"
  BY <1>1, OpStepsTree DEF Went, Replaying, Replayers
<1>3. op'.todo = op.todo
  BY <1>1, <1>2, ListHeld, IdleFields DEF Advance, Step
<1>4. /\ UNCHANGED <<plan, skipped, branch, rebase>> /\ stopped' = 0
      /\ idx' = [tree |-> HeadTree, unmerged |-> {}]
  BY <1>2 DEF Restore, refs, state
<1>5. /\ PlannedTrees' = PlannedTrees /\ Decided' = Decided /\ Finished' = Finished
      /\ HeadTree' = HeadTree
  BY <1>1, <1>4, PlanHeld, TipHeld DEF Finished
<1>6. Listed'
  BY <1>1, <1>4, <1>5 DEF Listed
<1>7. stopped' \notin ToSet(rebase'.todo)
  <2>1. rebase.todo \in Seq(Ids)
    BY <1>1 DEF Typed, StateTyped
  <2> QED
    BY <1>4, <2>1 DEF ToSet, Ids
<1>8. Resting'
  BY <1>1, <1>4, <1>5, <1>7 DEF Resting, HasUpTo
<1>9. Working'
  <2>1. Agree(Decided, idx.tree, HeadTree)'
    BY <1>4, <1>5 DEF Agree
  <2>2. op'.todo = rebase'.todo
    BY <1>1, <1>3, <1>4 DEF Working
  <2> QED
    BY <1>2, <1>4, <2>1, <2>2 DEF Working
<1>10. ~Setting' /\ ~Ending'
  BY <1>2 DEF Setting, Ending
<1> QED
  BY <1>6, <1>8, <1>9, <1>10 DEF Replayed

\* The new commit has the sealed tree, so the branch has what the commit adds.
LEMMA RecordReplayed ==
  ASSUME RebaseInv, Record, Followed, Replaying
  PROVE  Replayed'
<1>1. /\ [Next]_vars /\ Typed /\ Typed' /\ Extends /\ Chained /\ Listed /\ Resting /\ Working
      /\ plan.todo # <<>> /\ Placed /\ Provided /\ op \in OpRecord
      /\ branch = op.at => Made(op.tree, op.at, op.cmd, op.of)
  BY ReplayHolds, CommitSteps DEF Next, Step
<1>2. op.pc = "record" /\ op.cmd \in {"rebase", "resolved"}
  BY <1>1 DEF Record, Placed, Replaying, Replayers
<1>3. UNCHANGED <<plan, skipped, stopped, idx, rebase>>
  BY DEF Record, state, ghosts
<1>4. CASE branch # op.at
  <2>1. op' = Idle /\ branch' = branch
    BY <1>4 DEF Record, Return
  <2> QED
    BY <1>1, <1>3, <2>1, StopsHere
<1>5. CASE branch = op.at
  <2>1. Goto("advance", op)
    BY <1>2, <1>5 DEF Record
  <2>2. op'.pc = "advance" /\ op'.cmd = op.cmd /\ op'.todo = op.todo
    BY <1>1, <2>1, GotoAt DEF Points
  <2>3. HeadTree' = op.tree
    BY <1>1, <1>5 DEF Made, HeadTree, TreeOf
  <2>4. PlannedTrees' = PlannedTrees /\ Decided' = Decided /\ Finished' = Finished
    BY <1>1, <1>3, PlanHeld DEF Finished
  <2>5. op.todo = rebase.todo /\ op.todo # <<>> /\ HasUpTo(op.tree, Finished + 1)
    BY <1>1, <1>2 DEF Working, Provided
  <2>6. HasUpTo(idx.tree, Finished + 1)
    <3>1. CASE op.cmd = "rebase"
      BY <1>1, <1>2, <3>1 DEF Working
    <3>2. CASE op.cmd = "resolved"
      <4>1. stopped = rebase.todo[1]
        BY <1>1, <1>2, <2>5, <3>2 DEF Working
      <4>2. stopped \in ToSet(rebase.todo)
        BY <1>1, <2>5, <4>1, NextListed
      <4> QED
        BY <1>1, <4>2 DEF Resting
    <3> QED
      BY <1>2, <3>1, <3>2
  <2>7. HasUpTo(HeadTree, Finished + 1)' /\ HasUpTo(idx.tree, Finished + 1)'
    BY <1>3, <2>3, <2>4, <2>5, <2>6 DEF HasUpTo
  <2>8. Listed'
    BY <1>1, <1>3, <2>4 DEF Listed
  <2>9. Resting'
    BY <1>1, <1>3, <2>4, <2>5, <2>7 DEF Resting
  <2>10. Working'
    BY <1>2, <1>3, <2>2, <2>5, <2>7 DEF Working
  <2>11. ~Setting' /\ ~Ending'
    BY <1>2, <2>2 DEF Setting, Ending
  <2> QED
    BY <2>8, <2>9, <2>10, <2>11 DEF Replayed
<1> QED
  BY <1>4, <1>5

\* What replay does with the first commit of the list.
LEMMA ReplaySteps ==
  ASSUME Typed, Replay, NEW c, NEW base, NEW tree, op.todo # <<>>,
         c = op.todo[1], base = ParentTree(c), tree = Merged(base, HeadTree, TreeOf(c))
  PROVE  /\ op'.cmd = "rebase" /\ op'.of = c /\ op'.at = branch /\ op'.tree = tree
         /\ op'.todo = op.todo
         /\ \/ tree = HeadTree /\ op'.pc \in {"seal", "advance"}
            \/ op'.pc \in {"materialise", "checkout"}
<1> op \in OpRecord
  BY DEF Typed, OpTyped
<1>1. PICK o : o = [op EXCEPT !.cmd = "rebase", !.of = c, !.at = branch, !.tree = tree, !.base = base]
  OBVIOUS
<1>2. \E pc : /\ Goto(pc, o)
              /\ \/ tree = HeadTree /\ pc \in {"seal", "advance"}
                 \/ pc \in {"materialise", "checkout"}
  <2>1. CASE tree = HeadTree
    BY <1>1, <2>1 DEF Replay
  <2>2. CASE tree # HeadTree
    BY <1>1, <2>2 DEF Replay
  <2> QED
    BY <2>1, <2>2
<1>3. /\ o.cmd = "rebase" /\ o.of = c /\ o.at = branch /\ o.tree = tree /\ o.todo = op.todo
      /\ DOMAIN o = DOMAIN op
  BY <1>1 DEF OpRecord
<1> QED
  BY <1>2, <1>3 DEF Goto, OpRecord

\* The first commit of the list applies to what the branch has (NextApplies).
LEMMA ReplayReplayed ==
  ASSUME RebaseInv, Replay, Followed, Replaying
  PROVE  Replayed'
<1>1. /\ [Next]_vars /\ Typed /\ Typed' /\ Extends /\ Chained /\ Listed /\ Resting /\ Working
      /\ plan.todo # <<>> /\ Placed /\ Provided /\ op \in OpRecord
  BY ReplayHolds, CommitSteps DEF Next, Step
<1>2. UNCHANGED <<plan, skipped, stopped, branch, idx, rebase>> /\ op.pc = "replay"
  BY DEF Replay, refs, state, ghosts
<1>3. Listed' /\ Resting'
  BY <1>1, <1>2, Unmoved
<1>4. /\ PlannedTrees' = PlannedTrees /\ Decided' = Decided /\ Finished' = Finished
      /\ HeadTree' = HeadTree
  BY <1>1, <1>2, PlanHeld, TipHeld DEF Finished
<1>5. CASE op.todo = <<>>
  <2>1. Goto("clearname", op)
    BY <1>5 DEF Replay
  <2>2. op'.pc = "clearname" /\ op'.todo = op.todo
    BY <1>1, <2>1, GotoAt DEF Points
  <2>3. Working' /\ ~Setting' /\ ~Ending'
    <3>1. op'.cmd \in Replayers
      BY <1>1, <2>1, GotoAt DEF Points, Replaying
    <3>2. op'.todo = rebase'.todo
      BY <1>1, <1>2, <2>2 DEF Working
    <3> QED
      BY <1>5, <2>2, <3>1, <3>2 DEF Working, Setting, Ending, Replayers
  <2> QED
    BY <1>3, <2>3 DEF Replayed
<1>6. CASE op.todo # <<>>
  <2> DEFINE c == op.todo[1]
             tree == Merged(ParentTree(c), HeadTree, TreeOf(c))
  <2>1. /\ op'.cmd = "rebase" /\ op'.of = c /\ op'.at = branch /\ op'.tree = tree
        /\ op'.todo = op.todo
        /\ \/ tree = HeadTree /\ op'.pc \in {"seal", "advance"}
           \/ op'.pc \in {"materialise", "checkout"}
    BY <1>1, <1>6, ReplaySteps
  <2>2. /\ op.todo = rebase.todo /\ HasUpTo(HeadTree, Finished) /\ HasUpTo(idx.tree, Finished)
        /\ stopped \notin ToSet(op.todo)
    BY <1>1, <1>2, <1>6 DEF Working
  <2>3. Finished \in 0 .. Len(plan.todo) - 1 /\ c = plan.todo[Finished + 1]
    BY <1>1, <1>6, <2>2, NextListed
  <2>4. HeadTree \in Tree
    BY <1>1, TreesTyped DEF Typed, StateTyped, HeadTree
  <2>5. HasUpTo(tree, Finished + 1)
    BY <1>1, <2>2, <2>3, <2>4, NextApplies
  <2> HIDE DEF c, tree
  <2>6. tree = HeadTree => HasUpTo(idx.tree, Finished + 1)
    BY <2>2, <2>5 DEF HasUpTo, Agree
  <2>7. TreeOf(op.at)' = HeadTree
    BY <1>4, <2>1, <1>2 DEF HeadTree, TreeOf
  <2>8. /\ HasUpTo(op.tree, Finished + 1)' /\ HasUpTo(TreeOf(op.at), Finished)'
        /\ HasUpTo(idx.tree, Finished)' /\ HasUpTo(HeadTree, Finished)'
        /\ tree = HeadTree => HasUpTo(idx.tree, Finished + 1)' /\ HasUpTo(HeadTree, Finished + 1)'
    BY <1>2, <1>4, <2>1, <2>2, <2>5, <2>6, <2>7 DEF HasUpTo
  <2>9. Working'
    <3>1. op'.of = op'.todo[1] /\ op'.todo = rebase'.todo /\ stopped' \notin ToSet(op'.todo)
      BY <1>2, <2>1, <2>2 DEF c
    <3> QED
      BY <2>1, <2>8, <3>1 DEF Working
  <2>10. ~Setting' /\ ~Ending'
    BY <2>1 DEF Setting, Ending
  <2> QED
    BY <1>3, <2>9, <2>10 DEF Replayed
<1> QED
  BY <1>5, <1>6

\* A commit is struck off the list once the branch has it, or once a user who
\* drops it has given up what it changes.
LEMMA AdvanceHolds ==
  ASSUME RebaseInv, Advance, Followed, Replaying
  PROVE  /\ Decided' \subseteq Decided /\ PlannedTrees' = PlannedTrees
         /\ Agree(Decided', HeadTree, PlannedTrees[Finished + 1])
         /\ Agree(Decided', idx.tree, PlannedTrees[Finished + 1])
<1>1. /\ [Next]_vars /\ Typed /\ Typed' /\ Extends /\ Chained /\ Listed /\ Resting /\ Working
      /\ plan.todo # <<>> /\ Placed /\ Provided /\ op \in OpRecord
  BY ReplayHolds, CommitSteps DEF Next, Step
<1>2. op.pc = "advance" /\ op.cmd \in Replayers /\ op.todo # <<>> /\ op.todo = rebase.todo
  BY <1>1 DEF Advance, Replaying, Provided, Working, Replayers
<1> DEFINE c == op.todo[1]
           tree == Merged(ParentTree(c), HeadTree, TreeOf(c))
<1>3. Finished \in 0 .. Len(plan.todo) - 1 /\ c = plan.todo[Finished + 1] /\ c \in Ids
  BY <1>1, <1>2, NextListed
<1>4. skipped' = IF op.cmd = "skip" /\ tree # HeadTree THEN skipped \cup {c} ELSE skipped
  BY DEF Advance
<1>5. /\ Decided' \subseteq Decided /\ PlannedTrees' = PlannedTrees
      /\ \A p \in Decided' : \A d \in skipped' \cap Ids : p \notin Touches(d)
  <2>1. UNCHANGED plan /\ skipped \subseteq skipped'
    BY <1>4 DEF Advance
  <2> QED
    BY <1>1, <2>1, PlanStays
<1>6. \A tr, other : Agree(Decided, tr, other) => Agree(Decided', tr, other)
  BY <1>5 DEF Agree
<1>7. CASE op.cmd # "skip"
  <2>1. HasUpTo(HeadTree, Finished + 1) /\ HasUpTo(idx.tree, Finished + 1)
    BY <1>1, <1>2, <1>7 DEF Working, Replayers
  <2> QED
    BY <1>5, <1>6, <2>1 DEF HasUpTo
<1>8. CASE op.cmd = "skip"
  <2>1. Agree(Decided', idx.tree, HeadTree)
    BY <1>1, <1>2, <1>6, <1>8 DEF Working
  <2>2. Agree(Decided', HeadTree, PlannedTrees[Finished + 1])
    <3>1. CASE HasUpTo(HeadTree, Finished + 1)
      BY <1>6, <3>1 DEF HasUpTo
    <3>2. CASE HasUpTo(HeadTree, Finished) /\ tree = HeadTree
      <4>1. HeadTree \in Tree
        BY <1>1, TreesTyped DEF Typed, StateTyped, HeadTree
      <4>2. HasUpTo(tree, Finished + 1)
        BY <1>1, <1>3, <3>2, <4>1, NextApplies
      <4> HIDE DEF tree
      <4> QED
        BY <1>6, <3>2, <4>2 DEF HasUpTo
    <3>3. CASE HasUpTo(HeadTree, Finished) /\ tree # HeadTree
      <4>1. c \in skipped' \cap Ids
        BY <1>3, <1>4, <1>8, <3>3
      <4>2. ASSUME NEW p \in Decided'
            PROVE  HeadTree[p] = PlannedTrees[Finished + 1][p]
        <5>1. p \in Decided /\ p \in Paths /\ p \notin Touches(c)
          BY <1>5, <4>1 DEF Decided
        <5>2. PlannedTrees[Finished + 1][p] = PlannedTrees[Finished][p]
          BY <1>1, <1>3, <5>1, NextUntouched
        <5> QED
          BY <3>3, <5>1, <5>2 DEF HasUpTo, Agree
      <4> QED
        BY <4>2 DEF Agree
    <3> QED
      BY <1>1, <3>1, <3>2, <3>3 DEF Resting
  <2> QED
    BY <1>5, <2>1, <2>2 DEF Agree
<1> QED
  BY <1>7, <1>8

\* Striking it off the list leaves the next one to apply.
LEMMA AdvanceReplayed ==
  ASSUME RebaseInv, Advance, Followed, Replaying
  PROVE  Replayed'
<1>1. /\ [Next]_vars /\ Typed /\ Typed' /\ Extends /\ Chained /\ Listed /\ Resting /\ Working
      /\ plan.todo # <<>> /\ Placed /\ Provided /\ op \in OpRecord
  BY ReplayHolds, CommitSteps DEF Next, Step
<1>2. op.pc = "advance" /\ op.cmd \in Replayers /\ op.todo # <<>> /\ op.todo = rebase.todo
  BY <1>1 DEF Advance, Replaying, Provided, Working, Replayers
<1>3. UNCHANGED <<plan, stopped, branch, idx>>
  BY DEF Advance, refs
<1> DEFINE rest == Tail(rebase.todo)
<1>4. op'.pc = "replay" /\ op'.cmd = op.cmd /\ op'.todo = rest
  BY <1>1, <1>2 DEF Advance, Goto, OpRecord
<1>5. rebase'.todo = rest
  BY <1>1, <1>2 DEF Advance, Typed, StateTyped
<1>6. /\ Finished \in 0 .. Len(plan.todo) - 1 /\ Len(plan.todo) \in Nat /\ Len(rebase.todo) \in Nat
      /\ rebase.todo[1] \notin ToSet(rest) /\ ToSet(rest) \subseteq ToSet(rebase.todo)
      /\ Len(rest) = Len(rebase.todo) - 1
      /\ \A i \in 1 .. Len(rest) : rest[i] = plan.todo[(Finished + 1) + i]
  BY <1>1, <1>2, NextListed
<1> HIDE DEF rest
<1>7. Finished' = Finished + 1
  BY <1>3, <1>5, <1>6 DEF Finished
<1>8. HeadTree' = HeadTree
  BY <1>1, <1>3, TipHeld
<1>9. HasUpTo(HeadTree, Finished)' /\ HasUpTo(idx.tree, Finished)'
  BY <1>3, <1>7, <1>8, AdvanceHolds DEF HasUpTo
<1>10. stopped' \notin ToSet(rest)
  BY <1>1, <1>3, <1>6 DEF Resting
<1>11. Listed'
  <2>1. Len(rest) <= Len(plan.todo)
    BY <1>1, <1>6 DEF Listed
  <2> QED
    BY <1>1, <1>3, <1>5, <1>6, <1>7, <2>1 DEF Listed
<1>12. Resting'
  BY <1>5, <1>9, <1>10 DEF Resting
<1>13. Working'
  BY <1>4, <1>5, <1>9, <1>10 DEF Working
<1>14. ~Setting' /\ ~Ending'
  BY <1>2, <1>4 DEF Setting, Ending, Replayers
<1> QED
  BY <1>11, <1>12, <1>13, <1>14 DEF Replayed

-----------------------------------------------------------------------------
(* All together *)

\* Every step of a rebase that replays.
LEMMA ReplayingReplayed ==
  ASSUME RebaseInv, Step, Replaying
  PROVE  Replayed'
<1> SUFFICES ASSUME Followed' PROVE Replayed'
  BY DEF Replayed
<1>1. Followed /\ [Next]_vars
  BY FollowedBefore DEF Next
<1>2. op.cmd \in Replayers /\ Placed
  BY DEF Replaying, RebaseInv, Typed, OpTyped
<1>3. \/ Checkout \/ CheckoutRefused \/ Unmerge \/ Restore \/ Seal \/ Record \/ Replay \/ Advance
      \/ ClearRebase
  BY DEF Step, Replaying, Finish, SetOrigHead, Stop, Reset, Move, Clear, StartRebase, Write
<1>4. CASE CheckoutRefused
  <2>1. op.pc \notin {"base", "move"}
    BY <1>4 DEF CheckoutRefused, Replaying
  <2>2. op' = Idle /\ UNCHANGED <<plan, skipped, stopped, branch, idx, rebase>>
    BY <1>4, <2>1 DEF CheckoutRefused, Withdraw, Return, refs, state, ghosts
  <2> QED
    BY <1>1, <2>2, StopsHere
<1> QED
  BY <1>1, <1>2, <1>3, <1>4, CheckoutReplayed, UnmergeReplayed, RestoreReplayed, SealReplayed,
     RecordReplayed, ReplayReplayed, AdvanceReplayed, ClearReplayed

\* Every step.
LEMMA ReplayedKept ==
  ASSUME RebaseInv, [Next]_vars
  PROVE  Replayed'
<1> Placed /\ Exclusive
  BY DEF RebaseInv, Typed, OpTyped
<1>1. CASE Step
  <2>1. \/ op.cmd \in Others \/ op.cmd = "failed" \/ op.cmd = "abortrebase" \/ Setting \/ Replaying
        \/ op.cmd = "rebase" /\ op.pc \in {"base", "reset", "move"} /\ op.todo = <<>>
        \/ op.cmd \in Replayers /\ op.pc \in {"clearorig", "clearonto", "cleartodo"}
        \/ op.pc = "idle"
    BY DEF Placed, Others, Setting, Replaying, Replayers, Exclusive
  <2>2. op.pc # "idle"
    BY <1>1 DEF Step, Checkout, CheckoutRefused, Unmerge, Restore, Finish, SetOrigHead, Stop, Seal, Record,
       Reset, Move, Clear, StartRebase, ClearRebase, Write, Replay, Advance
  <2>3. CASE op.cmd \in Replayers /\ op.pc \in {"clearorig", "clearonto", "cleartodo"}
    <3>1. ClearRebase
      BY <1>1, <2>3 DEF Step, Checkout, CheckoutRefused, Unmerge, Restore, Finish, SetOrigHead, Stop, Seal,
         Record, Reset, Move, Clear, StartRebase, Write, Replay, Advance
    <3> QED
      BY <2>3, <3>1, ClearReplayed
  <2> QED
    BY <1>1, <2>1, <2>2, <2>3, OtherApart, FailedApart, Unrelated, BackReplayed, SettingReplayed,
       ReplayingReplayed
<1> QED
  BY <1>1, StartReplayed, AbortReplayed, UserReplayed, KillReplayed, OutsideReplayed DEF Next

-----------------------------------------------------------------------------
(* Every commit is accounted for *)

\* A commit that the branch accounts for stays so when the branch goes on.
LEMMA AccountedStays ==
  ASSUME Typed, Typed', Extends, UNCHANGED plan, plan.onto \in Ids, skipped \subseteq skipped',
         Reach[branch] \subseteq Reach'[branch'], NEW c \in Ids, Accounted(c)
  PROVE  Accounted(c)'
<1>1. /\ Reach[branch] \subseteq Ids
      /\ \A i \in Ids : /\ commits'[i] = commits[i] /\ TreeOf(i)' = TreeOf(i)
                        /\ ParentTree(i)' = ParentTree(i) /\ Reach'[i] = Reach[i]
  BY HistoryTyped, HistoryKept DEF Typed, StateTyped
<1>2. \A i \in Rewritten : i \in Ids /\ i \in Rewritten'
  BY <1>1 DEF Rewritten, IsAncestor
<1>3. Touches(c)' = Touches(c)
  BY <1>1 DEF Touches
<1>4. CASE Has(c)
  <2>1. PICK i \in Rewritten :
          \/ commits[i].how \in {"rebase", "resolved"} /\ commits[i].of = c
          \/ \A p \in Touches(c) : TreeOf(i)[p] = TreeOf(c)[p]
    BY <1>4 DEF Has
  <2>2. /\ i \in Rewritten' /\ commits'[i] = commits[i]
        /\ TreeOf(i)' = TreeOf(i) /\ TreeOf(c)' = TreeOf(c)
    BY <1>1, <1>2, <2>1
  <2>3. Has(c)'
    BY <1>3, <2>1, <2>2 DEF Has
  <2> QED
    BY <2>3 DEF Accounted
<1>5. CASE KeepsOurs(c)
  <2>1. PICK i \in Rewritten :
          /\ Conflicts(ParentTree(c), TreeOf(i), TreeOf(c)) # {}
          /\ Merged(ParentTree(c), TreeOf(i), TreeOf(c)) = TreeOf(i)
    BY <1>5 DEF KeepsOurs
  <2>2. /\ i \in Rewritten' /\ TreeOf(i)' = TreeOf(i)
        /\ TreeOf(c)' = TreeOf(c) /\ ParentTree(c)' = ParentTree(c)
    BY <1>1, <1>2, <2>1
  <2>3. KeepsOurs(c)'
    BY <2>1, <2>2 DEF KeepsOurs
  <2> QED
    BY <2>3 DEF Accounted
<1> QED
  BY <1>4, <1>5 DEF Accounted

\* The plan of a rebase that is under way or that has ended.
LEMMA PlanGiven ==
  ASSUME Typed, Chained, plan.todo # <<>>
  PROVE  plan.onto \in Ids /\ ToSet(plan.todo) \subseteq Ids
BY DEF Chained, Typed, PlanTyped, ToSet

\* A set of commits that the branch accounts for.
LEMMA AllOfStays ==
  ASSUME Typed, Typed', Extends, UNCHANGED plan, plan.onto \in Ids, skipped \subseteq skipped',
         Reach[branch] \subseteq Reach'[branch'], NEW cs \in SUBSET Ids, AllOf(cs)
  PROVE  AllOf(cs)'
<1>1. \A c \in cs : Accounted(c)'
  BY AccountedStays DEF AllOf
<1>2. IsAncestor(plan.onto, branch)'
  BY DEF AllOf, IsAncestor
<1> QED
  BY <1>1, <1>2 DEF AllOf

\* A commit whose merge with the branch is what the branch has changes nothing,
\* or conflicts and keeps our side.
LEMMA NothingNew ==
  ASSUME Typed, IsAncestor(plan.onto, branch), NEW c \in Ids,
         Merged(ParentTree(c), HeadTree, TreeOf(c)) = HeadTree
  PROVE  Accounted(c)
<1>1. branch \in Rewritten
  BY HistoryTyped DEF Typed, StateTyped, Rewritten
<1>2. CASE Conflicts(ParentTree(c), HeadTree, TreeOf(c)) # {}
  BY <1>1, <1>2 DEF KeepsOurs, HeadTree, Accounted
<1>3. CASE Conflicts(ParentTree(c), HeadTree, TreeOf(c)) = {}
  <2>1. ASSUME NEW p \in Touches(c) PROVE HeadTree[p] = TreeOf(c)[p]
    <3>1. p \in Paths /\ TreeOf(c)[p] # ParentTree(c)[p]
      BY DEF Touches
    <3>2. p \notin Conflicts(ParentTree(c), HeadTree, TreeOf(c))
      BY <1>3
    <3>3. Merged(ParentTree(c), HeadTree, TreeOf(c))[p] = TreeOf(c)[p]
      BY <3>1, <3>2 DEF Merged
    <3> QED
      BY <3>3
  <2> QED
    BY <1>1, <2>1 DEF Has, HeadTree, Accounted
<1> QED
  BY <1>2, <1>3

\* A step that leaves the list and does not leave the branch.
LEMMA CountStays ==
  ASSUME RebaseInv, Counted, [Next]_vars, Followed, UNCHANGED plan, skipped \subseteq skipped',
         Underway' \/ Ending' => Reach[branch] \subseteq Reach'[branch'],
         Underway' => Underway /\ rebase'.todo = rebase.todo, Ending' => Ending
  PROVE  (Underway' => AllOf(Struck)') /\ (Ending' => AllOf(ToSet(plan.todo))')
<1>1. Typed /\ Typed' /\ Extends /\ Chained
  BY CommitSteps DEF RebaseInv
<1>2. ASSUME NEW cs, cs \subseteq ToSet(plan.todo), plan.todo # <<>>, AllOf(cs),
             Reach[branch] \subseteq Reach'[branch']
      PROVE  AllOf(cs)'
  BY <1>1, <1>2, PlanGiven, AllOfStays
<1>3. ASSUME Underway' PROVE AllOf(Struck)'
  <2>1. AllOf(Struck) /\ Listed /\ Reach[branch] \subseteq Reach'[branch'] /\ Struck' = Struck
    BY <1>3 DEF Counted, RebaseInv, Replayed, Struck
  <2>2. PICK cs : cs = Struck
    OBVIOUS
  <2>3. AllOf(cs)'
    BY <1>2, <2>1, <2>2 DEF Listed, Struck
  <2> QED
    BY <2>1, <2>2, <2>3 DEF AllOf
<1>4. ASSUME Ending' PROVE AllOf(ToSet(plan.todo))'
  <2>1. AllOf(ToSet(plan.todo)) /\ plan.todo # <<>> /\ Reach[branch] \subseteq Reach'[branch']
    BY <1>4 DEF Counted, RebaseInv, Replayed
  <2>2. PICK cs : cs = ToSet(plan.todo)
    OBVIOUS
  <2>3. AllOf(cs)'
    BY <1>2, <2>1, <2>2
  <2> QED
    BY <2>2, <2>3 DEF AllOf
<1> QED
  BY <1>3, <1>4

\* A branch that does not move, and one that another writer extends.
LEMMA BranchStays ==
  ASSUME Typed, [Next]_vars, UNCHANGED branch \/ \E c \in Foreign : Outside(c)
  PROVE  Reach[branch] \subseteq Reach'[branch']
<1>1. Typed /\ Typed' /\ Extends /\ branch \in Ids
  BY CommitSteps DEF Typed, StateTyped
<1>2. CASE UNCHANGED branch
  BY <1>1, <1>2, HistoryKept DEF Typed
<1>3. ASSUME NEW c \in Foreign, Outside(c) PROVE Reach[branch] \subseteq Reach'[branch']
  <2>1. Made(With(HeadTree, {c}), branch, "foreign", 0)
    BY <1>3, CommitSteps
  <2>2. PICK b, tree : b = branch /\ tree = With(HeadTree, {c})
    OBVIOUS
  <2>3. Made(tree, b, "foreign", 0)
    BY <2>1, <2>2 DEF Made
  <2> QED
    BY <1>1, <2>2, <2>3, MadeOnParent
<1> QED
  BY <1>2, <1>3

\* A step outside the commands that replay.
LEMMA QuietCounts ==
  ASSUME RebaseInv, Counted, UNCHANGED vars \/ User \/ \E c \in Foreign : Outside(c)
  PROVE  Counted'
<1>1. [Next]_vars /\ Typed /\ Typed' /\ Extends /\ Chained /\ Provided
  BY CommitSteps DEF Next, RebaseInv, Typed, OpTyped
<1> SUFFICES ASSUME Followed' PROVE Counted'
  BY DEF Counted
<1>2. Followed /\ UNCHANGED plan
  BY FollowedBefore
<1>3. UNCHANGED <<op, rebase, skipped>>
  BY DEF User, Edit, Resolve, Outside, vars, state, ghosts
<1>4. UNCHANGED branch \/ \E c \in Foreign : Outside(c)
  BY DEF User, Edit, Resolve, vars, refs
<1>5. Reach[branch] \subseteq Reach'[branch']
  BY <1>1, <1>4, BranchStays
<1>6. Underway' = Underway /\ Replaying' = Replaying /\ Ending' = Ending
  BY <1>3 DEF Underway, Setting, Replaying, Ending
<1>7. (Underway' => AllOf(Struck)') /\ (Ending' => AllOf(ToSet(plan.todo))')
  BY <1>1, <1>2, <1>3, <1>5, <1>6, CountStays
<1>8. ASSUME Replaying, op.pc = "advance", op.cmd # "skip" PROVE Accounted(op.todo[1])'
  <2>1. op.todo = rebase.todo /\ Listed /\ plan.todo # <<>> /\ op.todo # <<>>
    BY <1>1, <1>2, <1>8, ReplayHolds DEF Working, Provided, Replaying, Replayers
  <2>2. PICK d \in Ids : d = op.todo[1]
    BY <1>1, <2>1, NextListed
  <2>3. plan.onto \in Ids /\ Accounted(d)
    BY <1>1, <1>2, <1>8, <2>1, <2>2, PlanGiven DEF Counted
  <2>4. Accounted(d)'
    BY <1>1, <1>2, <1>3, <1>5, <2>3, AccountedStays
  <2> QED
    BY <1>3, <2>2, <2>4 DEF Accounted, Has, KeepsOurs
<1>9. Replaying /\ op.pc \in {"seal", "record"} /\ op.cmd = "resolved" => op.of = op.todo[1]
  BY <1>2 DEF Counted
<1> QED
  BY <1>3, <1>6, <1>7, <1>8, <1>9 DEF Counted

\* A command that is killed, and an --abort that begins.
LEMMA KillCounts ==
  ASSUME RebaseInv, Counted, Kill \/ Abort \/ AbortRebase
  PROVE  Counted'
<1>1. [Next]_vars /\ Typed /\ Placed /\ Exclusive
  BY DEF Next, RebaseInv, Typed, OpTyped
<1> SUFFICES ASSUME Followed' PROVE Counted'
  BY DEF Counted
<1>2. Followed /\ UNCHANGED plan
  BY FollowedBefore
<1>3. UNCHANGED <<rebase, skipped, branch>>
  BY DEF Kill, Abort, AbortRebase, refs, state, ghosts, asked
<1>4. op'.cmd \in {"none", "abort", "abortrebase"}
  BY <1>1, OpStepsRebase, IdleFields DEF Kill, Return, Abort
<1>5. ~Replaying' /\ ~Ending'
  BY <1>4 DEF Replaying, Ending, Replayers
<1>6. Underway' => Underway
  <2>1. CASE Kill
    BY <1>3, <2>1, KilledUnderway DEF Underway
  <2>2. CASE Abort \/ AbortRebase
    BY <1>1, <1>3, <2>2 DEF Underway, Setting, Abort, AbortRebase, Waiting, Placed
  <2> QED
    BY <2>1, <2>2
<1>7. Reach[branch] \subseteq Reach'[branch']
  BY <1>1, <1>3, BranchStays
<1>8. Underway' => AllOf(Struck)'
  BY <1>1, <1>2, <1>3, <1>5, <1>6, <1>7, CountStays
<1> QED
  BY <1>5, <1>8 DEF Counted

\* A command that starts.
LEMMA StartCounts ==
  ASSUME RebaseInv, Counted, Start
  PROVE  Counted'
<1>1. [Next]_vars /\ Typed /\ Placed /\ Exclusive
  BY DEF Next, RebaseInv, Typed, OpTyped
<1>2. Begun /\ Opening
  BY StartsAre DEF RebaseInv
<1>3. op.pc = "idle" /\ op.cmd \in {"none", "rebased"} /\ UNCHANGED <<branch, rebase, kills>>
  BY <1>1, <1>2 DEF Begun, Placed
<1>4. CASE Planning
  <2>1. ~rebase'.name
    BY <1>3, <1>4 DEF Planning, InProgress
  <2> QED
    BY <1>4, <2>1 DEF Counted, Underway, Replaying, Ending, Planning
<1>5. CASE ~rebase.name /\ ~Planning
  BY <1>2, <1>3, <1>5, Unrelated DEF Apart, Opening, Replayers
<1>6. ASSUME rebase.name, Followed' PROVE Counted'
  <2>1. Stopped = {} /\ InProgress
    BY <1>1, <1>6 DEF Exclusive, InProgress
  <2>2. /\ UNCHANGED <<plan, skipped>>
        /\ ~blind' => ~blind
        /\ op'.pc # "advance" /\ ~Ending'
        /\ op'.cmd = "resolved" => op'.of = op'.todo[1]
    BY <1>2, <2>1 DEF Opening, Planning, Ending, asked
  <2>3. Followed
    BY <1>3, <1>6, <2>2 DEF Followed, DiedStarting, DiedAborting
  <2>4. Underway
    BY <1>3, <1>6 DEF Underway, Setting
  <2>5. Reach[branch] \subseteq Reach'[branch']
    BY <1>1, <1>3, BranchStays
  <2>6. Underway' => AllOf(Struck)'
    BY <1>1, <1>3, <2>2, <2>3, <2>4, <2>5, CountStays
  <2> QED
    BY <2>2, <2>6 DEF Counted
<1> QED
  BY <1>4, <1>5, <1>6 DEF Counted

\* --abort goes on.
LEMMA BackCounts ==
  ASSUME RebaseInv, Counted, Step, op.cmd = "abortrebase"
  PROVE  Counted'
<1>1. [Next]_vars /\ Typed /\ Placed /\ Returning
  BY DEF Next, RebaseInv, Typed, OpTyped
<1> SUFFICES ASSUME Followed' PROVE Counted'
  BY DEF Counted
<1>2. Followed /\ UNCHANGED plan
  BY FollowedBefore
<1>3. op'.cmd \in {"abortrebase", "none"}
  BY <1>1, CommandHeld, IdleFields DEF Replayers
<1>4. ~Replaying' /\ ~Ending'
  BY <1>3 DEF Replaying, Ending, Replayers
<1>5. Reset \/ Move \/ Restore \/ ClearRebase
  BY <1>1 DEF Step, Placed, Checkout, CheckoutRefused, Unmerge, Finish, SetOrigHead, Stop, Seal,
     Record, Clear, StartRebase, Write, Replay, Advance
<1>6. CASE ClearRebase
  <2>1. rebase \in [name : BOOLEAN, orig : MaybeIds, onto : MaybeIds, todo : Seq(Ids)]
    BY <1>1 DEF Typed, StateTyped
  <2>2. ~rebase'.name
    BY <1>1, <1>6, <2>1, OpStepsRebase DEF Returning
  <2> QED
    BY <1>4, <2>2 DEF Counted, Underway
<1>7. CASE Restore
  <2>1. op'.cmd = "abortrebase" /\ op'.pc = "clearname"
    BY <1>1, <1>7, OpStepsTree DEF Went
  <2> QED
    BY <1>4, <2>1 DEF Counted, Underway
<1>8. CASE Reset \/ Move
  <2>1. UNCHANGED <<rebase, skipped>> /\ op.pc \in {"reset", "move"}
    BY <1>8 DEF Reset, Move, state, ghosts
  <2>2. branch' = branch \/ (op'.cmd = "abortrebase" /\ op'.pc = "restore")
    BY <1>1, <1>8, MoveSteps DEF Reset, Went
  <2>3. Underway' => Underway /\ branch' = branch
    BY <2>1, <2>2 DEF Underway, Setting
  <2>4. Underway' => Reach[branch] \subseteq Reach'[branch']
    BY <1>1, <2>3, BranchStays
  <2>5. Underway' => AllOf(Struck)'
    BY <1>1, <1>2, <1>4, <2>1, <2>3, <2>4, CountStays
  <2> QED
    BY <1>4, <2>5 DEF Counted
<1> QED
  BY <1>5, <1>6, <1>7, <1>8

\* The steps of a rebase that starts: the branch moves to the new base, and the
\* list is the plan.
LEMMA SettingCounts ==
  ASSUME RebaseInv, Counted, Step, Setting
  PROVE  Counted'
<1>1. /\ [Next]_vars /\ Typed /\ Typed' /\ Placed /\ op \in OpRecord
  BY CommitSteps DEF Next, RebaseInv, Typed, OpTyped
<1> SUFFICES ASSUME Followed' PROVE Counted'
  BY DEF Counted
<1>2. Followed /\ UNCHANGED plan
  BY FollowedBefore
<1>3. Settled /\ plan.todo # <<>> /\ op.todo # <<>> /\ op.cmd = "rebase"
  BY <1>2 DEF RebaseInv, Replayed, Setting, Settled
<1>4. CASE Move /\ op'.cmd # "failed"
  <2>1. /\ branch' = op.to /\ op'.cmd = "rebase" /\ op'.pc = "replay" /\ op.pc = "move"
        /\ UNCHANGED <<rebase, skipped>>
    BY <1>1, <1>3, <1>4, MoveSteps DEF Went, Move, state, ghosts
  <2>2. branch' = plan'.onto /\ rebase'.todo = plan'.todo
    BY <1>2, <1>3, <2>1 DEF Settled
  <2>3. AllOf(Struck)'
    <3>1. plan.onto \in Ids /\ plan.onto \in Reach[plan.onto]
      BY <1>1, <1>3, HistoryTyped DEF RebaseInv, Chained, Typed
    <3>2. Reach'[plan.onto] = Reach[plan.onto]
      BY <1>1, <3>1, HistoryKept, CommitSteps DEF Typed
    <3> QED
      BY <1>2, <2>2, <3>1, <3>2 DEF AllOf, Struck, IsAncestor
  <2> QED
    BY <2>1, <2>3 DEF Counted, Ending
<1>5. ASSUME op'.cmd = "failed" PROVE Counted'
  BY <1>5 DEF Counted, Underway, Replaying, Ending, Replayers
<1>6. CASE CheckoutRefused
  <2>1. op.pc = "base"
    BY <1>6 DEF CheckoutRefused, Setting
  <2>2. Goto("clearname", [op EXCEPT !.cmd = "failed"])
    BY <1>3, <1>6, <2>1 DEF CheckoutRefused, Withdraw
  <2>3. op'.cmd = "failed"
    BY <1>1, <2>2 DEF Goto, OpRecord
  <2> QED
    BY <1>5, <2>3
<1>7. CASE StartRebase \/ Checkout \/ Reset
  <2>1. op'.pc \in {"origfile", "ontofile", "todofile", "base", "reset", "move"} /\ op'.cmd = op.cmd
    <3>1. StartRebase => op'.pc \in {"origfile", "ontofile", "todofile", "base"} /\ op'.cmd = op.cmd
      BY <1>1, OpStepsRebase
    <3>2. Checkout => op'.pc = "reset" /\ op'.cmd = op.cmd
      BY <1>1, OpStepsTree DEF Checkout, Setting
    <3>3. Reset => op'.pc = "move" /\ op'.cmd = op.cmd
      BY <1>1, OpStepsRefs DEF Went
    <3> QED
      BY <1>7, <3>1, <3>2, <3>3
  <2>2. op'.todo # <<>>
    <3>1. op'.todo = op.todo
      BY <1>1, <1>7, <2>1, ListHeld, OpStepsRebase, IdleFields DEF Advance, Step, StartRebase, Write,
         Checkout, Reset
    <3> QED
      BY <1>3, <3>1
  <2> QED
    BY <1>3, <2>1, <2>2 DEF Counted, Underway, Setting, Replaying, Ending
<1> QED
  BY <1>4, <1>5, <1>6, <1>7, SettingSteps

\* The steps of a rebase that leave the list and the branch.
LEMMA WaitingCounts ==
  ASSUME RebaseInv, Counted, Replaying,
         Checkout \/ CheckoutRefused \/ Unmerge \/ Restore \/ Seal \/ (Record /\ branch # op.at)
  PROVE  Counted'
<1>1. /\ [Next]_vars /\ Step /\ Typed /\ Placed /\ op \in OpRecord
  BY DEF Next, Step, RebaseInv, Typed, OpTyped
<1> SUFFICES ASSUME Followed' PROVE Counted'
  BY DEF Counted
<1>2. Followed /\ UNCHANGED plan
  BY <1>1, FollowedBefore
<1>3. UNCHANGED <<rebase, skipped, branch>>
  BY DEF Checkout, CheckoutRefused, Unmerge, Restore, Seal, Record, refs, state, ghosts
<1>4. Underway
  BY <1>2, ReplayHolds
<1>5. Reach[branch] \subseteq Reach'[branch']
  BY <1>1, <1>3, BranchStays
<1>6. \/ op' = Idle
      \/ op'.cmd = "rebase" /\ op'.pc \in {"unmerge", "seal"}
      \/ op'.cmd = "skip" /\ op'.pc = "advance"
      \/ /\ Seal /\ op'.cmd = op.cmd /\ op'.pc = "record" /\ op'.of = op.of
         /\ op'.todo = op.todo
  <2>1. CASE Checkout
    BY <1>1, <2>1, OpStepsTree DEF Placed, Replaying, Replayers
  <2>2. CASE CheckoutRefused
    BY <2>2 DEF CheckoutRefused, Withdraw, Return, Replaying
  <2>3. CASE Unmerge
    BY <1>1, <2>3 DEF Unmerge, Placed, Replaying, Replayers, Return
  <2>4. CASE Restore
    BY <1>1, <2>4, OpStepsTree DEF Went, Replaying, Replayers
  <2>5. CASE Seal
    <3>1. op.pc = "seal" /\ op'.pc = "record" /\ op'.cmd = op.cmd /\ op'.of = op.of
      BY <1>1, <2>5, OpStepsRefs DEF Seal, Went
    <3>2. op'.todo = op.todo
      BY <1>1, <3>1, ListHeld, IdleFields DEF Advance
    <3> QED
      BY <2>5, <3>1, <3>2
  <2>6. CASE Record /\ branch # op.at
    BY <2>6 DEF Record, Return
  <2> QED
    BY <2>1, <2>2, <2>3, <2>4, <2>5, <2>6
<1>7. /\ ~Ending'
      /\ ~(Replaying' /\ op'.pc = "advance" /\ op'.cmd # "skip")
  BY <1>6, IdleFields DEF Ending, Replaying, Replayers, Seal
<1>8. Replaying' /\ op'.pc \in {"seal", "record"} /\ op'.cmd = "resolved" => op'.of = op'.todo[1]
  BY <1>2, <1>6, IdleFields DEF Counted, Seal
<1>9. Underway' => AllOf(Struck)'
  BY <1>1, <1>2, <1>3, <1>4, <1>5, <1>7, CountStays
<1> QED
  BY <1>7, <1>8, <1>9 DEF Counted

\* A commit that is recorded is on the branch.
LEMMA RecordCounts ==
  ASSUME RebaseInv, Counted, Replaying, Record, branch = op.at
  PROVE  Counted'
<1>1. /\ [Next]_vars /\ Step /\ Typed /\ Typed' /\ Extends /\ Placed /\ Provided /\ op \in OpRecord
      /\ Made(op.tree, op.at, op.cmd, op.of)
  BY CommitSteps DEF Next, Step, RebaseInv, Typed, OpTyped
<1> SUFFICES ASSUME Followed' PROVE Counted'
  BY DEF Counted
<1>2. Followed /\ UNCHANGED plan
  BY <1>1, FollowedBefore
<1>3. UNCHANGED <<rebase, skipped>> /\ op.pc = "record" /\ op.cmd \in {"rebase", "resolved"}
  BY <1>1 DEF Record, state, ghosts, Placed, Replaying, Replayers
<1>4. /\ Underway /\ Listed /\ plan.todo # <<>> /\ Chained /\ op.todo = rebase.todo /\ op.todo # <<>>
      /\ op.cmd = "rebase" => op.of = op.todo[1]
  BY <1>1, <1>2, <1>3, ReplayHolds DEF Working, Provided
<1>5. op.of = op.todo[1]
  BY <1>2, <1>3, <1>4 DEF Counted
<1>6. Goto("advance", op)
  BY <1>3 DEF Record
<1>7. op'.pc = "advance" /\ op'.cmd = op.cmd /\ op'.todo = op.todo
  BY <1>1, <1>6, GotoAt DEF Points
<1>8. Reach[branch] \subseteq Reach'[branch'] /\ branch' \in Ids'
  <2>1. PICK b, tree, how, of : b = branch /\ tree = op.tree /\ how = op.cmd /\ of = op.of
    OBVIOUS
  <2>2. Made(tree, b, how, of) /\ b \in Ids
    BY <1>1, <2>1 DEF Made, Typed, StateTyped
  <2> QED
    BY <1>1, <2>1, <2>2, MadeOnParent
<1>9. ~Ending'
  BY <1>3, <1>7 DEF Ending
<1>10. Underway' => AllOf(Struck)'
  BY <1>1, <1>2, <1>3, <1>4, <1>8, <1>9, CountStays
<1>11. Accounted(op.todo[1])'
  <2>1. IsAncestor(plan.onto, branch)
    BY <1>2, <1>4 DEF Counted, AllOf
  <2>2. plan'.onto \in Reach'[branch']
    BY <1>2, <1>8, <2>1 DEF IsAncestor
  <2>3. branch' \in Reach'[branch']
    <3>1. GraphTyped'
      BY <1>1 DEF Typed
    <3>2. Older(commits') /\ branch' \in 1 .. Len(commits')
      BY <1>8, <3>1 DEF GraphTyped, Ids
    <3>3. Reach' = ReachIn(commits')
      BY DEF Reach, ReachIn, Unfolds, Ids, Parents
    <3> QED
      BY <3>2, <3>3, ReachBounds
  <2>4. branch' \in Rewritten'
    BY <2>2, <2>3 DEF Rewritten, IsAncestor
  <2>5. commits'[branch'].how \in {"rebase", "resolved"} /\ commits'[branch'].of = op'.todo[1]
    BY <1>1, <1>3, <1>5, <1>7 DEF Made
  <2> QED
    BY <2>4, <2>5 DEF Accounted, Has
<1> QED
  BY <1>7, <1>9, <1>10, <1>11 DEF Counted

\* What replay strikes off the list at once changes nothing (NothingNew).
LEMMA ReplayCounts ==
  ASSUME RebaseInv, Counted, Replaying, Replay
  PROVE  Counted'
<1>1. /\ [Next]_vars /\ Step /\ Typed /\ Typed' /\ Extends /\ Placed /\ op \in OpRecord
  BY CommitSteps DEF Next, Step, RebaseInv, Typed, OpTyped
<1> SUFFICES ASSUME Followed' PROVE Counted'
  BY DEF Counted
<1>2. Followed /\ UNCHANGED plan
  BY <1>1, FollowedBefore
<1>3. UNCHANGED <<rebase, skipped, branch>> /\ op.pc = "replay"
  BY DEF Replay, refs, state, ghosts
<1>4. Underway /\ Listed /\ plan.todo # <<>> /\ Chained /\ op.todo = rebase.todo
  BY <1>2, ReplayHolds DEF Working
<1>5. Reach[branch] \subseteq Reach'[branch']
  BY <1>1, <1>3, BranchStays
<1>6. CASE op.todo = <<>>
  <2>1. Goto("clearname", op)
    BY <1>6 DEF Replay
  <2>2. op'.pc = "clearname" /\ op'.cmd = op.cmd
    BY <1>1, <2>1, GotoAt DEF Points
  <2>3. ~Ending'
    BY <2>2 DEF Ending, Replaying, Replayers
  <2>4. Underway' => AllOf(Struck)'
    BY <1>1, <1>2, <1>3, <1>4, <1>5, <2>3, CountStays
  <2> QED
    BY <2>2, <2>3, <2>4 DEF Counted
<1>7. CASE op.todo # <<>>
  <2> DEFINE c == op.todo[1]
             tree == Merged(ParentTree(c), HeadTree, TreeOf(c))
  <2>1. /\ op'.cmd = "rebase" /\ op'.todo = op.todo
        /\ \/ tree = HeadTree /\ op'.pc \in {"seal", "advance"}
           \/ op'.pc \in {"materialise", "checkout"}
    BY <1>1, <1>7, ReplaySteps
  <2>2. ~Ending'
    BY <2>1 DEF Ending
  <2>3. Underway' => AllOf(Struck)'
    BY <1>1, <1>2, <1>3, <1>4, <1>5, <2>2, CountStays
  <2>4. ASSUME op'.pc = "advance" PROVE Accounted(op.todo[1])'
    <3>1. PICK d \in Ids : d = c
      BY <1>1, <1>4, <1>7, NextListed
    <3>2. IsAncestor(plan.onto, branch) /\ plan.onto \in Ids
      BY <1>1, <1>2, <1>4, PlanGiven DEF Counted, AllOf
    <3>3. Merged(ParentTree(d), HeadTree, TreeOf(d)) = HeadTree
      BY <2>1, <2>4, <3>1
    <3>4. Accounted(d)'
      BY <1>1, <1>2, <1>3, <1>5, <3>2, <3>3, NothingNew, AccountedStays
    <3>5. d = op'.todo[1]
      BY <2>1, <3>1
    <3> QED
      BY <3>4, <3>5 DEF Accounted, Has, KeepsOurs
  <2> QED
    BY <2>1, <2>2, <2>3, <2>4 DEF Counted
<1> QED
  BY <1>6, <1>7

\* The commit that is struck off the list is accounted for.
LEMMA AdvanceCounts ==
  ASSUME RebaseInv, Counted, Replaying, Advance
  PROVE  Counted'
<1>1. /\ [Next]_vars /\ Step /\ Typed /\ Typed' /\ Extends /\ Placed /\ Provided /\ op \in OpRecord
      /\ rebase \in [name : BOOLEAN, orig : MaybeIds, onto : MaybeIds, todo : Seq(Ids)]
  BY CommitSteps DEF Next, Step, RebaseInv, Typed, OpTyped, StateTyped
<1> SUFFICES ASSUME Followed' PROVE Counted'
  BY DEF Counted
<1>2. Followed /\ UNCHANGED plan
  BY <1>1, FollowedBefore
<1>3. UNCHANGED branch /\ op.pc = "advance" /\ op.cmd \in Replayers
  BY DEF Advance, refs, Replaying
<1>4. /\ Underway /\ Listed /\ plan.todo # <<>> /\ Chained /\ op.todo = rebase.todo
      /\ op.todo # <<>>
  BY <1>1, <1>2, <1>3, ReplayHolds DEF Working, Provided, Replayers
<1>5. Reach[branch] \subseteq Reach'[branch']
  BY <1>1, <1>3, BranchStays
<1>6. op'.pc = "replay" /\ op'.cmd = op.cmd /\ rebase'.todo = Tail(rebase.todo)
  BY <1>1, <1>4 DEF Advance, Goto, OpRecord
<1>7. PICK d \in Ids : d = op.todo[1]
  BY <1>1, <1>4, NextListed
<1>8. AllOf(Struck) /\ plan.onto \in Ids /\ ToSet(plan.todo) \subseteq Ids
  BY <1>1, <1>2, <1>4, PlanGiven DEF Counted
<1>9. skipped \subseteq skipped'
  BY DEF Advance
<1>10. Accounted(d)'
  <2>1. CASE op.cmd # "skip"
    <3>1. Accounted(d)
      BY <1>2, <1>3, <1>7, <2>1 DEF Counted
    <3> QED
      BY <1>1, <1>2, <1>5, <1>8, <1>9, <3>1, AccountedStays
  <2>2. CASE op.cmd = "skip" /\ Merged(ParentTree(d), HeadTree, TreeOf(d)) # HeadTree
    <3>1. d \in skipped'
      BY <1>7, <2>2 DEF Advance
    <3> QED
      BY <3>1 DEF Accounted
  <2>3. CASE Merged(ParentTree(d), HeadTree, TreeOf(d)) = HeadTree
    <3>1. Accounted(d)
      BY <1>1, <1>8, <2>3, NothingNew DEF AllOf
    <3> QED
      BY <1>1, <1>2, <1>5, <1>8, <1>9, <3>1, AccountedStays
  <2> QED
    BY <2>1, <2>2, <2>3
<1>11. PICK cs : cs = Struck
  OBVIOUS
<1>12. AllOf(cs)'
  <2>1. cs \in SUBSET Ids /\ AllOf(cs)
    BY <1>8, <1>11 DEF Struck, AllOf
  <2> QED
    BY <1>1, <1>2, <1>5, <1>8, <1>9, <2>1, AllOfStays
<1>13. Struck' \subseteq cs \cup {d}
  <2>1. \A x \in ToSet(rebase.todo) : x = rebase.todo[1] \/ x \in ToSet(Tail(rebase.todo))
    <3>1. PICK t : t = rebase.todo
      OBVIOUS
    <3>2. t \in Seq(Ids) /\ t # <<>>
      BY <1>1, <1>4, <3>1
    <3>3. Len(t) \in Nat /\ Len(Tail(t)) = Len(t) - 1 /\ \A i \in 1 .. Len(t) - 1 : Tail(t)[i] = t[i + 1]
      BY <3>2, EmptySeq
    <3>4. ASSUME NEW i \in 1 .. Len(t), i # 1 PROVE t[i] \in ToSet(Tail(t))
      <4>1. i - 1 \in 1 .. Len(t) - 1 /\ (i - 1) + 1 = i
        BY <3>3, <3>4
      <4>2. i - 1 \in 1 .. Len(Tail(t)) /\ Tail(t)[i - 1] = t[i]
        BY <3>3, <4>1
      <4> QED
        BY <4>2 DEF ToSet
    <3>5. \A x \in ToSet(t) : \E i \in 1 .. Len(t) : x = t[i]
      BY DEF ToSet
    <3> QED
      BY <3>1, <3>4, <3>5
  <2> QED
    BY <1>2, <1>4, <1>6, <1>7, <1>11, <2>1 DEF Struck
<1>14. AllOf(Struck)'
  BY <1>10, <1>12, <1>13 DEF AllOf
<1>15. ~Ending'
  BY <1>3, <1>6 DEF Ending, Replayers
<1> QED
  BY <1>6, <1>14, <1>15 DEF Counted

\* A rebase that has nothing left to replay has struck off every commit.
LEMMA ClearCounts ==
  ASSUME RebaseInv, Counted, ClearRebase, op.cmd \in Replayers
  PROVE  Counted'
<1>1. [Next]_vars /\ Step /\ Typed /\ Placed /\ Returning /\ Exclusive
  BY DEF Next, Step, RebaseInv, Typed, OpTyped
<1> SUFFICES ASSUME Followed' PROVE Counted'
  BY DEF Counted
<1>2. Followed /\ UNCHANGED plan
  BY <1>1, FollowedBefore
<1>3. UNCHANGED <<branch, skipped>>
  BY DEF ClearRebase, Write, refs, ghosts
<1>4. ~rebase'.name
  <2>1. rebase \in [name : BOOLEAN, orig : MaybeIds, onto : MaybeIds, todo : Seq(Ids)]
    BY <1>1 DEF Typed, StateTyped
  <2> QED
    BY <1>1, <2>1, OpStepsRebase DEF Returning
<1>5. \/ op'.pc \in {"clearorig", "clearonto", "cleartodo"} \/ op'.pc = "idle"
  BY <1>1, OpStepsRebase DEF Went, Idling
<1>6. ~Underway' /\ ~Replaying'
  BY <1>4, <1>5 DEF Underway, Replaying
<1>7. Reach[branch] \subseteq Reach'[branch']
  BY <1>1, <1>3, BranchStays
<1>8. CASE op.pc = "clearname"
  <2>1. Replaying
    BY <1>8 DEF Replaying
  <2>2. Underway /\ Listed /\ plan.todo # <<>> /\ Chained /\ rebase.todo = <<>>
    BY <1>2, <1>8, <2>1, ReplayHolds DEF Working
  <2>3. Struck = ToSet(plan.todo)
    BY <2>2 DEF Struck, ToSet
  <2>4. AllOf(Struck)
    BY <1>2, <2>2 DEF Counted
  <2>5. PICK cs : cs = ToSet(plan.todo)
    OBVIOUS
  <2>6. AllOf(cs) /\ cs \in SUBSET Ids /\ plan.onto \in Ids
    BY <1>1, <2>2, <2>3, <2>4, <2>5, PlanGiven DEF AllOf
  <2>7. AllOf(cs)'
    BY <1>1, <1>2, <1>3, <1>7, <2>6, AllOfStays, CommitSteps
  <2>8. AllOf(ToSet(plan.todo))'
    BY <1>2, <2>5, <2>7 DEF AllOf
  <2> QED
    BY <1>6, <2>8 DEF Counted
<1>9. CASE op.pc # "clearname"
  <2>1. Ending
    BY <1>1, <1>9, OpStepsRebase DEF Ending
  <2>2. Ending' => AllOf(ToSet(plan.todo))'
    BY <1>1, <1>2, <1>3, <1>6, <1>7, <2>1, CountStays
  <2> QED
    BY <1>6, <2>2 DEF Counted
<1> QED
  BY <1>8, <1>9

\* Every step.
LEMMA CountedKept ==
  ASSUME RebaseInv, Counted, [Next]_vars
  PROVE  Counted'
<1> Placed /\ Exclusive
  BY DEF RebaseInv, Typed, OpTyped
<1>1. CASE Step /\ Replaying
  <2>1. \/ Checkout \/ CheckoutRefused \/ Unmerge \/ Restore \/ Seal \/ Record \/ Replay \/ Advance
        \/ (ClearRebase /\ op.cmd \in Replayers)
    BY <1>1 DEF Step, Replaying, Finish, SetOrigHead, Stop, Reset, Move, Clear, StartRebase, Write
  <2> QED
    BY <1>1, <2>1, WaitingCounts, RecordCounts, ReplayCounts, AdvanceCounts, ClearCounts
<1>2. CASE Step /\ ~Replaying
  <2>1. \/ op.cmd \in Others \/ op.cmd = "failed" \/ op.cmd = "abortrebase" \/ Setting
        \/ op.cmd = "rebase" /\ op.pc \in {"base", "reset", "move"} /\ op.todo = <<>>
        \/ op.cmd \in Replayers /\ op.pc \in {"clearorig", "clearonto", "cleartodo"}
        \/ op.pc = "idle"
    BY <1>2 DEF Placed, Others, Setting, Replaying, Replayers, Exclusive
  <2>2. op.pc # "idle"
    BY <1>2 DEF Step, Checkout, CheckoutRefused, Unmerge, Restore, Finish, SetOrigHead, Stop, Seal, Record,
       Reset, Move, Clear, StartRebase, ClearRebase, Write, Replay, Advance
  <2>3. CASE op.cmd \in Replayers /\ op.pc \in {"clearorig", "clearonto", "cleartodo"}
    <3>1. ClearRebase
      BY <1>2, <2>3 DEF Step, Checkout, CheckoutRefused, Unmerge, Restore, Finish, SetOrigHead, Stop, Seal,
         Record, Reset, Move, Clear, StartRebase, Write, Replay, Advance
    <3> QED
      BY <2>3, <3>1, ClearCounts
  <2> QED
    BY <1>2, <2>1, <2>2, <2>3, OtherApart, FailedApart, Unrelated, BackCounts, SettingCounts
<1> QED
  BY <1>1, <1>2, StartCounts, KillCounts, QuietCounts DEF Next

-----------------------------------------------------------------------------
(* The theorem *)

\* A rebase that reports that every commit was replayed (rebase, replay,
\* continue_rebase, skip_rebase) lost none of them but those it says nothing of:
\* each commit of its list was skipped by the user, has its copy or its content
\* on the branch from the new base on, or met there a commit with which all its
\* conflicts keep our side; and at every path that the list decides alone, the
\* content is that of one merge of its commits with the new base.  That holds
\* however often it stopped and was resumed, whatever other writers committed
\* and wherever a command was killed but in the middle of a move, if the user
\* continued only commits that had stopped.
THEOREM RebaseKeepsEveryCommit == Spec => []StartedRebaseReplaysAll
<1> DEFINE IndInv == RebaseInv /\ Counted
<1>1. Init => IndInv
  <2> SUFFICES ASSUME Init PROVE IndInv
    OBVIOUS
  <2>1. Typed /\ Computed /\ Rooted
    BY InitTyped, SetupBuilt, SetupRooted
  <2>2. Returning
    BY DEF Init, Idle, Returning
  <2>3. Chained
    BY DEF Init, Chained
  <2>4. op.cmd = "none" /\ op.pc = "idle" /\ ~rebase.name /\ op.todo = <<>>
    BY DEF Init, Idle
  <2>5. Exclusive
    BY <2>4 DEF Exclusive, Setting, Replaying, Replayers, Others
  <2>6. ~Setting /\ ~Underway /\ ~Replaying /\ ~Ending
    BY <2>4 DEF Setting, Underway, Replaying, Ending, Replayers
  <2>7. Replayed
    BY <2>6 DEF Replayed
  <2>8. Counted
    BY <2>6 DEF Counted
  <2> QED
    BY <2>1, <2>2, <2>3, <2>5, <2>7, <2>8 DEF RebaseInv
<1>2. IndInv /\ [Next]_vars => IndInv'
  BY NextTyped, ComputedKept, ReturningKept, RootedKept, ChainedKept, ExclusiveKept, ReplayedKept,
     CountedKept DEF RebaseInv
<1>3. IndInv => StartedRebaseReplaysAll
  <2> SUFFICES ASSUME RebaseInv, Counted, Followed, op.cmd = "rebased"
               PROVE  RebaseReplaysAll
    BY DEF StartedRebaseReplaysAll, Followed, RebaseReplaysAll
  <2>1. plan.todo # <<>> /\ HasUpTo(HeadTree, Len(plan.todo))
    BY DEF RebaseInv, Replayed, Ending
  <2>2. PlannedTrees[Len(plan.todo)] =
          Merged(TreeOf(plan.base), TreeOf(plan.onto), TreeOf(plan.tip))
    BY <2>1, PlanEnds DEF RebaseInv
  <2>3. \A c \in ToSet(plan.todo) : c \in skipped \/ Has(c) \/ KeepsOurs(c)
    BY DEF Counted, Ending, AllOf, Accounted
  <2> QED
    BY <2>1, <2>2, <2>3 DEF RebaseReplaysAll, HasUpTo, Agree
<1> QED
  BY <1>1, <1>2, <1>3, PTL DEF Spec

=============================================================================
