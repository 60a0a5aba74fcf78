------------------------------ MODULE Sequencer ------------------------------
(***************************************************************************)
(* The commands that rewrite the current branch of a worktree: merge,       *)
(* cherry-pick, revert, rebase and commit, with --continue, --skip and      *)
(* --abort (src/crates/core/gitana-porcelain), over the recovery state in   *)
(* MERGE_HEAD, CHERRY_PICK_HEAD, REVERT_HEAD and the REBASE_* files         *)
(* (src/crates/core/gitana-repository).  One command runs at a time and may *)
(* be killed before any of its writes; another writer may extend the branch *)
(* at any step.                                                             *)
(*                                                                         *)
(* A tree gives each path the set of changes its content contains, none if   *)
(* it is absent; two different changes of one path are a conflict, which     *)
(* leaves markers in the path or keeps the content of one side.  The work    *)
(* tree is the index: unstaged and untracked files appear only as a checkout *)
(* refused.                                                                 *)
(***************************************************************************)
EXTENDS Integers, Sequences, FiniteSets, SequencesExt

CONSTANTS
  Paths,        \* paths of the work tree
  Opaque,       \* those that are not merged line by line: binary files, gitlinks, file modes
  Changes,      \* changes of a path's content
  PathOf,       \* [Changes -> Paths]
  Mine,         \* sequence of sets of changes: the commits of the branch
  Theirs,       \* the same for the upstream, from the same first commit
  Starts,       \* commits the branch may start at
  Upstreams,    \* commits a command may name
  Foreign,      \* changes other writers commit to the branch
  Edits,        \* changes the user stages
  Marker,       \* content with conflict markers
  KillAt,       \* program points at which a command may be killed
  MaxCommands,  \* bound: commands other than --abort
  MaxForeign,   \* bound: commits of other writers
  MaxRefusals,  \* bound: checkouts refused for a local change or untracked file
  MaxKills      \* bound: kills

ASSUME PathAssumption == PathOf \in [Changes -> Paths]
ASSUME OpaqueAssumption == Opaque \subseteq Paths
ASSUME MarkerAssumption == Marker \notin Changes
ASSUME ChangeAssumption ==
  Foreign \subseteq Changes /\ Edits \subseteq Changes
ASSUME SetupAssumption ==
  /\ {Mine, Theirs} \subseteq Seq(SUBSET Changes)
  /\ Starts \cup Upstreams \subseteq 1 .. 1 + Len(Mine) + Len(Theirs)
ASSUME BoundAssumption ==
  {MaxCommands, MaxForeign, MaxRefusals, MaxKills} \subseteq Nat

VARIABLES
  commits,   \* the commit graph: [tree, parents, how, of], parents before children
  branch,    \* the tip of the branch HEAD names
  origHead,  \* ORIG_HEAD, or 0
  idx,       \* the index: a tree and its unmerged paths
  heads,     \* MERGE_HEAD, CHERRY_PICK_HEAD, REVERT_HEAD, or 0
  rebase,    \* REBASE_HEAD_NAME (there or not), _ORIG_HEAD, _ONTO, _TODO
  op,        \* the running command
  plan,      \* the rebase as it was asked for (not stored anywhere)
  skipped,   \* commits of it the user dropped
  stopped,   \* the commit of it whose conflict is in the index, or 0
  blind,     \* the user continued a commit that had not
  kills,     \* program points at which commands were killed
  cnt        \* counters of the bounds

vars == <<commits, branch, origHead, idx, heads, rebase, op, plan, skipped, stopped, blind, kills, cnt>>
refs == <<commits, branch, origHead>>
state == <<heads, rebase>>
ghosts == <<plan, skipped, stopped, blind, kills>>
asked == <<plan, skipped, stopped, blind>>

-----------------------------------------------------------------------------
(* Trees, merges and history *)

Content == Changes \cup {Marker}
Tree == [Paths -> SUBSET Content]
Empty == [p \in Paths |-> {}]
With(tree, changes) == [p \in Paths |-> tree[p] \cup {c \in changes : PathOf[c] = p}]

\* merge_trees: per path, the side that changed; both differently is a conflict,
\* and so is a deletion against a change.
Conflicts(base, ours, theirs) ==
  {p \in Paths : theirs[p] # base[p] /\ ours[p] # base[p] /\ ours[p] # theirs[p]}
\* Conflicting text gets markers; what cannot be merged line by line keeps our
\* side, and a file that only one side has stays.
InConflict(p, ours, theirs) ==
  IF ours[p] = {} THEN theirs[p]
  ELSE IF theirs[p] = {} \/ p \in Opaque THEN ours[p] ELSE {Marker}
Merged(base, ours, theirs) ==
  [p \in Paths |-> IF p \in Conflicts(base, ours, theirs) THEN InConflict(p, ours, theirs)
                   ELSE IF theirs[p] = base[p] THEN ours[p] ELSE theirs[p]]

Ids == 1 .. Len(commits)
TreeOf(c) == commits[c].tree
IsMerge(c) == Len(commits[c].parents) > 1
ParentTree(c) == IF commits[c].parents = <<>> THEN Empty ELSE TreeOf(commits[c].parents[1])

\* Commits reachable from c, itself included.
Reach ==
  LET up[c \in Ids] == {c} \cup UNION {up[d] : d \in ToSet(commits[c].parents)}
  IN up
IsAncestor(c, d) == c \in Reach[d]

\* merge_base: a common ancestor that no other one descends from.
MergeBases(c, d) ==
  LET common == Reach[c] \cap Reach[d]
  IN {b \in common : \A e \in common \ {b} : ~IsAncestor(b, e)}

\* Mutant: rev_list's order, newest first.
ToReplayNewestFirst(tip, base) ==
  LET range == Reach[tip] \ Reach[base]
  IN [i \in 1 .. Cardinality(range) |->
        CHOOSE c \in range : Cardinality({d \in range : d >= c}) = i]

\* commits_to_replay, oldest first: a linear range, so creation order.
ToReplay(tip, base) ==
  LET range == Reach[tip] \ Reach[base]
  IN [i \in 1 .. Cardinality(range) |->
        CHOOSE c \in range : Cardinality({d \in range : d <= c}) = i]

Commit(tree, parents, how, of) == [tree |-> tree, parents |-> parents, how |-> how, of |-> of]

\* The commits of the setup: one first commit, the branch, then the upstream.
Chain(first, changes, n) ==
  [i \in 1 .. Len(changes) |->
     Commit(With(Empty, UNION {changes[j] : j \in 1 .. i}),
            <<IF i = 1 THEN first ELSE n + i - 1>>, "setup", 0)]
Setup ==
  <<Commit(Empty, <<>>, "setup", 0)>> \o Chain(1, Mine, 1) \o Chain(1, Theirs, 1 + Len(Mine))

-----------------------------------------------------------------------------
Idle == [pc |-> "idle", cmd |-> "none", at |-> 0, of |-> 0, to |-> 0,
         tree |-> Empty, base |-> Empty, todo |-> <<>>]

Init ==
  /\ commits = Setup
  /\ branch \in Starts
  /\ origHead = 0
  /\ idx = [tree |-> commits[branch].tree, unmerged |-> {}]
  /\ heads = [merge |-> 0, pick |-> 0, revert |-> 0]
  /\ rebase = [name |-> FALSE, orig |-> 0, onto |-> 0, todo |-> <<>>]
  /\ op = Idle
  /\ plan = [tip |-> 0, base |-> 0, onto |-> 0, todo |-> <<>>]
  /\ skipped = {} /\ stopped = 0 /\ blind = FALSE
  /\ kills = {}
  /\ cnt = [commands |-> 0, foreign |-> 0, refusals |-> 0, kills |-> 0]

Clean(tree) == idx = [tree |-> tree, unmerged |-> {}]
HeadTree == TreeOf(branch)

\* operation_in_progress.
Stopped == {h \in {"merge", "pick", "revert"} : heads[h] # 0}
InProgress == Stopped # {} \/ rebase.name

Goto(pc, o) == op' = [o EXCEPT !.pc = pc]
Return == op' = Idle
\* A rebase reports that it is complete.
Rebased == [Idle EXCEPT !.cmd = "rebased"]
Waiting == op.pc = "idle"

\* A command other than --abort begins at pc.
Begin(pc, o) ==
  /\ Waiting /\ cnt.commands < MaxCommands
  /\ Goto(pc, o)
  /\ cnt' = [cnt EXCEPT !.commands = @ + 1]
  /\ UNCHANGED <<refs, idx, state, kills>>
New(cmd) == [Idle EXCEPT !.cmd = cmd, !.at = branch]

-----------------------------------------------------------------------------
(* Starting a command: everything it reads and refuses before its first write *)

\* The result is materialised as a conflict, or sealed as a commit on the tip
\* that was read and checked out.
Apply(o, base, theirs) ==
  Begin(IF Conflicts(base, HeadTree, theirs) # {} THEN "materialise" ELSE "checkout",
        [o EXCEPT !.tree = Merged(base, HeadTree, theirs), !.base = base])

\* merge_inner, holding the HEAD transaction until it returns.
Merge(c, noFf) ==
  LET o == [New("merge") EXCEPT !.of = c]
  IN /\ ~InProgress /\ idx.unmerged = {}
     /\ ~IsAncestor(c, branch)
     /\ IF IsAncestor(branch, c) /\ ~noFf
          THEN Begin("checkout", [o EXCEPT !.cmd = "ff", !.tree = TreeOf(c)])
          ELSE /\ Clean(HeadTree)
               /\ \E b \in MergeBases(branch, c) : Apply(o, TreeOf(b), TreeOf(c))
     /\ UNCHANGED asked

CherryPick(c) ==
  /\ ~InProgress /\ ~IsMerge(c) /\ Clean(HeadTree)
  /\ Merged(ParentTree(c), HeadTree, TreeOf(c)) # HeadTree
  /\ Apply([New("pick") EXCEPT !.of = c], ParentTree(c), TreeOf(c))
  /\ UNCHANGED asked

Revert(c) ==
  /\ ~InProgress /\ ~IsMerge(c) /\ Clean(HeadTree)
  /\ Merged(TreeOf(c), HeadTree, ParentTree(c)) # HeadTree
  /\ Apply([New("revert") EXCEPT !.of = c], TreeOf(c), ParentTree(c))
  /\ UNCHANGED asked

Rebase(upstream, onto) ==
  \E b \in MergeBases(branch, upstream) :
    LET todo == ToReplay(branch, b)
        o == [New("rebase") EXCEPT !.to = onto, !.tree = TreeOf(onto), !.todo = todo]
    IN /\ ~InProgress /\ Clean(HeadTree)
       /\ \A c \in ToSet(todo) : ~IsMerge(c)
       /\ IF todo = <<>> THEN onto # branch /\ Begin("base", o) /\ UNCHANGED asked
          ELSE /\ Begin("name", o)
               /\ plan' = [tip |-> branch, base |-> b, onto |-> onto, todo |-> todo]
               /\ skipped' = {} /\ stopped' = 0 /\ blind' = FALSE

\* continue_merge, continue_cherry_pick, continue_revert, and commit while one
\* of them is stopped: the resolved index becomes the commit.
Continue(h) ==
  /\ h \in Stopped /\ idx.unmerged = {}
  /\ h = "merge" \/ idx.tree # HeadTree
  /\ Begin("seal", [New(h) EXCEPT !.cmd = "continue", !.of = heads[h], !.tree = idx.tree])
  /\ UNCHANGED asked

PlainCommit ==
  /\ ~InProgress /\ idx.unmerged = {} /\ idx.tree # HeadTree /\ idx.tree # Empty
  /\ Begin("seal", [New("commit") EXCEPT !.tree = idx.tree])
  /\ UNCHANGED asked

\* rebase_state: REBASE_HEAD_NAME makes it one, the others must be readable.
Readable == rebase.name /\ rebase.orig # 0 /\ rebase.onto # 0

ContinueRebase ==
  LET o == [New("rebase") EXCEPT !.todo = rebase.todo]
  IN /\ Readable
     /\ IF rebase.todo = <<>> THEN Begin("replay", o) /\ UNCHANGED asked
        ELSE /\ idx.unmerged = {} /\ idx.tree # HeadTree
             /\ Begin("seal", [o EXCEPT !.cmd = "resolved", !.of = rebase.todo[1],
                                        !.tree = idx.tree])
             /\ blind' = (blind \/ stopped # rebase.todo[1])
             /\ UNCHANGED <<plan, skipped, stopped>>

SkipRebase ==
  /\ Readable
  /\ Begin(IF rebase.todo = <<>> THEN "replay" ELSE "restore",
           [New("skip") EXCEPT !.todo = rebase.todo])
  /\ UNCHANGED asked

\* --abort of a merge, pick or revert, and of a rebase.
Abort ==
  /\ Waiting /\ Stopped # {}
  /\ Goto("restore", New("abort"))
  /\ UNCHANGED <<refs, idx, state, ghosts, cnt>>
\* Mutant: ORIG_HEAD is taken for the tip to return to.
AbortRebaseToOrigHead ==
  /\ Waiting /\ Readable /\ origHead # 0
  /\ Goto("reset", [New("abortrebase") EXCEPT !.to = origHead])
  /\ UNCHANGED <<refs, idx, state, ghosts, cnt>>

AbortRebase ==
  /\ Waiting /\ Readable
  /\ Goto("reset", [New("abortrebase") EXCEPT !.to = rebase.orig])
  /\ UNCHANGED <<refs, idx, state, ghosts, cnt>>

-----------------------------------------------------------------------------
(* Index and work tree *)

\* merge_apply: the paths that differ between two trees change, and an entry
\* staged there must be the old or the new one.
Allows(from, to) ==
  /\ idx.unmerged = {}
  /\ \A p \in Paths : from[p] # to[p] => idx.tree[p] \in {from[p], to[p]}
Carried(from, to) == [p \in Paths |-> IF from[p] = to[p] THEN idx.tree[p] ELSE to[p]]

\* Mutant: a pick goes through commit_on_head and reads the tip again.
AfterCheckoutReads ==
  CASE op.pc = "materialise" -> "unmerge"
    [] op.pc = "base" -> "reset"
    [] op.pc = "checkout" /\ op.cmd \in {"ff", "merge"} -> "finish"
    [] op.pc = "checkout" /\ op.cmd \in {"pick", "revert", "rebase"} -> "seal"

\* Where a command goes on after its checkout: from the tree it read to op.tree.
AfterCheckout ==
  CASE op.pc = "materialise" -> "unmerge"
    [] op.pc = "base" -> "reset"
    [] op.pc = "checkout" /\ op.cmd \in {"ff", "merge"} -> "finish"
    [] op.pc = "checkout" /\ op.cmd \in {"pick", "revert"} -> "record"
    [] op.pc = "checkout" /\ op.cmd = "rebase" -> "seal"
Checkout ==
  /\ op.pc \in {"materialise", "checkout", "base"}
  /\ Allows(TreeOf(op.at), op.tree)
  /\ idx' = [idx EXCEPT !.tree = Carried(TreeOf(op.at), op.tree)]
  /\ Goto(AfterCheckout, op)
  /\ UNCHANGED <<refs, state, ghosts, cnt>>

\* A local change or an untracked file is in the way.  A rebase that has not
\* moved the branch yet clears its state, a later step leaves it in place.
Withdraw == IF op.pc \in {"base", "move"} /\ op.cmd = "rebase" /\ op.todo # <<>>
              THEN Goto("clearname", [op EXCEPT !.cmd = "failed"]) ELSE Return
CheckoutRefused ==
  /\ op.pc \in {"materialise", "checkout", "base"}
  /\ \/ ~Allows(TreeOf(op.at), op.tree) /\ UNCHANGED cnt
     \/ cnt.refusals < MaxRefusals /\ cnt' = [cnt EXCEPT !.refusals = @ + 1]
  /\ Withdraw
  /\ UNCHANGED <<refs, idx, state, ghosts>>

\* Mutant: every command records the stages of a revert, towards the parent.
UnmergeTowardsParent ==
  LET cs == Conflicts(op.base, TreeOf(op.at), ParentTree(op.of))
  IN /\ op.pc = "unmerge"
     /\ idx' = [tree |-> [p \in Paths |-> IF p \in cs THEN {} ELSE idx.tree[p]],
                unmerged |-> cs]
     /\ IF op.cmd = "rebase" THEN Return /\ stopped' = op.of
                             ELSE Goto("orig", op) /\ UNCHANGED stopped
     /\ UNCHANGED <<refs, state, plan, skipped, blind, kills, cnt>>
\* Mutant: the stages are recorded beside the merged entry.
UnmergeBeside ==
  /\ op.pc = "unmerge"
  /\ idx' = [idx EXCEPT !.unmerged = Conflicts(op.base, TreeOf(op.at), TreeOf(op.of))]
  /\ Return
  /\ UNCHANGED <<refs, state, ghosts, cnt>>

\* write_conflicted_state: record_conflict on every conflicted path, save_index.
Unmerge ==
  LET theirs == IF op.cmd = "revert" THEN ParentTree(op.of) ELSE TreeOf(op.of)
      cs == Conflicts(op.base, TreeOf(op.at), theirs)
  IN /\ op.pc = "unmerge"
     /\ idx' = [tree |-> [p \in Paths |-> IF p \in cs THEN {} ELSE idx.tree[p]],
                unmerged |-> cs]
     /\ IF op.cmd = "rebase" THEN Return /\ stopped' = op.of
                             ELSE Goto("orig", op) /\ UNCHANGED stopped
     /\ UNCHANGED <<refs, state, plan, skipped, blind, kills, cnt>>

\* checkout --force: restore_to_head, or the tree an aborted rebase returns to.
Restore ==
  /\ op.pc = "restore"
  /\ idx' = [tree |-> IF op.cmd = "abortrebase" THEN TreeOf(op.to) ELSE HeadTree, unmerged |-> {}]
  /\ Goto(CASE op.cmd = "abort" -> "clear"
            [] op.cmd = "abortrebase" -> "clearname"
            [] op.cmd = "skip" -> "advance", op)
  /\ stopped' = 0
  /\ UNCHANGED <<refs, state, plan, skipped, blind, kills, cnt>>

-----------------------------------------------------------------------------
(* Refs: every move of the branch is a compare-and-swap *)

\* HeadTransaction::finish, under the locks taken before the tip was read.
Finish ==
  LET made == op.cmd = "merge"
  IN /\ op.pc = "finish"
     /\ commits' = IF made THEN Append(commits, Commit(op.tree, <<op.at, op.of>>, "merge", op.of))
                           ELSE commits
     /\ branch' = IF made THEN Len(commits) + 1 ELSE op.of
     /\ origHead' = op.at
     /\ Return
     /\ UNCHANGED <<idx, state, ghosts, cnt>>

\* finish_orig_head, set_orig_head; then start_merge, start_cherry_pick, start_revert.
SetOrigHead ==
  /\ op.pc = "orig"
  /\ origHead' = op.at
  /\ Goto("stop", op)
  /\ UNCHANGED <<commits, branch, idx, state, ghosts, cnt>>
Stop ==
  /\ op.pc = "stop"
  /\ heads' = [heads EXCEPT ![op.cmd] = op.of]
  /\ Return
  /\ UNCHANGED <<refs, idx, rebase, ghosts, cnt>>

\* commit_on_head: the tip is read again, and the commit is sealed on it.
Seal ==
  /\ op.pc = "seal"
  /\ Goto("record", [op EXCEPT !.at = branch])
  /\ UNCHANGED <<refs, idx, state, ghosts, cnt>>

\* record_commit: the branch moves if it is still where the commit was sealed.
Record ==
  LET parents == IF op.cmd = "continue" /\ heads.merge # 0
                   THEN <<op.at, heads.merge>> ELSE <<op.at>>
  IN /\ op.pc = "record"
     /\ IF branch = op.at
          THEN /\ commits' = Append(commits, Commit(op.tree, parents, op.cmd, op.of))
               /\ branch' = Len(commits) + 1
               /\ CASE op.cmd = "continue" -> Goto("clear", op)
                    [] op.cmd \in {"rebase", "resolved"} -> Goto("advance", op)
                    [] OTHER -> Return
          ELSE Return /\ UNCHANGED <<commits, branch>>
     /\ UNCHANGED <<origHead, idx, state, ghosts, cnt>>

\* reset_head: the tip is read, stored in ORIG_HEAD, and then replaced.
Reset ==
  /\ op.pc = "reset"
  /\ origHead' = branch
  /\ Goto("move", [op EXCEPT !.at = branch])
  /\ UNCHANGED <<commits, branch, idx, state, ghosts, cnt>>
\* Mutant: the branch moves wherever it is by now.
MoveUnchecked ==
  /\ op.pc = "move"
  /\ branch' = op.to
  /\ IF op.cmd = "abortrebase" THEN Goto("restore", op)
     ELSE IF op.todo = <<>> THEN Return
     ELSE Goto("replay", op)
  /\ UNCHANGED <<commits, origHead, idx, state, ghosts, cnt>>

Move ==
  /\ op.pc = "move"
  /\ IF branch = op.at
       THEN /\ branch' = op.to
            /\ IF op.cmd = "abortrebase" THEN Goto("restore", op)
               ELSE IF op.todo = <<>> THEN Return
               ELSE Goto("replay", op)
       ELSE Withdraw /\ UNCHANGED branch
  /\ UNCHANGED <<commits, origHead, idx, state, ghosts, cnt>>

-----------------------------------------------------------------------------
(* Recovery state *)

\* clear_merge, clear_cherry_pick, clear_revert: at most one of the files is there.
Clear ==
  /\ op.pc = "clear"
  /\ heads' = [h \in DOMAIN heads |-> 0]
  /\ Return
  /\ UNCHANGED <<refs, idx, rebase, ghosts, cnt>>

\* start_rebase and clear_rebase, one file after the other.
Write(pc, field, value, next) ==
  /\ op.pc = pc
  /\ rebase' = [rebase EXCEPT ![field] = value]
  /\ next
  /\ UNCHANGED <<refs, idx, heads, ghosts, cnt>>
StartRebase ==
  \/ Write("name", "name", TRUE, Goto("origfile", op))
  \/ Write("origfile", "orig", op.at, Goto("ontofile", op))
  \/ Write("ontofile", "onto", op.to, Goto("todofile", op))
  \/ Write("todofile", "todo", op.todo, Goto("base", op))
\* Mutant: REBASE_HEAD_NAME is deleted last.
ClearRebaseNameLast ==
  \/ Write("clearname", "orig", 0, Goto("clearorig", op))
  \/ Write("clearorig", "onto", 0, Goto("clearonto", op))
  \/ Write("clearonto", "todo", <<>>, Goto("cleartodo", op))
  \/ Write("cleartodo", "name", FALSE,
           IF op.cmd \in {"failed", "abortrebase"} THEN Return ELSE op' = Rebased)

ClearRebase ==
  \/ Write("clearname", "name", FALSE, Goto("clearorig", op))
  \/ Write("clearorig", "orig", 0, Goto("clearonto", op))
  \/ Write("clearonto", "onto", 0, Goto("cleartodo", op))
  \/ Write("cleartodo", "todo", <<>>,
           IF op.cmd \in {"failed", "abortrebase"} THEN Return ELSE op' = Rebased)

\* Mutant: a commit that conflicts is passed over.
ReplayPastConflicts ==
  LET c == op.todo[1]
      base == ParentTree(c)
      tree == Merged(base, HeadTree, TreeOf(c))
      o == [op EXCEPT !.cmd = "rebase", !.of = c, !.at = branch, !.tree = tree, !.base = base]
  IN /\ op.pc = "replay"
     /\ CASE op.todo = <<>> -> Goto("clearname", op)
          [] op.todo # <<>> /\ tree = HeadTree ->
               Goto(IF TreeOf(c) = base THEN "seal" ELSE "advance", o)
          [] OTHER ->
               Goto(IF Conflicts(base, HeadTree, TreeOf(c)) # {} THEN "advance" ELSE "checkout", o)
     /\ UNCHANGED <<refs, idx, state, ghosts, cnt>>

\* replay: what becomes of the first commit of the list.  Whether it changes
\* anything is asked first, so one whose every conflict keeps our side is dropped.
Replay ==
  LET c == op.todo[1]
      base == ParentTree(c)
      tree == Merged(base, HeadTree, TreeOf(c))
      o == [op EXCEPT !.cmd = "rebase", !.of = c, !.at = branch, !.tree = tree, !.base = base]
  IN /\ op.pc = "replay"
     /\ CASE op.todo = <<>> -> Goto("clearname", op)
          [] op.todo # <<>> /\ tree = HeadTree ->
               Goto(IF TreeOf(c) = base THEN "seal" ELSE "advance", o)
          [] OTHER ->
               Goto(IF Conflicts(base, HeadTree, TreeOf(c)) # {} THEN "materialise" ELSE "checkout", o)
     /\ UNCHANGED <<refs, idx, state, ghosts, cnt>>

\* set_rebase_todo with the rest of the list.
Advance ==
  LET c == op.todo[1]
      rest == Tail(op.todo)
  IN /\ op.pc = "advance"
     /\ rebase' = [rebase EXCEPT !.todo = rest]
     /\ Goto("replay", [op EXCEPT !.todo = rest])
     /\ skipped' = IF op.cmd = "skip" /\ Merged(ParentTree(c), HeadTree, TreeOf(c)) # HeadTree
                     THEN skipped \cup {c} ELSE skipped
     /\ UNCHANGED <<refs, idx, heads, plan, stopped, blind, kills, cnt>>

-----------------------------------------------------------------------------
(* The user between two commands, other writers, kills *)

Edit(c) ==
  /\ Waiting
  /\ c \notin idx.tree[PathOf[c]] /\ PathOf[c] \notin idx.unmerged
  /\ idx' = [idx EXCEPT !.tree[PathOf[c]] = @ \cup {c}]
  /\ UNCHANGED <<refs, state, op, ghosts, cnt>>

\* A conflicted path is resolved to what HEAD has, with or without a change.
Resolve(p) ==
  /\ Waiting /\ p \in idx.unmerged
  /\ \E extra \in {{}} \cup {{c} : c \in {d \in Changes \ (Foreign \cup Edits) : PathOf[d] = p}} :
       idx' = [tree |-> [idx.tree EXCEPT ![p] = (HeadTree[p] \ {Marker}) \cup extra],
               unmerged |-> idx.unmerged \ {p}]
  /\ UNCHANGED <<refs, state, op, ghosts, cnt>>

\* The locks a merge holds on HEAD's branch until it has recorded its outcome.
HeadLocked == op.cmd \in {"merge", "ff"} /\ op.pc # "stop"

\* Another writer commits a change to the branch.
Outside(c) ==
  /\ cnt.foreign < MaxForeign /\ ~HeadLocked
  /\ c \notin HeadTree[PathOf[c]]
  /\ commits' = Append(commits, Commit(With(HeadTree, {c}), <<branch>>, "foreign", 0))
  /\ branch' = Len(commits) + 1
  /\ cnt' = [cnt EXCEPT !.foreign = @ + 1]
  /\ UNCHANGED <<origHead, idx, state, op, ghosts>>

\* An error that materialise_paths or save_index returns ends a command as a
\* kill before Unmerge does.
Kill ==
  /\ op.pc \in KillAt /\ cnt.kills < MaxKills
  /\ kills' = kills \cup {<<op.cmd, op.pc>>}
  /\ cnt' = [cnt EXCEPT !.kills = @ + 1]
  /\ Return
  /\ UNCHANGED <<refs, idx, state, asked>>

-----------------------------------------------------------------------------
Start ==
  \/ \E c \in Upstreams : \E noFf \in BOOLEAN : Merge(c, noFf)
  \/ \E c \in Upstreams : CherryPick(c)
  \/ \E c \in Reach[branch] : Revert(c)
  \/ \E upstream, onto \in Upstreams : Rebase(upstream, onto)
  \/ \E h \in DOMAIN heads : Continue(h)
  \/ PlainCommit \/ ContinueRebase \/ SkipRebase
Step ==
  \/ Checkout \/ CheckoutRefused \/ Unmerge \/ Restore
  \/ Finish \/ SetOrigHead \/ Stop \/ Seal \/ Record \/ Reset \/ Move
  \/ Clear \/ StartRebase \/ ClearRebase \/ Replay \/ Advance
User == (\E c \in Edits : Edit(c)) \/ \E p \in Paths : Resolve(p)

Next ==
  \/ Start \/ Abort \/ AbortRebase \/ Step \/ User \/ Kill
  \/ \E c \in Foreign : Outside(c)

Spec == Init /\ [][Next]_vars

\* A command that runs goes on; a user who wants to be rid of it tries --abort
\* again and again.
FairSpec == Spec /\ WF_vars(Step) /\ SF_vars(Abort) /\ SF_vars(AbortRebase)

-----------------------------------------------------------------------------
(* Properties *)

Sealed == {"setup", "foreign", "pick", "revert", "merge", "rebase", "resolved", "continue", "commit"}

\* Types; parents are older than their children; an unmerged path has no
\* resolved entry in the index beside its stages (record_conflict).
TypeOK ==
  /\ \A i \in Ids :
       /\ commits[i].tree \in Tree /\ commits[i].how \in Sealed
       /\ \A d \in ToSet(commits[i].parents) : d \in 1 .. i - 1
  /\ branch \in Ids /\ origHead \in Ids \cup {0}
  /\ idx.tree \in Tree /\ idx.unmerged \subseteq Paths
  /\ \A p \in idx.unmerged : idx.tree[p] = {}
  /\ \A h \in DOMAIN heads : heads[h] \in Ids \cup {0}
  /\ rebase.name \in BOOLEAN /\ {rebase.orig, rebase.onto} \subseteq Ids \cup {0}
  /\ ToSet(rebase.todo) \cup ToSet(op.todo) \cup skipped \subseteq Ids
  /\ op.tree \in Tree /\ op.at \in Ids \cup {0}

\* A rebase died before its branch had moved to the base: while it wrote its
\* state, at the move, or before it could clear the state of a failed move.
DiedStarting ==
  kills \cap ({"rebase"} \X {"origfile", "ontofile", "todofile", "base", "reset", "move"}
               \cup {<<"failed", "clearname">>}) # {}

\* An --abort died after it had moved the branch back.
DiedAborting == kills \cap ({"abortrebase"} \X {"restore", "clearname"}) # {}

Touches(c) == {p \in Paths : TreeOf(c)[p] # ParentTree(c)[p]}

\* The paths whose content a rebase decides alone: not those that both the
\* commits and the new base changed, that a skipped commit changed, or that
\* belong to other writers.
Decided ==
  LET replayed == UNION {Touches(c) : c \in ToSet(plan.todo)}
      moved == {p \in Paths : TreeOf(plan.onto)[p] # TreeOf(plan.base)[p]}
      given == UNION {Touches(c) : c \in skipped}
      others == {PathOf[c] : c \in Foreign \cup Edits}
  IN Paths \ ((replayed \cap moved) \cup given \cup others)

\* The branch from the new base on: it has a copy of a commit, or the content
\* the commit left in every path it touched.
Rewritten == {i \in Reach[branch] : IsAncestor(plan.onto, i)}
Has(c) ==
  \E i \in Rewritten :
    \/ commits[i].how \in {"rebase", "resolved"} /\ commits[i].of = c
    \/ \A p \in Touches(c) : TreeOf(i)[p] = TreeOf(c)[p]

\* A commit that conflicts with the branch and whose every conflict keeps our
\* side: what merges is what is there, and replay takes it for one that became
\* empty.
KeepsOurs(c) ==
  \E i \in Rewritten :
    /\ Conflicts(ParentTree(c), TreeOf(i), TreeOf(c)) # {}
    /\ Merged(ParentTree(c), TreeOf(i), TreeOf(c)) = TreeOf(i)

\* A rebase that reports that every commit was replayed (RebaseOutcome::Rebased,
\* "Every commit was replayed; the rebase is complete.") has each of them or
\* was told to skip it, and its content is what the same commits would have
\* after one merge, however often it stopped, was resumed or was killed.  A
\* commit whose every conflict keeps our side is dropped without a word
\* (rebase.rs tests the tree before the conflicts): the one it may lose.
RebaseReplaysAll ==
  op.cmd = "rebased" =>
    /\ \A c \in ToSet(plan.todo) : c \in skipped \/ Has(c) \/ KeepsOurs(c)
    /\ \A p \in Decided :
         HeadTree[p] = Merged(TreeOf(plan.base), TreeOf(plan.onto), TreeOf(plan.tip))[p]
\* The same where the user continued only commits that had stopped at a conflict
\* and no command died with the branch off the new base and the REBASE_* files
\* still there.
StartedRebaseReplaysAll == ~blind /\ ~DiedStarting /\ ~DiedAborting => RebaseReplaysAll

\* --abort of a rebase ends at the commit and the tree it started from
\* (abort_rebase, "restore the branch and work tree to the pre-rebase tip"),
\* also when an earlier --abort was killed.
AbortRestoresTip ==
  op.pc = "clearname" /\ op.cmd = "abortrebase" /\ ~DiedStarting =>
    IsAncestor(plan.tip, branch) /\ Clean(TreeOf(plan.tip))

\* No step loses commits: the branch moves to a descendant, or ORIG_HEAD keeps
\* the tip it leaves (reset_head), whatever other writers commit meanwhile.
MovesAreRecoverable ==
  [][branch' # branch => branch \in Reach'[branch'] \/ origHead' = branch]_vars

\* A commit that was not resolved by hand is its change applied to its own
\* parent, also when the branch moved while the command ran; a replayed commit
\* may have been sealed on a tip another writer had just made.
BuiltOnItsParent ==
  \A i \in Ids :
    LET how == commits[i].how
        c == commits[i].of
        onto == commits[i].parents[1]
    IN /\ how = "pick" \/ (how = "rebase" /\ commits[onto].how # "foreign") =>
            TreeOf(i) = Merged(ParentTree(c), TreeOf(onto), TreeOf(c))
       /\ how = "revert" => TreeOf(i) = Merged(TreeOf(c), TreeOf(onto), ParentTree(c))
       /\ how = "merge" => \E b \in MergeBases(onto, c) :
            TreeOf(i) = Merged(TreeOf(b), TreeOf(onto), TreeOf(c))

\* Conflict markers stay out of history: a stopped command leaves the paths
\* unmerged until the user resolves them.  (A kill, or an error returned, between
\* the checkout and the write of the unmerged index leaves the markers staged.)
NoMarkersCommitted ==
  (\A k \in kills : k[2] # "unmerge") =>
    \A c \in Reach[branch] : \A p \in Paths : Marker \notin TreeOf(c)[p]

\* A merge, pick, revert or rebase that is in progress does not stay so: --abort
\* ends it, whatever stopped or died, unless a rebase died while it wrote its
\* state.  (A command killed before it wrote its state file left nothing in
\* progress; the unmerged index it may leave is not what is claimed here.)
AbortEnds == InProgress ~> (~InProgress \/ DiedStarting)
=============================================================================
