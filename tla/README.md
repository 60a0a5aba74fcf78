# gitana: a TLA+ verification project

gitana is a Git implementation in Rust: object codecs, an object store, refs,
a working tree, Smart HTTP, submodules and linked worktrees, used from a
command line, an MCP bridge and a WASI component. Its repositories are plain
Git repositories on disk, and stock git may use them at the same time.

This directory holds TLA+ models of gitana's own control logic, the TLC
configurations that check them on small repositories, and proofs that TLAPS
checks for every value of the constants.

All paths below are relative to `src/crates/core/` unless they start with `src/`.

## 1. Inventory

| Component | State it keeps | Operations | What makes it correct | Hard behaviour |
|---|---|---|---|---|
| Ref transactions (`gitana-repository/src/refs.rs`, `ref_op.rs`, `precondition.rs`) | loose ref files, `packed-refs`, `HEAD`, reflogs, `<ref>.lock` files | `transact`, `transact_checked`, `set_symbolic`, `update_ref_following_symbolic`, `remove_prefix`, `rename_prefix`, `append_reflog`, `publish_optional_ref` | compare-and-set of every ref; a batch that fails changes nothing; reflog and ref agree; no name is a directory of another | several processes, stock git, bounded lock attempts, crashes, orphaned locks, two files per ref |
| History lease (`history_mutation_lease.rs`) | `gitana-history.lock` | acquire with bounded attempts, drop | one gitana writer of history at a time | timeouts, orphaned by a crash, unknown to stock git |
| HEAD checkout (`head_lock.rs`, `head_transaction.rs`, `head_reset_plan.rs`) | `HEAD.lock`, a saved HEAD and reflog image | prepare, publish, roll back a detached HEAD; `switch -c`; reset | HEAD and the working tree agree after success or rollback | a rollback long after the snapshot; partial failure |
| Initial commit (`initial_commit_transaction.rs`) | the lease, the unborn branch | begin, recheck, publish | at most one first commit | check before the lease, recheck under it; durability |
| Repository facade (`repository.rs`, `config.rs`, `durability.rs`, `merge_state.rs`, `rebase_state.rs`, `shallow.rs`, `gated_file_store.rs`) | `config`, recovery state files | `update_config`, `reset_head`, barriers, state files | no lost configuration edit; recovery state readable after a crash | compare-and-swap loops, writes ordered by barriers |
| Revision, merge base, tree merge (`revision.rs`, `merge_base.rs`, `merge.rs`, `tree.rs`) | none | resolve, walk, merge | the algorithm's result | criss-cross histories |
| File stores (`gitana-file-store*`) | files, lock files, directories | read, compare-and-swap, replace, delete, `try_lock_path`, barriers | atomic replacement; one owner per lock; empty directories go, others stay | several processes on one directory tree |
| Object store (`gitana-object-store`, codecs in `gitana-object`) | loose objects, packs, the multi-pack index | read, write, `repack`, `prune_loose` | a reachable object can always be read | repack against readers and writers, a crash between deletes |
| Worktree (`gitana-worktree`) | working files, `index`, `index.lock` | add, checkout, status, sparse checkout | the index describes what was written | `index.lock`, a failure in the middle of a checkout |
| Linked worktrees (`gitana-linked-worktree`) | `worktrees/<name>/` (`commondir`, `gitdir`, `HEAD`, `index`), the checkout and its `.git`, `worktrees.lock` | create, recover a prepared create, remove, move, prune, repair | one registration per destination; a branch is checked out once; no half-made worktree reads as complete; nothing of the user is deleted | many files written one by one, kills, commands that take other locks, a directory scanned before it is deleted |
| Porcelain (`gitana-porcelain`) | `MERGE_HEAD`, `CHERRY_PICK_HEAD`, `REVERT_HEAD`, `REBASE_*`, `ORIG_HEAD` | commit, merge, cherry-pick, revert, rebase and their `--continue`, `--skip`, `--abort`; pull, remote, trust | an interrupted sequence can be continued or aborted without losing a commit or undoing one | many repository calls in a row, a kill between any two, other writers, refused checkouts |
| Smart HTTP, remotes, clone, credentials (`gitana-git-http`, `gitana-remote`, `gitana-clone`, `gitana-credential`) | refs and objects through the above, credentials | receive-pack, upload-pack, fetch, push, authentication retry | per-ref or atomic reports match what happened; a credential is approved once it worked | policy read before the ref moves; retry |
| Trust (`gitana-trust`) | `refs/gitana/trust` | fold of the policy chain | only authorised updates count | chain order |
| Submodules (`gitana-submodule`, with `gitana-config-native`) | `.gitmodules`, `config`, `modules/<m>/config`, a journal and a claim, private after-images | set-url and sync, init, update, deinit | a decided edit of several files is finished after any crash and loses nobody's edit | journals, publication by renames, stock Git, cancellation |
| Configuration, diff, paths, identity, layout, native file system | none of their own | parsing, layering, comparing | pure | none |
| `src/crates/cli`, `src/crates/wasm`, `src/crates/demo` | none of their own | argument parsing, bindings | pure forwarding | none |

How they interact. Everything that moves history goes through `RefStore`, in a
fixed nesting: the repository-wide lease first, then the path locks of the
refs, then the ref files, `packed-refs` and the reflogs. `gitana-file-store`
is the only interface to the disk; a lock is an exclusive create of a `.lock`
file, so it orders processes and stock git, not only tasks. The public calls
run on an owned Tokio task: a caller that is cancelled stops waiting, the
operation goes on. Stock git honours the ref locks and `packed-refs.lock`; it
does not know the lease.

The hazards of this code, each at its line, are listed in `PROJECT.json`
under `hazards`, with the properties that watch them.

## 2. Plan

| | Module | Subject | State |
|---|---|---|---|
| 1 | `RefTransaction`, `RefContract`, `RefTransactionContract`, `RefTransactionProofs`, `RefContractProofs`, `RefCommitProofs` | ref transactions and HEAD switching beside stock git; the abstract contract; every safety invariant and the refinement proved | done |
| 2 | `ObjectStore`, `ObjectStoreProofs` | packs, loose objects, repack, the durability barrier, readers, kills and a power loss; safety proved but for what overlapping repacks do lose | done but for `prune_loose` and bitmaps |
| 3 | `SetUrl`, `RollForward`, `SetUrlContract`, `SetUrlProofs` | the journalled edit of up to three configuration files, its recovery and its abstract specification; invariants and refinement proved | done |
| 4 | `Sequencer`, `SequencerProofs`, `RebaseProofs` | merge, cherry-pick, revert, rebase and commit with their recovery state; all safety properties proved | done |
| 5 | `LinkedWorktree`, `LinkedWorktreeProofs` | create, recover, remove and move of linked worktrees beside `gta switch` and `gta worktree prune`; safety proved | done but for repair and forced removal |
| 6 | `PrefixRewrite` | `remove_prefix`, `rename_prefix`: list, lock, list again | next |
| 7 | `HeadCheckout`, `InitialCommit` | prepared detached HEAD and its rollback; the first commit | next |
| 8 | `SubmoduleUpdate`, `SubmoduleDeinit` | the other journalled submodule operations | next |
| 9 | `ReceivePack` | a push's policy, quarantine and per-ref reports | next |

Each `MC...` module gives one of them a small instance. `SetUrl` and
`RefTransaction` are composed with an abstract specification by a refinement
mapping in the module named `...Contract`; `Sequencer` and `LinkedWorktree` use
a branch as what `RefTransaction` shows it to be, a value that one
compare-and-set moves.

Every safety property that a run checks, and both refinements, are stated by a theorem;
models 6 to 9 are to get theirs with them.

## 3. The ref-transaction model

### State

| Variable | In the code |
|---|---|
| `loose`, `packed`, `head`, `logs` | `refs/heads/*`, `packed-refs`, `HEAD`, `logs/*`. A value is an object id or `None`. A reflog is a sequence of old and new values; a file without entries does not exist. |
| `dirs` | the names at which there is a directory, occupied or left empty by a lock file (`prune_ref_lock_parents`) |
| `lock` | the owner of each `<path>.lock` (`HeldRefLocks`) |
| `lease` | the owner of `gitana-history.lock` |
| `pc`, `plan`, `pre`, `target` | where a process is in its call, and the call: a batch of ops with an optional `HeadSymbolic` precondition, or a switch of HEAD |
| `casc`, `want`, `tries`, `todo`, `cur`, `snap` | the locals of `transact_inline`: ops that cascade into `logs/HEAD`, locks yet to take, failed attempts, ops left, the op at hand, `packed-refs` as read |
| `result`, `touched` | what the call will report, and (for the properties) which refs it has changed |
| `git`, `dead` | stock git processes; processes that crashed |

### Actions

| Action | Code |
|---|---|
| `Transact`, `SetSymbolic` | `transact_with_policy`, `set_symbolic`: submission |
| `AcquireLease`, `LeaseBackoff`, `LeaseTimeout`, `DropLease` | `HistoryMutationLease::acquire` and its drop |
| `PlanLocks` | `transact_inline`: HEAD is read before locking, the cascade and the lock set follow |
| `AcquireLock`, `LockBackoff`, `LockTimeout`, `LockBlocked` | `lock_all`, `lock_ref`, `try_lock_path` |
| `Confirm`, `HeadMoved` | `confirm_cascades`: HEAD read again under the locks |
| `ValidateOp`, `RejectOp`, `AllValid` | `validate_locked`: compare-and-set, directory/file conflicts of refs and reflogs |
| `BeginOp`, `LogRef`, `LogRefBlocked`, `LogHead`, `WriteRef` | `commit_op` for a move: reflog, `logs/HEAD`, rename |
| `Unlink`, `ReadPacked`, `PackedUndecodable`, `RewritePacked`, `DropLog` | `commit_op` for a delete: unlink, `remove_packed_matching_locked`, drop of the reflog |
| `CommitBlocked` | an I/O error of the rename or unlink because the path is a directory or lies under a file |
| `LogSwitch`, `SetHead` | `set_symbolic_locked` on HEAD |
| `Release`, `PruneParents` | the drop of the locks one at a time, then `prune_empty_dirs` |
| `Crash`, `RemoveOrphanLocks` | a process dies at any step and its lock files stay; an operator removes them |
| `Git...` | stock git, external: update-ref, delete, pack-refs and its pruning, switch |

Each read and each write of a file is a step of its own, so every
interleaving of processes at file granularity is explored.

### Abstractions

Object ids, ref names and processes are model values. `Below` gives the refs
under a name, so a directory/file conflict needs no strings. All refs are
branches, and HEAD is symbolic. A reflog append is one step: the code rewrites
the file under a lock of the reflog's own (`force_write`), which only a writer
that holds the ref's lock reaches in this model. Left out: symbolic refs
other than HEAD, the message and identity of a reflog entry, disk errors other
than the conflicts named above, a batch that names a ref twice, and case
folding of paths.

## 4. Contract and refinement

`RefContract` says what a ref transaction promises, in terms of accepted
writes only: a batch is *accepted* at one instant, when every op's expectation
holds and no op is on a ref another accepted batch still owns; each accepted op
then takes effect once, and the ref does not change otherwise; a batch that is refused
changes nothing. `RefTransactionContract` maps the protocol to it
(`rest` are the ops a process has validated and not yet published) and states
`ImplementsContract == Contract!Spec`, which TLC checks on every behaviour of a
small instance and `RefContractProofs` proves for every instance.

## 5. The object-store model

`ObjectStore` models one repository's `objects/` directory. A pack is named by
the checksum of its content, so it is identified with the set of objects it
holds; all objects have one size, so a pack size limit is a number of objects.

| Variable | In the code |
|---|---|
| `files`, `flushed`, `midx` | loose objects, `.pack` and `.idx` files; those a barrier has flushed; the packs named by `multi-pack-index` |
| `torn`, `open` | the files without all of their content; the processes whose unfinished loose file is still at its path |
| `job` | the locals of `repack`, `repack_geometric`, `repack_batch`: the packs listed, kept and written, the loose ids, partitions left |
| `pub` | a process that writes objects (`write_object`, `write_pack`) and calls `durability_barrier_object_graphs` |
| `durable` | (for the properties) the objects a barrier has reported durable |
| `read` | a `read_object_with_limits` in progress |

| Action | Code |
|---|---|
| `StartRepack`, `FullNoop`, `FullBatch`, `GeometricBatch` | listing, the early return of `repack`, the split of `repack_geometric` and its repair of a stale multi-pack-index |
| `PlanPacks`, `WritePack`, `WriteIdx`, `FlushPacks` | `repack_batch`: pass 1 and its partitions, pass 2, the barrier on the new files |
| `DropPack`, `DropIdx`, `DropLoose`, `WriteMidx` | the deletes, one file at a time, then `write_or_clear_midx` |
| `RepackFails`, `DeleteContended`, `StopRepack` | a file it needs is gone or torn; another process holds the lock of a delete; it is killed |
| `LooseExists`, `CreateLoose`, `FillLoose` | `write_object`: the path is taken; `write_if_absent` creates the file at its final path, then writes and flushes it |
| `StartPublish`, `ReceivePack`, `ReceiveIdx`, `StopPublish` | a process that writes objects; a pack and its index, each by temporary file and rename; a kill or a failed write |
| `LookAt`, `FlushSeen`, `FlushFails`, `CheckOne`, `Moved`, `LookFails` | the barrier's snapshot, flush, second snapshot and `STABILITY_ATTEMPTS`; a torn file makes it return the error |
| `StartRead`, `ReadLoose`, `ListPacks`, `TooManyPacks`, `SearchPack`, `ProbePack`, `FetchObject`, `EndSearch` | `read_object_with_limits`, `read_packed_with_limits` |
| `PowerLoss` | of the files not flushed any may be gone and any may be empty or cut short; every process has ended |

A torn file. `write_if_absent` (`gitana-file-store-local/src/lib.rs:939`), which
`write_object` uses, does not write beside its path and rename: a kill, an error
or a power loss leaves a file that is empty or cut short. Every lookup tries
the loose file before the packs and returns its decode error, and a repeated
write takes the file for the object (`AlreadyExists`), so the file hides a good
packed copy until a person removes it. A pack is written beside its path, but a
power loss before the barrier can cut it short as well (the contract of
`FileStore` promises no more), and whoever then writes the same pack takes what
is there for it. Both are in the model, and the properties name what follows:

- `DurableSurvives` says of a durable object that a *flushed, whole copy* of it
  exists, or that it belongs to a torn pack. A torn loose file may stand in front
  of that copy.
- `ObjectsKept` says that no step but a kill or a power loss takes the last whole
  copy of an object, nor makes one unreadable: except the object whose loose file
  is being written (`BeingWritten`, unreadable from the create on, and for good
  if its writer dies), and the objects of torn packs and indexes.

The exceptions for torn files are needed: without them TLC finds a repack that
takes a torn pack for the one it would write and deletes its sources, although
`gitana-object-store/src/lib.rs:1420` says that a crash leaves
"redundant-but-correct storage a re-run cleans up".

Abstractions: reading one object, or one file, is a step; so are the last look
for the path and the rename of `write_path_stream_if_absent`, which are two
calls one after the other (a second writer of the same path writes the same
content); a torn file gives nothing, also where a torn pack would still give the
objects at its front; the caches of a process are left out (repack clears them,
and a limited read does not use them); any pack that holds an object may be the
one a lookup finds; the graph below a root is a flat set of objects. A delete
that a power loss undoes only leaves more files, and is left out.

`RollUp` is the least batch that leaves a geometric layout, which is what the two
loops of `geometric_split` compute: items of equal weight are never both kept,
so the batch is a prefix of the items by weight, the first loop skips exactly
the prefixes that leave two kept neighbours too close, and the second grows the
batch until the next item dominates it. The comment above that function claims
more, that each kept pack is at least `factor` times the total of *everything*
smaller; counts 1, 2, 4 with factor 2 are left alone, so the model follows the code.

## 6. The set-url model

`submodule set-url` and `submodule sync` change a submodule's URL in
`.gitmodules`, in the configuration the worktrees of the superproject share and
in the module's own configuration. `SetUrl` models the transaction of
`set_url_operation.rs` and the publication protocol of `gitana-config-native`
it stands on. A file image is its inode identity, its URL and the edits of
other writers it contains, so a lost edit and a confused identity both show.

| Variable | In the code |
|---|---|
| `target`, `lock`, `private` | the configuration files, `<file>.lock`, the reserved private after-images |
| `control`, `journal` | the journal directory of a worktree and the intent in it: transaction, phase, before-images, participants, recorded private files |
| `claim` | the claim in the module, which keeps commands inside the submodule from editing |
| `holder`, `op` | the holder of the update lock and the common config lock; what each process is doing |
| `git`, `done`, `fresh`, `crashes` | stock Git's edits, the edits that returned to their writer, counters |

| Action | Code |
|---|---|
| `Start`, `Check`, `ClearOrphan` | the locks, the journals of other worktrees, a claim left without a journal |
| `Plan`, `PublishClaim`, `MakeControl`, `PublishIntent` | participants read, the claim before the journal, the journal |
| `Reserve`, `Record`, `Prepare`, `MarkReady` | `reserve_file_at_if_current`, the journal learns of the private file, `prepare_reserved_file_at`, phase Ready |
| `Apply`, `Swap`, `Unlock`, `Advance` | `publish_prepared_file_at`: private to `.lock`, exchange with the target, removal of the displaced file, the phase |
| `Validate`, `Discard`, `Retire`, `Unclaim` | the published files are the recorded ones; a transaction that never became ready is discarded; the journal goes, then the claim |
| `Fail`, `Crash`, `Cancel` | a lost precondition or an I/O error; a kill; a caller that drops its future while the blocking worker runs on and keeps the locks |
| `Edit`, `GitLock`, `GitCommit` | other gitana writers, which respect locks, journals and claims; stock Git, which respects `.lock` only |

`RollForward` states what a reader of `docs/hlds/submodule-operations.md` is
promised: at most one transaction is open, it is abandoned only before it is
decided, and once decided each participant is published once before it ends.
`SetUrlContract` maps a journal to it (a transaction is decided when its journal
says Ready; what is left are the participants not yet exchanged) and TLC checks
`ImplementsRollForward` on every behaviour of the instance, crashes included;
`SetUrlProofs` proves it for every instance.

Left out: the restore functions that exist on Windows only, writers of
`.gitmodules` that take no lock, the name of the claim's staging file. Whether
a submodule is registered and its module attached is the constant `Participants`.

## 7. The sequencer model

`Sequencer` models the commands that rewrite the current branch of one worktree
and the files in which they remember what they were doing. Each await that
reads or writes the repository is a step; a command may be killed before any of
them, another writer may commit to the branch, and a checkout may be refused.

| Variable | In the code |
|---|---|
| `commits`, `branch`, `origHead` | the commit graph, the tip of HEAD's branch, `ORIG_HEAD` |
| `idx` | the index: a tree and its unmerged paths |
| `heads`, `rebase` | `MERGE_HEAD`, `CHERRY_PICK_HEAD`, `REVERT_HEAD`; `REBASE_HEAD_NAME`, `_ORIG_HEAD`, `_ONTO`, `_TODO`, each a file of its own |
| `op` | the running command and its locals |
| `plan`, `skipped`, `stopped`, `blind` | (for the properties) the rebase as asked for, and what the user did to it |
| `kills`, `cnt` | where commands were killed; counters |

| Action | Code |
|---|---|
| `Merge`, `CherryPick`, `Revert`, `Rebase` | `merge_inner`, `cherry_pick`, `revert`, `rebase`: guards, the merge base, the three-way merge, conflict or commit |
| `Continue`, `PlainCommit`, `ContinueRebase`, `SkipRebase`, `Abort`, `AbortRebase` | the follow-up commands |
| `Checkout`, `CheckoutRefused`, `Unmerge`, `Restore` | `merge_apply`, its refusals, `write_conflicted_state`, `restore_to_head` |
| `Finish`, `SetOrigHead`, `Stop`, `Seal`, `Record`, `Reset`, `Move`, `Clear` | the HEAD transaction of a merge; `ORIG_HEAD`; the `*_HEAD` files; `commit_on_head`; `record_commit`; `reset_head`; their removal |
| `StartRebase`, `Replay`, `Advance`, `ClearRebase` | the `REBASE_*` files one by one; one commit of the list; the rest of the list; their removal one by one |
| `Edit`, `Resolve`, `Outside`, `Kill` | the user stages a change or a resolution; another writer; a kill |

A tree gives each path the set of changes its content contains, none when it is
not there, and two different changes of one path conflict: this is enough to say
which changes a result lost, kept or undid. As in `merge_trees`, a conflict of two
texts leaves markers; a file that one side changed and the other deleted stays
as it is; and a path of `Opaque` (binary content, a gitlink, a file mode) keeps our
side. The instance has a branch of three commits: the first conflicts with the
upstream in a binary file alone, the second in a text, the third builds on the
second; and a foreign and a user's change on paths of their own. Reverts make
the deleted files.

`replay` compares the merged tree with HEAD's before it looks at the conflicts
(`rebase.rs:238`, 257). A commit whose every conflict keeps our side merges to
HEAD's tree, so it is dropped like one that became empty and the rebase reports
"Every commit was replayed" (`rebase.rs:23`; `rebase.rs:38` says that only commits
that become empty are dropped). The instance's first commit is such a commit.
`StartedRebaseReplaysAll` asks of every commit of the list that it was skipped, is on
the branch, or is one of these (`KeepsOurs`), and of every path the list decides
alone that it has the content of one merge; without `KeepsOurs` TLC finds it
violated. `cherry_pick` and `revert` refuse such a commit as empty
(`cherry_pick.rs:83`, `revert.rs:81`), which loses nothing.

`NoMarkersCommitted` excepts markers left by a command that ended between the
checkout and the index: by a kill, or by an error of `materialise_paths`,
`load_index` or `save_index` (`conflict.rs:167`), which `Kill` at that point stands for.
`AbortEnds` says that an operation in progress ends; a merge or pick killed before its
state file exists leaves an unmerged index with no operation in progress, of
which it says nothing.

Two premises leave out what the code has no answer to, and both are listed as
hazards: `DiedStarting` (a rebase killed before its branch had moved: its state is
half written, or names a branch that is still on its old tip) and
`DiedAborting` (a rebase continued after an `--abort` was killed). Left out
altogether: two commands at once in one worktree, a detached or unborn HEAD,
unrelated histories, virtual merge bases, messages, unstaged content other than
as a refused checkout, merges within a file, a directory/file conflict as a conflict
of two paths, stock git's rebase directories, a
kill inside a checkout. A killed merge leaves lock files, which the user removes.

## 8. The linked-worktree model

`LinkedWorktree` models the library calls that create, recover, remove and move
a linked worktree, file by file, under `worktrees.lock` and, for a create, the
history lease. One caller is a client that repeats `recover_prepared_create`
until its worktree is there; a rival makes other calls; `gta` commands and the
user run beside them.

| Variable | In the code |
|---|---|
| `admins` | `worktrees/<name>/`: `commondir`, `gitdir`, `HEAD`, `index` |
| `checkouts` | the destinations: tracked files, what only the user has, `.git` |
| `tips`, `mainHead` | the branches, a position on one line of history; HEAD of the main worktree |
| `regLock`, `lease` | `worktrees.lock`, `gitana-history.lock`; `Stale` when a dead process left it |
| `calls`, `gta` | the running calls and the running `gta switch` or `gta worktree prune` |
| `astray`, `overtaken`, `late` | (for the properties) a move killed half way, an admin pruned from under a call or a checkout, a write after the last look |

| Action | Code |
|---|---|
| `Start`, `Return` | `RegistrationLock::acquire`, every return and the guards it drops |
| `CreateLook` ... `RecoverCleared` | `create_inner`, `prepared_partial_admin`, `discard_prepared_partial` |
| `CreateResolve` ... `CreateDone` | `write_worktree`: tip and admin name, branch, lease, the admin's directory and files, the checkout, the index, `.git`, and the decision taken again at the end |
| `RemoveLook`, `RemoveRecheck`, `RemoveEntry`, `RemoveDirectory`, `RemoveDeregister` | `remove_conservative`, `perform_remove` |
| `MoveLook`, `MoveRecheck`, `MoveRename`, `MoveDropStale`, `MoveBacklink`, `MoveRelink` | `relocate`, `perform_relocate`, `finish_relocate` |
| `SwitchLook`, `SwitchPublish`, `PruneLook`, `PruneDrop` | `gta switch` between its scan and its publication, `gta worktree prune` between its reason and its removal |
| `UserWrites`, `UserDeletes`, `MoveBranch`, `Kill`, `MoveIncomplete`, `RemoveStaleLocks` | the user, other writers of branches, a kill, a move that fails after its rename, a person who removes dead locks |

`Inspect` is the inspection all calls decide from, as one atomic read: a call
reads under `worktrees.lock`, and the interleavings that matter, with those who
do not take that lock, are between an inspection and the writes it leads to.

`gta worktree prune`, `remove` and `move` hold the exclusive guard of the
repository's shared configuration to their end; every other `gta` command holds
the setup lease, which is the same lock taken shared
(`gitana-submodule/src/update_operation.rs:3014`). So a prune excludes every other
`gta` command, while two switches may overlap: the model runs one command at a
time and leaves the overlap of two switches out. Library callers do not take that
lock, and `gta worktree prune` does not take `worktrees.lock`. That is why
`NoOrphanCheckout` excepts an admin that was `overtaken`; it also excepts a
checkout `astray`, whose move was killed between the rename and the backlink, or
failed there (`MoveIncomplete`: `finish_relocate` returned an error, the caller is
told `Incomplete` and the locks are released); a removal at the old path then drops
its registration.
`RecoveryConverges` excepts the states of `NeedsAPerson`. Each exception was
checked to be needed. Two of them are about kills alone: a create killed
between `gitdir` and `HEAD` reads as an identity conflict, although
`create.rs:875` says that one interrupted before `.git` reads as
`PartialRegistered`; one killed between making `.git` and writing it makes
every inspection of the destination fail.

Left out: detached and orphan targets (`RequestAssumption` says that a create
names its branch), locked worktrees, forced removal,
`gta worktree repair` and stock git's worktree commands, the primary and
enclosure checks, symlinks and path spellings, sparse indexes, commits anchored
in an admin only, torn in-place pointer writes, logs and `ORIG_HEAD` of a new
worktree, enumeration.

## 9. Runs

Deadlock checking is off where the bounds end the behaviour: with the calls used
up and nothing in progress the system rightly stops.

| Run | Question | Bounds |
|---|---|---|
| `ref_txn_interop` | One gitana process against one git process, `x` and `x/y`, with a crash and orphaned locks: are writes covered by locks, expectations kept and waits acyclic, and do the two names ever exist together? | 2 operations each, batches of one or two ops with or without a reflog entry, switches of HEAD, 1 crash, 2 lock attempts, undecodable `packed-refs` |
| `ref_txn_pair` | Two gitana processes with batches, switches of HEAD and a crash, while git updates, packs and switches: does the protocol implement `RefContract`, does every operation return, is `packed-refs` rewritten from its current content, are published tips logged, does `logs/HEAD` end at HEAD's tip? | `FairSpec`, 2 gitana operations, 1 git operation, 1 crash, one loose branch over an older packed value |
| `ref_txn_nested_lease` | `x` and `x/y` with gitana processes alone: does a failed batch leave everything alone, and a validated one meet no conflict? | 2 processes, 2 operations, batches of up to two ops |
| `ref_txn_non_utf8` | *(expected violation)* a failure applies nothing | 1 delete, undecodable `packed-refs` |
| `ref_txn_orphan_directory` | *(expected violation)* a validated commit meets no directory or file in its way | 1 process, 2 operations, 1 crash, no stock git |
| `objects_durable` | Is what was reported durable still in a flushed file after a kill and a power loss that tears files, and does no step take or hide an object but as `ObjectsKept` names? | 3 objects, 2 repacks of one process, 1 publication of two objects, loose or packed, 1 stop, packs of 1 or 2 objects, 2 attempts |
| `objects_readers` | Do two repacks at once keep every object while all fit in one pack, and does a reader ever report a durable object missing? | 3 objects, 2 repacks, 1 kill, 1 read, at most 2 packs seen |
| `objects_two_repacks` | *(expected violation)* repack makes no object unreadable | 2 repackers, packs of 2 objects, 1 loose object written |
| `set_url_recovery` | Does set-url roll forward after any crash, lose no edit, stay out of the way of others and always end? | `FairSpec`, 2 processes, 2 worktrees, 2 transactions or edits, 1 edit by stock Git, 2 crashes or cancellations |
| `sequencer` | Do sequences of commands with a kill, a foreign commit and a refused checkout keep every commit but those whose every conflict keeps our side, and does `--abort` always end? | `FairSpec`, 3 commands besides `--abort`, 1 foreign commit, 1 refusal, 1 kill at any point, one path merged as binary |
| `rebase_continue` | *(expected violation)* a rebase that reports completion has replayed every commit | 3 commands, 1 refusal, no kill |
| `linked_worktree` | Do registrations stay unique, checkouts registered, users' files in place and lost races reported, and does a repeated create arrive? | `FairSpec`, 2 destinations, 3 branches, 2 calls of the rival out of six requests, 1 `gta` command, 1 edit by the user, 1 kill at any point or move that fails half way |

Why the bounds are enough. Every hazard of the refs needs at most two processes
and two refs. Two lock attempts separate the first, a retried and the last
attempt. Two operations allow a second one to run into what the first, or its
crash, left behind. Two object ids tell an expected value from another. In the
object store, three objects are the fewest for which the geometric repack keeps
one pack and rolls up another, and two repacks the fewest for one to meet what
another left. In set-url, two worktrees share one of the three files, which is the
only way two journals meet; the second crash falls into the recovery from
the first. In the sequencer, three commands are a rebase, its `--continue` and one
more, and three commits are the fewest for which one is dropped, one stops and one follows. For linked
worktrees, two calls of the rival let one run on what the other left, and the
client calls any number of times; the invariants, not the action and liveness
properties, were checked with two edits by the user too (3,186,703 states).

Four runs show a disagreement between the code and what its comments say; they
are described under `findings` in `PROJECT.json`:

- a delete while `packed-refs` holds a name that is not UTF-8 reports a failure
  after it has unlinked the loose ref (`refs.rs:1579` against `refs.rs:728`);
- a delete is validated without a look at its own path, and fails after it wrote
  to `logs/HEAD` when a directory is there: the one that `refs/heads/x/y.lock`,
  orphaned by a crash and removed by hand, leaves while `x` is packed only
  (`refs.rs:1075` against `refs.rs:1026` and `docs/hlds/ref-transactions.md:239`).
  Without a crash and stock git the claim holds, and is proved (section 11);
- two repacks at once can delete every copy of an object: each deletes the packs
  it listed and did not reproduce, and no lock excludes the other
  (`gitana-object-store/src/lib.rs:1615` against line 1419). While everything
  fits in one pack this cannot happen (`objects_readers`, proved in section 11): the pack one repack
  writes can be a source of the other only if the other's pack contains it;
- a rebase whose replay was refused by a file in the way keeps the commit first
  in its list with nothing of it in the index; an unrelated edit that is then
  staged and continued is committed in its place, and the rebase reports that
  every commit was replayed (`rebase.rs:278` against `rebase.rs:23`).

What the other properties of each run say, with the code they are about, is
written above their definitions.

## 10. Fairness

| Specification | Assumed | Why the code justifies it |
|---|---|---|
| `RefTransaction!FairSpec` | weak fairness of each live gitana process's own steps | an operation runs on an owned task to its end, its waits are sleeps with a bounded number of attempts, and a waiting process can always take the lock, back off or give up. Nothing is assumed of stock git, the operator or callers. |
| `SetUrl!FairSpec` | weak fairness of a running transaction and of stock Git's commit once it holds `.lock`; strong fairness of running set-url again in a worktree | the code recovers when the next set-url of the worktree runs; whether it may start depends on locks others take and release |
| `Sequencer!FairSpec` | weak fairness of a running command; strong fairness of `--abort` | a command has no wait; the user who wants to be rid of an operation asks again |
| `LinkedWorktree!FairSpec` | weak fairness of each call's steps, of a `gta` command that has begun and of the removal of stale locks; strong fairness of the client's repetition | calls do not wait except for `worktrees.lock`, with bounded attempts; no code breaks a stale lock, a person does; the client is a caller that retries, as the recovery entry point is meant for |

## 11. Proofs

Each theorem holds for every value of the constants the named assumptions allow:
any set of refs, objects, processes, worktrees and requests, and any bound. TLC
evaluates the assumptions in the runs. They say that the markers of absence
(`None`, `Free`, `Stale`, `Torn`) are not among the values they stand beside,
that requests and initial repositories have the shapes the code's types give
them, that the ranks of objects and refs are numbers, that the histories a sequencer
run starts from are sequences of changes, and that bounds are natural.

### Ref transactions

| Module | Theorem | Says |
|---|---|---|
| `RefTransactionProofs` | `TypeCorrect` | the variables keep their types |
| | `LockDiscipline` | `LocksCoverCommit`: nothing is validated or written without its lock |
| | `NoLostUpdate` | `PendingStillExpected`: what was validated is still there when it is replaced |
| | `NoLostPackedEntry` | `PackedRewriteIsCurrent`: `packed-refs` is rewritten from its current content |
| | `NoCircularWait` | `NoLockCycle`: no cycle of waits with stock git through `packed-refs.lock` |
| `RefContractProofs` | `ImplementsTheContract` | `ImplementsContract`: the protocol refines `RefContract`, beside stock git and with crashes at any step |
| `RefCommitProofs` | `NamesStayDisjoint` | `NamespaceDisjoint`: no name is a directory of another, loose or packed, beside stock git and with crashes |
| | `TipsAreLogged` | `LooseTipIsLogged`, if every move of a batch is logged and changes its ref (`EveryMoveLogged`), beside stock git and with crashes |
| | `ValidatedCommitsGoThrough` | `ValidatedCommitNotBlocked`, while `Undisturbed`: nobody has died and stock git did nothing |
| | `FailuresApplyNothing` | `FailureAppliesNothing`, while `Undisturbed` and if `packed-refs` can be decoded |
| | `HeadLogEndsAtTip` | `HeadLogFollowsTip` (which supposes the same of crashes and git itself), if every op is logged (`EveryOpLogged`) and `packed-refs` can be decoded |

None of the invariants is inductive alone. `Invariant` proves the
strengthening `IndInv == TypeOK /\ Control /\ Holding /\ Current`:

- `Control` ties a process's phase to its request: what it works on is part of
  its batch, and a switch of HEAD never enters the phases of a transaction.
- `Holding` says who owns what: between taking and releasing, a process owns
  every lock it needs and no longer wants. Since `packed-refs.lock` is last in
  the order, a process that still waits for another lock does not own it. A git
  process that works on a ref owns its lock.
- `Current` says that what was checked under a lock still holds while the lock
  is owned: pending ops match their expectation, and the `packed-refs` read for
  a rewrite is the one on disk.

The argument that `Current` is preserved is the heart of it: every action that
writes a ref or `packed-refs`, of gitana or of git, owns that file's lock
(`ProcessWritesOwn`, `GitWritesOwn`), a lock has one owner, and therefore no
other process's pending op is disturbed. A pruning or packing git process
changes where a value is stored and not the value that is resolved.

The refinement needs one thing more, `Kind`: the op at hand is a move or a
delete according to the step it is at, and a ref being deleted has no loose file
once it was unlinked. In between, its old packed value would be visible; the
contract sees the expected value until `packed-refs` is rewritten
(`LockedValue`), which is sound because the ref's lock keeps everybody who
honours locks out. `Deleted` shows that at most one process is in that window,
`RestExpected` that an accepted op finds what it was accepted for. There is then
one lemma per abstract action (`OpenStep`, `AcceptStep`, `ApplyStep`,
`CompleteStep`, `RefuseStep`, `AbandonStep`), one for steps the contract does
not see and one for stock git.

`RefCommitProofs` adds what the disk looks like around the refs:

- `PathInv`, beside stock git and with crashes. The directories above every ref
  file and every ref lock are there (`DirsCover`), and no path is a file and a
  directory (`FilesNotDirs`). So a process that holds the lock of `x/y` keeps
  anybody from making a file at `x`, and a file at `x` keeps anybody from taking
  that lock; neither looks at the other's lock. Packed names have no such
  protection, but they only come up under `packed-refs.lock`, which the process
  holds from its validation on, and so what it was validated against stays
  absent (`Preflight`). `OneMoreName` puts the two together.
- `LogInv`, beside stock git and with crashes: the reflog tells a move's new
  value before the ref is written (`Ahead`), and it is changed only under the
  ref's lock. The hypothesis `EveryMoveLogged` excludes moves the caller does not
  want logged, and no-op moves: the code writes the ref and not the log for those,
  and a delete that died half-way may have left an older packed value, of which
  the reflog need not tell, for a no-op move to repeat.
- `AloneInv`, while `Undisturbed`. The lease leaves one process at work (`Solo`),
  and it cleans up after itself, so every directory has a file or a lock below
  it (`DirsNeeded`). Then a delete needs no preflight (`NoDirectoryInBatch`): a
  directory at a ref that resolves would have to be held up by a lock of the same
  batch, and the op that took it would have been refused. `Clear` says that this
  and the reflogs' paths stay so until the ops are written, although the batch
  itself makes files and reflogs on the way. A crash breaks exactly `DirsNeeded`,
  which is the disagreement `ref_txn_orphan_directory` shows.
- `HeadLogs`: `logs/HEAD` ends at HEAD's tip or, between the append and the write,
  at what is about to be written (`Pending`).

TLC checked these invariants on the small instances before they were proved.

### Set-url

| Theorem of `SetUrlProofs` | Says |
|---|---|
| `TypeCorrect` | the variables keep their types |
| `EditsSurvive` | `NoEditLost`: an edit that returned to its writer stays in its file |
| `RecoveryIsPossible` | `OnlyGitOvertakes`: while a journal is pending, only stock Git can replace a participant's file |
| `RecoveryIsComplete` | `ReadyCanFinish`: from Ready on, every after-image still to be published and the claim are there |
| `Implements` | `ImplementsRollForward`: the transaction refines `RollForward`, crashes, cancellations and recoveries included |

The inductive invariant `IndInv` follows the files instead of the program: each
participant of a pending transaction is *planned* (untouched, no private file of
the transaction), *staged* (its after-image complete in the private file),
*locked* (moved to `<file>.lock`), *displaced* (exchanged with the target, the
before-image under `.lock`) or *out*, and stock Git can have replaced a file
only where no `.lock` of the transaction stands. A running process adds where
it is in that order: up to which participant it has reserved, prepared or
published (`DraftOK`, `StageOK`, ...). A crash or a cancellation keeps the
files' part, and that part is what a recovery starts from, which is why the
refinement does not have to look at crashes separately. Identities of images
only grow (`Numbered`), so a before-image is never mistaken for an after-image.
`AbsentAssumption` says that the absence of a file or journal is not an image or
an intent.

### The object store

| Theorem of `ObjectStoreProofs` | Says | Of behaviours |
|---|---|---|
| `TypeCorrect` | the variables keep their types | all |
| `DurableObjectsSurvive` | `DurableSurvives`: what a barrier reported has a whole flushed copy, or belongs to a torn pack, through kills inside a write and power losses that tear files | with compatible repacks |
| `DurableObjectsFound` | `DurableIsFound`: a reader never reports a durable object missing | with compatible repacks |
| `NoObjectDropped` | `ObjectsKept`: no step but a stop takes the last whole copy of an object; none makes one unreadable but a loose file being written or a torn pack or index | with compatible repacks |
| `OnePackIsEnough` | the last three at once, any number of repacks overlapping | where every pack size asked for takes the whole store |

`Compatible` says that two repacks that delete their sources at the same time
have written one pack each. It holds when no two repacks overlap, and also when
they do and each needs one pack only, whatever the processes. Three theorems are
stated under `[]Compatible`; without it they are false: the code serialises
nothing, and the run `objects_two_repacks` loses an object to two repacks that write
two packs each. The hypothesis restricts only repacks, and only their deletions;
publishers, readers, kills and power losses interleave freely. `OnePackIsEnough`
has no hypothesis on behaviours: `FitsOnePack` compares the size limits with the
store, and `PlansOnce` proves that then every state is compatible.

The invariant behind them has a part per participant. For the repack: all it
listed and will delete is planned for a new pack or already in one, and from the
first delete on everything it made is flushed, or is part of a flushed pack
that another repack made and deleted it for (`Lasts`). A pack that is deleted is
always contained in the one its deleter made without being that one, so what
replaces it is larger and two repacks cannot delete each other's packs. Hence
every deletion leaves a flushed copy, or a torn pack in its place: the copies
that count are those of `Copies`, whole files and torn packs, and `DurableKept`
says that every durable object has one among the flushed files. A torn *loose*
file counts for nothing; what keeps it harmless is that an unfinished one has one
writer and is torn until that writer has filled it (`OpenOK`), that a barrier flushes what a snapshot could
decode, and that a repack which meets it fails before it deletes. For a publisher: what it is about to report was seen in a file
that still stands and has been flushed, or it will look again. For a reader: a
pack it has not searched holds the object, or what it observed has changed and
it has another pass to go.

### Linked worktrees

| Theorem of `LinkedWorktreeProofs` | Says |
|---|---|
| `TypeCorrect` | the variables keep their types |
| `DestinationsAreUnique` | `RegistrationUnique`: no destination is registered twice |
| `CheckoutsAreOwned` | `NoOrphanCheckout`: no checkout loses its admin, apart from the exceptions of section 8 |
| `CheckoutsAreComplete` | `LiveIsComplete`: a checkout and an admin that name each other are complete |
| `LostRacesAreReported` | `LostRaceIsReported`: a create that returns success has its branch to itself |
| `ContentIsKept` | `UserContentKept`: what only the user has goes only where the user was told or wrote after the last look |

`worktrees.lock` leaves one call running, so the invariant is what that call may
rely on at each of its points (`CreateOK`, `RemoveOK`, `MoveOK`) although a
prune, a switch and the user can come between any two of its steps. A prune can
take the admin the call is writing (`Lost`); the call then fails or leaves a
checkout that `overtaken` names. The two action properties are proved from the
same invariant, one action at a time.

### The sequencer

| Theorem | Says |
|---|---|
| `TypeInvariant` | `TypeOK`: the types, parents older than children, no resolved entry beside an unmerged path's stages |
| `TipsAreRecoverable` | `MovesAreRecoverable`: the branch moves to a descendant or ORIG_HEAD keeps the tip it leaves |
| `CommitsAreBuiltOnTheirParents` | `BuiltOnItsParent`: a commit nobody resolved by hand is the merge with its own parent, whatever other writers committed meanwhile |
| `MarkersStayOut` | `NoMarkersCommitted`: conflict markers are in no commit unless a command that ended before its index write left them staged |
| `AbortGoesBack` | `AbortRestoresTip`: an `--abort` of a rebase ends at the commit and the tree it started from |
| `RebaseKeepsEveryCommit` | `StartedRebaseReplaysAll`: a rebase that reports itself complete has every commit of its list but those skipped and those whose every conflict keeps our side, and has, at every path it decides alone, the content of one merge of all its commits with the new base |

The last theorem is in `RebaseProofs`, the others in `SequencerProofs`. They
hold for every history and any number of commands, foreign commits, refused
checkouts and kills. Reachability is a recursive function on the commits, so the
first part of the module is about functions of that kind: a parent is older
than its child, hence what holds of a commit when it holds of all older ones
holds of every commit (`OldestFirst`, from the least counterexample). From this
follow that `Reach` is what its definition unfolds to (`ReachUnfolds`), that it is
bounded by the commit and transitive (`ReachBounds`, `ReachTransitive`), and
that appending a commit changes it for no older commit (`ReachAppend`,
`HistoryKept`). Merge bases are defined from reachability, so a merge
commit stays the merge of the base it was computed from.

The inductive invariant has a part per question, each checked by TLC before it
was proved:

- `Typed`: the types of everything, and which command can be at which point.
- `Tips`: a merge has locked the tip it works on; ORIG_HEAD holds the tip that is
  about to be left.
- `Computed`: from the computation to the record, a command's tree is
  the merge it computed, with the tip it will be sealed on unless another writer made
  that tip.
- `Markerless`: markers are in the index only between the checkout and the index
  write, at the conflicts that the write makes unmerged.
- `Returning`: while REBASE_HEAD_NAME makes it a rebase, REBASE_ORIG_HEAD is the
  tip it started from, and an `--abort` that moved the branch is on its way there.

That a rebase replays everything (`RebaseKeepsEveryCommit`) takes four steps of
another kind:

1. The list is a chain. In a history without merges between the merge base and
   the tip, a commit reaches what its only parent reaches and itself
   (`OneParent`), so those of the range that are not younger than a commit are
   those it reaches (`Linear`). The list in order of age therefore goes from the
   base to the tip with each commit the parent of the next (`ReplayChain`), which
   is why the code may take each commit's diff against its parent and apply them
   in turn.
2. Merges compose. A path that not both sides changed between the base and the
   tip (`Decided`) meets no conflict at any commit, whether the branch has what
   comes before the commit or has the commit already, and applying the commit
   leaves what one merge up to that commit has (`MergeOne`, `NextApplies`). The
   second case is what makes it harmless that a command is killed between the
   new commit and the shorter REBASE_TODO, after which the commit is replayed again.
3. `RebaseInv` follows the rebase. REBASE_TODO is a rest of the plan (`Listed`);
   the branch has what comes before it or one commit more, and the index of a
   stopped commit has what that commit adds (`Resting`); a rebase that starts
   and one that replays hold in addition what they have read and written so far
   (`Settled`, `Working`); no other command comes in between, because
   REBASE_HEAD_NAME and the recovery state of the others keep each other out
   (`Exclusive`).
4. `Counted` keeps the accounts: every commit that REBASE_TODO no longer lists
   (`Struck`) is `Accounted` for, by a commit of the branch above the new base that
   names it, has its content or keeps our side in all its conflicts, or by the
   user who skipped it. A commit that became empty is there with its content
   exactly when it did not conflict, which is the case the code cannot tell from
   the other. The branch only grows while it is rebased, so what is accounted for
   stays so (`AccountedStays`); a commit leaves the list only after it was recorded,
   found empty or skipped (`ReplayCounts`, `RecordCounts`, `AdvanceCounts`).

Both invariants hold under `Followed`, the exceptions the property names itself: the
user continued only commits that had stopped, and no command died with the
branch off the new base and REBASE_HEAD_NAME still there. The run
`rebase_continue` shows what happens in the first case without it.

### Only model-checked

- The liveness properties (`EveryOperationReturns`, `RecoverySettles`,
  `AbortEnds`, `RecoveryConverges`): liveness under fairness is beyond the prover.

## 12. Not modelled

`PROJECT.json` gives the reason for each component. In short:

- Operations of modelled components still to come: the prefix operations, updates
  through symbolic refs, `publish_optional_ref` and `append_reflog`; detached
  HEAD; the first commit; `prune_loose`, bitmaps and caches; submodule init,
  update and deinit; worktree repair and forced removal.
- Protocol endpoints (Smart HTTP, remotes, clone, credentials): their state is
  the refs and objects above; their own control is a request and a response.
- Codecs, parsers, diff, status, path rules, configuration layering, argument
  parsing and the bindings. They make up most of the source. They are sequential
  functions from bytes to values without shared state, whose correctness is in
  the bytes a model abstracts from, and the repository tests them against stock
  git. The models therefore cover a small share of the lines: the part in which
  an order of steps, a crash or another process can matter.
