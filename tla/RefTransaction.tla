--------------------------- MODULE RefTransaction ---------------------------
(***************************************************************************)
(* The ref-transaction engine of gitana-repository (RefStore::transact in   *)
(* src/crates/core/gitana-repository/src/refs.rs) on one on-disk            *)
(* repository, together with RefStore::set_symbolic on HEAD.                *)
(*                                                                         *)
(* A gitana process takes the repository-wide history lease, reads HEAD to  *)
(* fix its lock set, takes the path locks in a fixed order, re-reads HEAD,  *)
(* validates every op and then commits the ops one by one: reflog first,    *)
(* then the ref.  Stock git shares the ref locks and packed-refs.lock but   *)
(* not the lease.  A process may crash at any step and leaves its locks     *)
(* behind; an operator may remove them.                                     *)
(***************************************************************************)
EXTENDS Naturals, Sequences, FiniteSets

CONSTANTS
    Refs,           \* ref names, all of them branches (refs/heads/...)
    Oids,           \* object ids
    None,           \* an absent value
    Procs,          \* gitana processes
    Gits,           \* stock git processes (external)
    Free,           \* the owner of a lock nobody holds
    Below,          \* Below[n]: the refs whose names are strictly under n/
    RefRank,        \* the lexical order of ref names
    LockAttempts,   \* attempts on a contended lock (50 in the code)
    Plans,          \* the batches callers submit: functions from refs to ops
    Preconditions,  \* HeadSymbolic preconditions callers assert, None for none
    Targets,        \* branches a caller may switch HEAD to
    Stores,         \* the repositories a run starts from
    Logged,         \* names core.logAllRefUpdates logs: refs and "HEAD"
    NonUtf8Packed,  \* packed-refs also holds an entry that is not UTF-8
    GitOps,         \* what stock git does: "update", "delete", "pack", "switch"
    MaxTxns,        \* bound: operations gitana processes start
    MaxGit,         \* bound: operations stock git starts
    MaxCrashes      \* bound: gitana processes that crash

HeadLock == "HEAD"
PackedLock == "packed-refs"
Locks == Refs \cup {HeadLock, PackedLock}
Values == Oids \cup {None}
Op == [expected : Values, new : Values, log : BOOLEAN]
NoPlan == [n \in {} |-> None]

ASSUME RefAssumption ==
    /\ None \notin Refs \cup Oids
    /\ Refs \cap {HeadLock, PackedLock} = {}
    /\ Below \in [Refs -> SUBSET Refs]
    /\ RefRank \in [Refs -> Nat]
ASSUME OwnerAssumption == Free \notin Procs \cup Gits /\ Procs \cap Gits = {}
ASSUME RequestAssumption ==
    /\ \A plan \in Plans : DOMAIN plan \subseteq Refs /\ \A n \in DOMAIN plan : plan[n] \in Op
    /\ Preconditions \subseteq Refs \cup {None}
    /\ Targets \subseteq Refs
    /\ Stores \subseteq [loose : [Refs -> Values], packed : [Refs -> Values], head : Refs]
ASSUME ScopeAssumption ==
    /\ LockAttempts \in Nat \ {0}
    /\ Logged \subseteq Refs \cup {HeadLock}
    /\ NonUtf8Packed \in BOOLEAN
    /\ MaxTxns \in Nat /\ MaxGit \in Nat /\ MaxCrashes \in Nat

VARIABLES
    loose,      \* loose ref files
    packed,     \* the packed-refs table
    dirs,       \* refs whose path is a directory
    head,       \* the branch HEAD names
    logs,       \* reflogs: a file exists when its log is not empty
    lock,       \* the owner of every path lock
    lease,      \* the owner of gitana-history.lock
    pc,         \* where each gitana process is
    plan,       \* the ops of its transaction
    pre,        \* its HeadSymbolic precondition
    target,     \* the branch it switches HEAD to, None for a transaction
    casc,       \* its ops that cascade into logs/HEAD
    want,       \* locks it has yet to take
    tries,      \* failed attempts on the lock it waits for
    todo,       \* ops it has yet to validate, then to commit
    cur,        \* the op it is committing
    snap,       \* packed-refs as it read them for a rewrite
    result,     \* the outcome it will report
    touched,    \* refs whose stored value it has changed
    git,        \* what each stock git process is doing
    dead,       \* processes that crashed
    begun, gitBegun, crashes    \* counters of the bounds

disk == <<loose, packed, dirs, head, logs>>
request == <<plan, pre, target>>
work == <<casc, want, tries, todo, cur, snap>>
outcome == <<result, touched>>
external == <<git, gitBegun>>
life == <<dead, crashes>>
vars == <<disk, lock, lease, pc, request, work, outcome, external, begun, life>>

(***************************************************************************)
(* Reading refs.                                                           *)
(***************************************************************************)

\* RefStore::resolve: a loose file shadows the packed entry.
Visible(n) == IF loose[n] # None THEN loose[n] ELSE packed[n]

Above(n) == {a \in Refs : n \in Below[a]}

\* A strict ancestor of n is a loose ref file.
FileAbove(n) == \E a \in Above(n) : loose[a] # None

\* path_write_blocked: a file above the path, or a directory at it.
PathBlocked(n) == FileAbove(n) \/ n \in dirs

\* Mutant: the packed namespace is not inspected.
RefPathBlockedLooseOnly(n) == PathBlocked(n)

\* Mutant: no directory is noticed at the path itself.
RefPathBlockedNoDir(n) ==
    FileAbove(n) \/ \E m \in Above(n) \cup Below[n] : packed[m] # None

\* ref_path_write_blocked: also a packed strict ancestor or descendant.
RefPathBlocked(n) ==
    PathBlocked(n) \/ \E m \in Above(n) \cup Below[n] : packed[m] # None

LogBlocked(n) == \E m \in Above(n) \cup Below[n] : logs[m] # <<>>

\* Mutant: should_log without core.logAllRefUpdates, only reflogs that exist.
ShouldLogExistingOnly(n) == logs[n] # <<>>

ShouldLog(n) == n \in Logged \/ logs[n] # <<>>

Entry(old, new) == [old |-> old, new |-> new]

\* Directories left empty once files and lock files are as given.
Empty(files, locked) ==
    {d \in Refs : \A m \in Below[d] : files[m] = None /\ locked[m] = Free}

\* prune_empty_dirs for each of the names: the empty directories above them go.
Pruned(names, files, locked) ==
    {d \in dirs : ~(d \in Empty(files, locked) /\ names \cap Below[d] # {})}

DiskOK ==
    /\ loose \in [Refs -> Values] /\ packed \in [Refs -> Values]
    /\ dirs \subseteq Refs /\ head \in Refs
    /\ logs \in [Refs \cup {HeadLock} -> Seq([old : Values, new : Values])]

LockOK ==
    lock \in [Locks -> Procs \cup Gits \cup {Free}] /\ lease \in Procs \cup {Free}

RequestOK ==
    /\ plan \in [Procs -> Plans \cup {NoPlan}]
    /\ pre \in [Procs -> Refs \cup {None}] /\ target \in [Procs -> Refs \cup {None}]

WorkOK ==
    /\ pc \in [Procs -> {"idle", "lease", "plan", "lock", "validate", "commit", "log",
                         "headlog", "write", "unlink", "readpacked", "rewrite", "unlog",
                         "sethead", "release", "unlease"}]
    /\ casc \in [Procs -> SUBSET Refs] /\ want \in [Procs -> SUBSET Locks]
    /\ tries \in [Procs -> 0 .. LockAttempts - 1]
    /\ todo \in [Procs -> SUBSET Refs] /\ cur \in [Procs -> Refs \cup {None}]
    /\ snap \in [Procs -> [Refs -> Values]]

OutcomeOK ==
    /\ result \in [Procs -> {"none", "ok", "locked", "moved", "rejected", "failed"}]
    /\ touched \in [Procs -> SUBSET Refs]

OthersOK ==
    /\ git \in [Gits -> [pc : {"idle", "ref", "both", "pack"}, ref : Refs \cup {None}]]
    /\ dead \subseteq Procs
    /\ begun \in Nat /\ gitBegun \in Nat /\ crashes \in Nat

\* Every variable has its type.
TypeOK == DiskOK /\ LockOK /\ RequestOK /\ WorkOK /\ OutcomeOK /\ OthersOK

\* A branch may be loose, packed or both; its reflog, when it has one, ends at its tip.
Init ==
    /\ \E store \in Stores :
         loose = store.loose /\ packed = store.packed /\ head = store.head
    /\ \A n \in Refs : \A m \in Below[n] : Visible(n) = None \/ Visible(m) = None
    /\ dirs = {d \in Refs : \E m \in Below[d] : loose[m] # None}
    /\ logs = [n \in Refs \cup {HeadLock} |->
                 LET tip == Visible(IF n = HeadLock THEN head ELSE n)
                 IN  IF n \in Logged /\ tip # None THEN <<Entry(None, tip)>> ELSE <<>>]
    /\ lock = [l \in Locks |-> Free] /\ lease = Free
    /\ pc = [p \in Procs |-> "idle"]
    /\ plan = [p \in Procs |-> NoPlan]
    /\ pre = [p \in Procs |-> None] /\ target = [p \in Procs |-> None]
    /\ casc = [p \in Procs |-> {}] /\ want = [p \in Procs |-> {}]
    /\ tries = [p \in Procs |-> 0]
    /\ todo = [p \in Procs |-> {}] /\ cur = [p \in Procs |-> None]
    /\ snap = [p \in Procs |-> [n \in Refs |-> None]]
    /\ result = [p \in Procs |-> "none"] /\ touched = [p \in Procs |-> {}]
    /\ git = [g \in Gits |-> [pc |-> "idle", ref |-> None]]
    /\ dead = {} /\ begun = 0 /\ gitBegun = 0 /\ crashes = 0

\* A process that has not crashed is at this step.
At(p, step) == p \notin dead /\ pc[p] = step

(***************************************************************************)
(* Starting an operation and taking the history lease.                     *)
(***************************************************************************)

Submit(p, batch, h, t) ==
    /\ At(p, "idle") /\ begun < MaxTxns
    /\ pc' = [pc EXCEPT ![p] = "lease"]
    /\ plan' = [plan EXCEPT ![p] = batch]
    /\ pre' = [pre EXCEPT ![p] = h]
    /\ target' = [target EXCEPT ![p] = t]
    /\ result' = [result EXCEPT ![p] = "none"]
    /\ touched' = [touched EXCEPT ![p] = {}]
    /\ begun' = begun + 1
    /\ UNCHANGED <<disk, lock, lease, work, external, life>>

\* RefStore::transact_checked called with a batch and its preconditions.
Transact(p) == \E batch \in Plans, h \in Preconditions : Submit(p, batch, h, None)

\* RefStore::set_symbolic called on HEAD.
SetSymbolic(p) == \E t \in Targets : Submit(p, NoPlan, None, t)

AcquireLease(p) ==
    /\ At(p, "lease") /\ lease = Free
    /\ lease' = p
    /\ pc' = [pc EXCEPT ![p] = "plan"]
    /\ tries' = [tries EXCEPT ![p] = 0]
    /\ UNCHANGED <<disk, lock, request, casc, want, todo, cur, snap, outcome, external, begun, life>>

\* Mutant: the attempts on the lease are not counted.
LeaseBackoffForever(p) ==
    At(p, "lease") /\ lease # Free /\ UNCHANGED vars

LeaseBackoff(p) ==
    /\ At(p, "lease") /\ lease # Free
    /\ tries[p] + 1 < LockAttempts
    /\ tries' = [tries EXCEPT ![p] = @ + 1]
    /\ UNCHANGED <<disk, lock, lease, pc, request, casc, want, todo, cur, snap, outcome, external, begun, life>>

\* HistoryLocked: nothing is held yet.
LeaseTimeout(p) ==
    /\ At(p, "lease") /\ lease # Free
    /\ tries[p] + 1 = LockAttempts
    /\ pc' = [pc EXCEPT ![p] = "idle"]
    /\ tries' = [tries EXCEPT ![p] = 0]
    /\ result' = [result EXCEPT ![p] = "locked"]
    /\ UNCHANGED <<disk, lock, lease, request, casc, want, todo, cur, snap, touched, external, begun, life>>

(***************************************************************************)
(* The lock set, and taking it.                                            *)
(***************************************************************************)

\* Mutant: the creation of HEAD's unborn branch does not cascade.
CascadingOpsBorn(p) == {n \in DOMAIN plan[p] : n = head /\ plan[p][n].expected # None}

\* HEAD as read before locking decides which ops cascade, and so the locks.
CascadingOps(p) == {n \in DOMAIN plan[p] : n = head}

\* Mutant: HEAD is locked for a precondition only.
TransactionLocksNoCascade(p, cascading) ==
    DOMAIN plan[p] \cup {PackedLock} \cup (IF pre[p] # None THEN {HeadLock} ELSE {})

\* Mutant: packed-refs is not locked.
TransactionLocksNoPacked(p, cascading) ==
    DOMAIN plan[p] \cup (IF cascading # {} \/ pre[p] # None THEN {HeadLock} ELSE {})

TransactionLocks(p, cascading) ==
    DOMAIN plan[p] \cup {PackedLock}
        \cup (IF cascading # {} \/ pre[p] # None THEN {HeadLock} ELSE {})

PlanLocks(p) ==
    /\ At(p, "plan")
    /\ pc' = [pc EXCEPT ![p] = "lock"]
    /\ casc' = [casc EXCEPT ![p] = CascadingOps(p)]
    /\ want' = [want EXCEPT ![p] = IF target[p] # None THEN {HeadLock}
                                   ELSE TransactionLocks(p, CascadingOps(p))]
    /\ UNCHANGED <<disk, lock, lease, request, tries, todo, cur, snap, outcome, external, begun, life>>

\* Mutant: packed-refs.lock is taken first.
PrecedesPackedFirst(l, m) ==
    \/ l = m
    \/ l = PackedLock
    \/ l = HeadLock /\ m # PackedLock
    \/ l \in Refs /\ m \in Refs /\ RefRank[l] <= RefRank[m]

\* Lexical order with packed-refs last ("HEAD" sorts before "refs/...").
Precedes(l, m) ==
    \/ l = m
    \/ m = PackedLock
    \/ l = HeadLock /\ m # PackedLock
    \/ l \in Refs /\ m \in Refs /\ RefRank[l] <= RefRank[m]

IsNext(p, l) == l \in want[p] /\ \A m \in want[p] : Precedes(l, m)

Locking(p, l) == At(p, "lock") /\ IsNext(p, l)

LockPathBlocked(l) == l \in Refs /\ FileAbove(l)

\* try_lock_path creates the directories above the lock file, then the file.
AcquireLock(p) == \E l \in Locks :
    /\ Locking(p, l) /\ lock[l] = Free /\ ~LockPathBlocked(l)
    /\ lock' = [lock EXCEPT ![l] = p]
    /\ dirs' = IF l \in Refs THEN dirs \cup Above(l) ELSE dirs
    /\ want' = [want EXCEPT ![p] = @ \ {l}]
    /\ tries' = [tries EXCEPT ![p] = 0]
    /\ UNCHANGED <<loose, packed, head, logs, lease, pc, request, casc, todo, cur, snap, outcome, external, begun, life>>

\* Mutant: one attempt too many.
LockBackoffOffByOne(p) == \E l \in Locks :
    /\ Locking(p, l) /\ lock[l] # Free
    /\ tries[p] + 1 <= LockAttempts
    /\ tries' = [tries EXCEPT ![p] = @ + 1]
    /\ UNCHANGED <<disk, lock, lease, pc, request, casc, want, todo, cur, snap, outcome, external, begun, life>>

LockBackoff(p) == \E l \in Locks :
    /\ Locking(p, l) /\ lock[l] # Free
    /\ tries[p] + 1 < LockAttempts
    /\ tries' = [tries EXCEPT ![p] = @ + 1]
    /\ UNCHANGED <<disk, lock, lease, pc, request, casc, want, todo, cur, snap, outcome, external, begun, life>>

\* An operation that fails goes straight to releasing what it holds.
Fail(p, why) ==
    /\ pc' = [pc EXCEPT ![p] = "release"]
    /\ result' = [result EXCEPT ![p] = why]
    /\ UNCHANGED <<disk, lock, lease, request, work, touched, external, begun, life>>

\* Mutant: after the last attempt the operation goes on without the lock.
LockTimeoutProceeds(p) == \E l \in Locks :
    /\ Locking(p, l) /\ lock[l] # Free
    /\ tries[p] + 1 = LockAttempts
    /\ want' = [want EXCEPT ![p] = @ \ {l}]
    /\ tries' = [tries EXCEPT ![p] = 0]
    /\ UNCHANGED <<disk, lock, lease, pc, request, casc, todo, cur, snap, outcome, external, begun, life>>

\* RefLocked after the last attempt.
LockTimeout(p) == \E l \in Locks :
    /\ Locking(p, l) /\ lock[l] # Free
    /\ tries[p] + 1 = LockAttempts
    /\ Fail(p, "locked")

\* A loose ref file above the lock path: create_dir_all fails.
LockBlocked(p) == \E l \in Locks :
    /\ Locking(p, l) /\ LockPathBlocked(l)
    /\ Fail(p, "rejected")

LocksTaken(p) == At(p, "lock") /\ want[p] = {}

(***************************************************************************)
(* Validation, all of it under the locks.                                  *)
(***************************************************************************)

\* confirm_cascades: HEAD is re-read only when it is locked.
Confirm(p) ==
    /\ LocksTaken(p) /\ target[p] = None
    /\ pre[p] # None => head = pre[p]
    /\ casc' = [casc EXCEPT ![p] = {n \in @ : n = head}]
    /\ todo' = [todo EXCEPT ![p] = DOMAIN plan[p]]
    /\ pc' = [pc EXCEPT ![p] = "validate"]
    /\ UNCHANGED <<disk, lock, lease, request, want, tries, cur, snap, outcome, external, begun, life>>

HeadMoved(p) ==
    /\ LocksTaken(p) /\ target[p] = None
    /\ pre[p] # None /\ head # pre[p]
    /\ Fail(p, "moved")

WritesOwnLog(op) == op.log /\ op.new # None /\ op.new # op.expected

\* validate_locked for one op; logs/HEAD has no path to conflict with.
Valid(n, op) ==
    /\ Visible(n) = op.expected
    /\ op.new = None => op.expected # None
    /\ op.new # None => ~RefPathBlocked(n)
    /\ WritesOwnLog(op) /\ ShouldLog(n) => ~LogBlocked(n)

ValidateOp(p) == \E n \in todo[p] :
    /\ At(p, "validate") /\ Valid(n, plan[p][n])
    /\ todo' = [todo EXCEPT ![p] = @ \ {n}]
    /\ UNCHANGED <<disk, lock, lease, pc, request, casc, want, tries, cur, snap, outcome, external, begun, life>>

RejectOp(p) == \E n \in todo[p] :
    /\ At(p, "validate") /\ ~Valid(n, plan[p][n])
    /\ Fail(p, IF Visible(n) = plan[p][n].expected THEN "rejected" ELSE "moved")

AllValid(p) ==
    /\ At(p, "validate") /\ todo[p] = {}
    /\ todo' = [todo EXCEPT ![p] = DOMAIN plan[p]]
    /\ pc' = [pc EXCEPT ![p] = "commit"]
    /\ UNCHANGED <<disk, lock, lease, request, casc, want, tries, cur, snap, outcome, external, begun, life>>

(***************************************************************************)
(* commit_op: a move logs and then writes the ref; a delete logs to HEAD,   *)
(* unlinks the loose file, rewrites packed-refs and drops the ref's reflog. *)
(***************************************************************************)

\* The caller's order of the ops is any order.
BeginOp(p) == \E n \in todo[p] :
    /\ At(p, "commit")
    /\ cur' = [cur EXCEPT ![p] = n]
    /\ pc' = [pc EXCEPT ![p] = IF plan[p][n].new = None THEN "headlog" ELSE "log"]
    /\ UNCHANGED <<disk, lock, lease, request, casc, want, tries, todo, snap, outcome, external, begun, life>>

CurOp(p) == plan[p][cur[p]]

AppendLog(name, entry) == logs' = [logs EXCEPT ![name] = Append(@, entry)]

\* log_ref_update, the ref's own reflog: skipped for a no-op move.
LogRef(p) ==
    /\ At(p, "log")
    /\ IF WritesOwnLog(CurOp(p)) /\ ShouldLog(cur[p])
       THEN ~LogBlocked(cur[p]) /\ AppendLog(cur[p], Entry(CurOp(p).expected, CurOp(p).new))
       ELSE UNCHANGED logs
    /\ pc' = [pc EXCEPT ![p] = "headlog"]
    /\ UNCHANGED <<loose, packed, dirs, head, lock, lease, request, work, outcome, external, begun, life>>

LogConflict(p) ==
    At(p, "log") /\ WritesOwnLog(CurOp(p)) /\ ShouldLog(cur[p]) /\ LogBlocked(cur[p])

LogRefBlocked(p) == LogConflict(p) /\ Fail(p, "failed")

\* The split-HEAD entry, for a move (a no-op too) and for a delete.
LogHead(p) ==
    /\ At(p, "headlog")
    /\ IF CurOp(p).log /\ cur[p] \in casc[p] /\ ShouldLog(HeadLock)
       THEN AppendLog(HeadLock, Entry(CurOp(p).expected, CurOp(p).new))
       ELSE UNCHANGED logs
    /\ pc' = [pc EXCEPT ![p] = IF CurOp(p).new = None THEN "unlink" ELSE "write"]
    /\ UNCHANGED <<loose, packed, dirs, head, lock, lease, request, work, outcome, external, begun, life>>

\* write_path_replace: rename a temporary file over the ref.
WriteRef(p) ==
    /\ At(p, "write") /\ ~PathBlocked(cur[p])
    /\ loose' = [loose EXCEPT ![cur[p]] = CurOp(p).new]
    /\ touched' = [touched EXCEPT ![p] = @ \cup {cur[p]}]
    /\ todo' = [todo EXCEPT ![p] = @ \ {cur[p]}]
    /\ cur' = [cur EXCEPT ![p] = None]
    /\ pc' = [pc EXCEPT ![p] = "commit"]
    /\ UNCHANGED <<packed, dirs, head, logs, lock, lease, request, casc, want, tries, snap, result, external, begun, life>>

\* delete_path_unlocked: an absent file is fine, a directory is an error.
Unlink(p) ==
    /\ At(p, "unlink") /\ cur[p] \notin dirs
    /\ loose' = [loose EXCEPT ![cur[p]] = None]
    /\ touched' = [touched EXCEPT ![p] = IF loose[cur[p]] = None THEN @ ELSE @ \cup {cur[p]}]
    /\ pc' = [pc EXCEPT ![p] = "readpacked"]
    /\ UNCHANGED <<packed, dirs, head, logs, lock, lease, request, work, result, external, begun, life>>

\* The ref's path has become a directory, or a file stands above it.
CommitConflict(p) ==
    \/ At(p, "write") /\ PathBlocked(cur[p])
    \/ At(p, "unlink") /\ cur[p] \in dirs

CommitBlocked(p) == CommitConflict(p) /\ Fail(p, "failed")

ReadPacked(p) ==
    /\ At(p, "readpacked") /\ ~NonUtf8Packed
    /\ snap' = [snap EXCEPT ![p] = packed]
    /\ pc' = [pc EXCEPT ![p] = "rewrite"]
    /\ UNCHANGED <<disk, lock, lease, request, casc, want, tries, todo, cur, outcome, external, begun, life>>

\* remove_packed_matching_locked decodes the whole table first.
PackedUndecodable(p) ==
    /\ At(p, "readpacked") /\ NonUtf8Packed
    /\ Fail(p, "failed")

RewritePacked(p) ==
    /\ At(p, "rewrite")
    /\ packed' = IF snap[p][cur[p]] = None THEN packed ELSE [snap[p] EXCEPT ![cur[p]] = None]
    /\ touched' = [touched EXCEPT ![p] = IF snap[p][cur[p]] = None THEN @ ELSE @ \cup {cur[p]}]
    /\ pc' = [pc EXCEPT ![p] = "unlog"]
    /\ UNCHANGED <<loose, dirs, head, logs, lock, lease, request, work, result, external, begun, life>>

DropLog(p) ==
    /\ At(p, "unlog")
    /\ logs' = [logs EXCEPT ![cur[p]] = <<>>]
    /\ todo' = [todo EXCEPT ![p] = @ \ {cur[p]}]
    /\ cur' = [cur EXCEPT ![p] = None]
    /\ pc' = [pc EXCEPT ![p] = "commit"]
    /\ UNCHANGED <<loose, packed, dirs, head, lock, lease, request, casc, want, tries, snap, outcome, external, begun, life>>

Committed(p) ==
    /\ At(p, "commit") /\ todo[p] = {}
    /\ pc' = [pc EXCEPT ![p] = "release"]
    /\ result' = [result EXCEPT ![p] = "ok"]
    /\ UNCHANGED <<disk, lock, lease, request, work, touched, external, begun, life>>

(***************************************************************************)
(* set_symbolic_locked on HEAD: reflog first, when the target resolves.     *)
(***************************************************************************)

LogSwitch(p) ==
    /\ LocksTaken(p) /\ target[p] # None
    /\ IF Visible(target[p]) # None /\ ShouldLog(HeadLock)
       THEN AppendLog(HeadLock, Entry(Visible(head), Visible(target[p])))
       ELSE UNCHANGED logs
    /\ pc' = [pc EXCEPT ![p] = "sethead"]
    /\ UNCHANGED <<loose, packed, dirs, head, lock, lease, request, work, outcome, external, begun, life>>

SetHead(p) ==
    /\ At(p, "sethead")
    /\ head' = target[p]
    /\ pc' = [pc EXCEPT ![p] = "release"]
    /\ result' = [result EXCEPT ![p] = "ok"]
    /\ UNCHANGED <<loose, packed, dirs, logs, lock, lease, request, work, touched, external, begun, life>>

(***************************************************************************)
(* Releasing, crashing, and an operator removing a dead process's locks.    *)
(***************************************************************************)

HeldBy(o) == {l \in Locks : lock[l] = o}

Unlocked(o) == [l \in Locks |-> IF lock[l] = o THEN Free ELSE lock[l]]

\* drop(locks), in the order they were taken; a guard prunes above its lock file.
Release(p) == \E l \in HeldBy(p) :
    /\ At(p, "release") /\ \A m \in HeldBy(p) : Precedes(l, m)
    /\ lock' = [lock EXCEPT ![l] = Free]
    /\ dirs' = Pruned({l}, loose, lock')
    /\ UNCHANGED <<loose, packed, head, logs, lease, pc, request, work, outcome, external, begun, life>>

\* The names the process locked or failed to lock.
Attempted(p) == {n \in DOMAIN plan[p] : n \notin want[p] \/ IsNext(p, n)}

\* prune_empty_dirs for each name, once all the locks are dropped.
PruneParents(p) ==
    /\ At(p, "release") /\ HeldBy(p) = {}
    /\ dirs' = Pruned(Attempted(p), loose, lock)
    /\ pc' = [pc EXCEPT ![p] = "unlease"]
    /\ UNCHANGED <<loose, packed, head, logs, lock, lease, request, work, outcome, external, begun, life>>

Forget(p) ==
    /\ plan' = [plan EXCEPT ![p] = NoPlan]
    /\ pre' = [pre EXCEPT ![p] = None]
    /\ target' = [target EXCEPT ![p] = None]
    /\ casc' = [casc EXCEPT ![p] = {}]
    /\ want' = [want EXCEPT ![p] = {}]
    /\ tries' = [tries EXCEPT ![p] = 0]
    /\ todo' = [todo EXCEPT ![p] = {}]
    /\ cur' = [cur EXCEPT ![p] = None]
    /\ snap' = [snap EXCEPT ![p] = [n \in Refs |-> None]]
    /\ pc' = [pc EXCEPT ![p] = "idle"]

DropLease(p) ==
    /\ At(p, "unlease")
    /\ lease' = Free
    /\ Forget(p)
    /\ UNCHANGED <<disk, lock, outcome, external, begun, life>>

Crash(p) ==
    /\ p \notin dead /\ pc[p] # "idle" /\ crashes < MaxCrashes
    /\ dead' = dead \cup {p}
    /\ crashes' = crashes + 1
    /\ UNCHANGED <<disk, lock, lease, pc, request, work, outcome, external, begun>>

\* External: the lock files are removed by hand; empty directories stay.
RemoveOrphanLocks(p) ==
    /\ p \in dead
    /\ dead' = dead \ {p}
    /\ lock' = Unlocked(p)
    /\ lease' = IF lease = p THEN Free ELSE lease
    /\ Forget(p)
    /\ UNCHANGED <<disk, outcome, external, begun, crashes>>

(***************************************************************************)
(* Stock git (external): it honours the ref locks and packed-refs.lock.     *)
(***************************************************************************)

GitIdle(g) == git[g].pc = "idle" /\ gitBegun < MaxGit

GitAt(g, where, n) ==
    /\ git' = [git EXCEPT ![g] = [pc |-> where, ref |-> n]]
    /\ gitBegun' = IF git[g].pc = "idle" THEN gitBegun + 1 ELSE gitBegun

GitUnchanged == UNCHANGED <<lease, pc, request, work, outcome, begun, life>>

\* git update-ref locks the ref, and HEAD when it names the ref.
GitLockRef(g) == \E n \in Refs :
    /\ GitIdle(g) /\ GitOps \cap {"update", "delete"} # {}
    /\ lock[n] = Free /\ ~FileAbove(n) /\ (head = n => lock[HeadLock] = Free)
    /\ lock' = [l \in Locks |-> IF l = n \/ (l = HeadLock /\ head = n) THEN g ELSE lock[l]]
    /\ dirs' = dirs \cup Above(n)
    /\ GitAt(g, "ref", n)
    /\ UNCHANGED <<loose, packed, head, logs>> /\ GitUnchanged

GitLog(g, n, new) ==
    [m \in Refs \cup {HeadLock} |->
        IF m = n \/ (m = HeadLock /\ head = n /\ lock[HeadLock] = g)
        THEN Append(logs[m], Entry(Visible(n), new)) ELSE logs[m]]

GitUpdate(g) == \E v \in Oids : LET n == git[g].ref IN
    /\ git[g].pc = "ref" /\ "update" \in GitOps
    /\ ~RefPathBlocked(n) /\ v # Visible(n) /\ ~LogBlocked(n)
    /\ loose' = [loose EXCEPT ![n] = v]
    /\ logs' = GitLog(g, n, v)
    /\ lock' = Unlocked(g)
    /\ dirs' = Pruned({n}, loose', Unlocked(g))
    /\ GitAt(g, "idle", None)
    /\ UNCHANGED <<packed, head>> /\ GitUnchanged

GitLockPacked(g) ==
    /\ git[g].pc = "ref" /\ "delete" \in GitOps /\ lock[PackedLock] = Free
    /\ lock' = [lock EXCEPT ![PackedLock] = g]
    /\ GitAt(g, "both", git[g].ref)
    /\ UNCHANGED disk /\ GitUnchanged

GitDelete(g) == LET n == git[g].ref IN
    /\ git[g].pc = "both" /\ Visible(n) # None
    /\ loose' = [loose EXCEPT ![n] = None]
    /\ packed' = [packed EXCEPT ![n] = None]
    /\ logs' = [GitLog(g, n, None) EXCEPT ![n] = <<>>]
    /\ lock' = Unlocked(g)
    /\ dirs' = Pruned({n}, loose', Unlocked(g))
    /\ GitAt(g, "idle", None)
    /\ UNCHANGED head /\ GitUnchanged

\* It gives up; the directories it made may stay.
GitAbort(g) ==
    /\ git[g].pc \in {"ref", "both"}
    /\ lock' = Unlocked(g)
    /\ dirs' \in {dirs, Pruned({git[g].ref}, loose, Unlocked(g))}
    /\ GitAt(g, "idle", None)
    /\ UNCHANGED <<loose, packed, head, logs>> /\ GitUnchanged

GitPackLock(g) ==
    /\ GitIdle(g) /\ "pack" \in GitOps /\ lock[PackedLock] = Free
    /\ lock' = [lock EXCEPT ![PackedLock] = g]
    /\ GitAt(g, "pack", None)
    /\ UNCHANGED disk /\ GitUnchanged

GitPack(g) ==
    /\ git[g].pc = "pack"
    /\ packed' = [n \in Refs |-> Visible(n)]
    /\ lock' = Unlocked(g)
    /\ GitAt(g, "idle", None)
    /\ UNCHANGED <<loose, dirs, head, logs>> /\ GitUnchanged

\* pack-refs then drops a loose file that repeats its packed entry.
GitPrune(g) == \E n \in Refs :
    /\ GitIdle(g) /\ "pack" \in GitOps
    /\ lock[n] = Free /\ loose[n] # None /\ loose[n] = packed[n]
    /\ loose' = [loose EXCEPT ![n] = None]
    /\ dirs' = Pruned({n}, loose', lock)
    /\ GitAt(g, "idle", None)
    /\ UNCHANGED <<packed, head, logs, lock>> /\ GitUnchanged

GitSwitch(g) == \E t \in Targets :
    /\ GitIdle(g) /\ "switch" \in GitOps
    /\ lock[HeadLock] = Free /\ Visible(t) # None /\ t # head
    /\ head' = t
    /\ logs' = [logs EXCEPT ![HeadLock] = Append(@, Entry(Visible(head), Visible(t)))]
    /\ GitAt(g, "idle", None)
    /\ UNCHANGED <<loose, packed, dirs, lock>> /\ GitUnchanged

\* Everything a live gitana process does once it is called.
ProcessStep(p) ==
    \/ AcquireLease(p) \/ LeaseBackoff(p) \/ LeaseTimeout(p)
    \/ PlanLocks(p) \/ AcquireLock(p) \/ LockBackoff(p) \/ LockTimeout(p) \/ LockBlocked(p)
    \/ Confirm(p) \/ HeadMoved(p) \/ ValidateOp(p) \/ RejectOp(p) \/ AllValid(p)
    \/ BeginOp(p) \/ LogRef(p) \/ LogRefBlocked(p) \/ LogHead(p) \/ WriteRef(p)
    \/ Unlink(p) \/ CommitBlocked(p) \/ ReadPacked(p) \/ PackedUndecodable(p)
    \/ RewritePacked(p) \/ DropLog(p) \/ Committed(p)
    \/ LogSwitch(p) \/ SetHead(p)
    \/ Release(p) \/ PruneParents(p) \/ DropLease(p)

GitStep(g) ==
    \/ GitLockRef(g) \/ GitUpdate(g) \/ GitLockPacked(g) \/ GitDelete(g) \/ GitAbort(g)
    \/ GitPackLock(g) \/ GitPack(g) \/ GitPrune(g) \/ GitSwitch(g)

Next ==
    \/ \E p \in Procs : Transact(p) \/ SetSymbolic(p) \/ ProcessStep(p)
                          \/ Crash(p) \/ RemoveOrphanLocks(p)
    \/ \E g \in Gits : GitStep(g)

Spec == Init /\ [][Next]_vars

\* The owned Tokio task of a call runs on: a caller that is dropped only stops
\* waiting.  Nothing makes stock git move, or anyone submit an operation.
FairSpec == Spec /\ \A p \in Procs : WF_vars(ProcessStep(p))
-----------------------------------------------------------------------------
(***************************************************************************)
(* Properties.                                                             *)
(***************************************************************************)

Committing == {"commit", "log", "headlog", "write", "unlink", "readpacked", "rewrite", "unlog"}

\* The locks an op needs while it is validated and committed.
NeededLocks(p) ==
    IF target[p] # None THEN {HeadLock}
    ELSE DOMAIN plan[p] \cup {PackedLock} \cup (IF casc[p] # {} THEN {HeadLock} ELSE {})

\* No ref is validated or written, no packed-refs rewritten and no logs/HEAD
\* appended to unless the process holds the path lock that guards it
\* (refs.rs: transact_inline, and confirm_cascades for HEAD.lock).
LocksCoverCommit ==
    \A p \in Procs : pc[p] \in Committing \cup {"validate", "sethead"} =>
        NeededLocks(p) \subseteq HeldBy(p)

\* A ref a transaction has validated and not yet written still has the value
\* the caller expected, whatever git and other processes do meanwhile: the
\* write is a compare-and-set, no update is lost (validate_locked, commit_op).
PendingStillExpected ==
    \A p \in Procs : pc[p] \in Committing =>
        \A n \in todo[p] :
            \/ Visible(n) = plan[p][n].expected
            \/ n = cur[p] /\ pc[p] \in {"readpacked", "rewrite", "unlog"}

\* A packed-refs rewrite starts from the table as it is on disk, so it drops
\* no entry another writer added (remove_packed_matching_locked).
PackedRewriteIsCurrent ==
    \A p \in Procs : pc[p] = "rewrite" => snap[p] = packed

\* An operation that reports a failure has changed no ref ("Any failure
\* applies nothing", transact).
FailureAppliesNothing ==
    \A p \in Procs : pc[p] \in {"release", "unlease"} /\ result[p] # "ok" => touched[p] = {}

\* No ref name is a directory of another, across loose files and packed-refs
\* (ref_path_write_blocked): the two could never be checked out together.
NamespaceDisjoint ==
    \A n \in Refs : \A m \in Below[n] : Visible(n) = None \/ Visible(m) = None

\* Among gitana processes alone, a commit whose ops were validated meets no
\* directory/file conflict, and neither do its reflogs
\* (docs/hlds/ref-transactions.md, "a validated commit cannot fail on a D/F
\* conflict").
ValidatedCommitNotBlocked ==
    \A p \in Procs : ~CommitConflict(p) /\ ~LogConflict(p)

\* A published ref value is in the ref's reflog, at every step and after every
\* crash: commit_op writes the reflog first.
LooseTipIsLogged ==
    \A n \in Logged \cap Refs : loose[n] # None =>
        \E i \in DOMAIN logs[n] : logs[n][i].new = loose[n]

\* As long as only gitana wrote and no process died, whenever no operation is
\* at work the last entry of logs/HEAD is the tip of the branch HEAD names: no
\* move or switch misses its HEAD entry (the cascade of transact_inline,
\* set_symbolic_locked).
HeadLogFollowsTip ==
    /\ crashes = 0 /\ gitBegun = 0
    /\ \A p \in Procs : pc[p] \notin Committing \cup {"sethead"}
    /\ logs[HeadLock] # <<>> /\ Visible(head) # None
    => logs[HeadLock][Len(logs[HeadLock])].new = Visible(head)

\* gitana never waits for a lock of a git process that itself waits for
\* packed-refs.lock held by gitana (lock_all takes packed-refs.lock last).
NoLockCycle ==
    \A p \in Procs, g \in Gits, l \in Locks :
        ~(Locking(p, l) /\ lock[l] = g /\ git[g].pc = "ref" /\ lock[PackedLock] = p)

\* Every operation returns to its caller even when a lock is never released:
\* an orphaned or hoarded lock costs LockAttempts attempts, not the process.
EveryOperationReturns ==
    \A p \in Procs : pc[p] # "idle" ~> pc[p] = "idle" \/ p \in dead
=============================================================================
