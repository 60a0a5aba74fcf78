--------------------------- MODULE RefCommitProofs ---------------------------
(***************************************************************************)
(* What a commit of a ref transaction leaves behind, for every number of    *)
(* refs and processes: names that are not directories of each other,        *)
(* reflogs that tell where each ref has been, and, among gitana processes    *)
(* alone, no conflict after validation and nothing of a batch that failed.   *)
(***************************************************************************)
EXTENDS RefContractProofs

-----------------------------------------------------------------------------
(* Paths, beside stock git and with crashes *)

\* The directories above a ref file or its lock are there.
DirsCover == \A m \in Refs : loose[m] # None \/ lock[m] # Free => Above(m) \subseteq dirs

\* A path is not a file and a directory.
FilesNotDirs == \A d \in dirs : loose[d] = None

\* No packed name is a directory of n, nor n of a packed name.
NoPackedKin(n) == \A m \in Above(n) \cup Below[n] : packed[m] = None

\* The packed names a move was validated against do not come up before it is written.
PreflightOf(p) ==
    /\ pc[p] = "validate" =>
         \A n \in DOMAIN plan[p] \ todo[p] : plan[p][n].new # None => NoPackedKin(n)
    /\ pc[p] \in Committing =>
         \A n \in todo[p] : plan[p][n].new # None => NoPackedKin(n)

\* The ref locks a process holds are its batch's.
OwnedOf(p) ==
    /\ HeldBy(p) \cap Refs \subseteq DOMAIN plan[p]
    /\ pc[p] = "lock" => want[p] \cap Refs \subseteq DOMAIN plan[p]

Paths == DirsCover /\ FilesNotDirs /\ NamespaceDisjoint
Preflight == \A p \in Procs : PreflightOf(p)
Owned == \A p \in Procs : OwnedOf(p)

PathInv == DeleteInv /\ Paths /\ Preflight /\ Owned

-----------------------------------------------------------------------------
(* Reflogs, beside stock git and with crashes *)

Tells(n, v) == \E i \in DOMAIN logs[n] : logs[n][i].new = v

\* The reflog is ahead of the ref.
AheadOf(p) ==
    /\ pc[p] \in {"headlog", "write"} /\ cur[p] \in Logged /\ CurOp(p).new # None
    => Tells(cur[p], CurOp(p).new)

Ahead == \A p \in Procs : AheadOf(p)

LogInv == DeleteInv /\ LooseTipIsLogged /\ Ahead

\* Every move is logged and moves its ref.
EveryMoveLogged ==
    \A batch \in Plans : \A n \in DOMAIN batch :
        batch[n].new # None => batch[n].log /\ batch[n].new # batch[n].expected

-----------------------------------------------------------------------------
(* gitana processes alone *)

\* Nobody died and stock git did nothing.
Undisturbed == crashes = 0 /\ gitBegun = 0

\* The history lease lets one process be at work.
Solo ==
    /\ dead = {}
    /\ \A g \in Gits : git[g].pc = "idle"
    /\ \A p \in Procs : pc[p] \notin {"idle", "lease"} => lease = p
    /\ \A l \in Locks : lock[l] \notin Gits

\* No empty directory is left behind.
DirsNeeded == \A d \in dirs : \E m \in Below[d] : loose[m] # None \/ lock[m] # Free

\* What the process at work has checked, and has not done.
ClearOf(p) ==
    /\ pc[p] = "validate" => \A n \in DOMAIN plan[p] \ todo[p] : Valid(n, plan[p][n])
    /\ pc[p] \in Committing =>
         /\ DOMAIN plan[p] \cap dirs = {}
         /\ \A n \in todo[p] : WritesOwnLog(plan[p][n]) /\ ShouldLog(n) => ~LogBlocked(n)

UntouchedOf(p) ==
    \/ pc[p] \in {"lease", "plan", "lock", "validate"}
    \/ pc[p] \in {"release", "unlease"} /\ result[p] # "ok"
    => touched[p] = {}

Clear == \A p \in Procs : ClearOf(p)
AloneInv == PathInv /\ (Undisturbed => Solo /\ DirsNeeded /\ Clear)
Untouched == Undisturbed => \A p \in Procs : UntouchedOf(p)

-----------------------------------------------------------------------------
(* logs/HEAD *)

EveryOpLogged == \A batch \in Plans : \A n \in DOMAIN batch : batch[n].log

\* The last entry of logs/HEAD, if there is one, is v, if that is a value.
EndsAt(v) == logs[HeadLock] # <<>> /\ v # None => logs[HeadLock][Len(logs[HeadLock])].new = v

\* The entry of logs/HEAD is written and the ref, or HEAD, is not.
Pending(p) ==
    \/ pc[p] = "sethead"
    \/ pc[p] \in {"write", "unlink", "readpacked", "rewrite"} /\ cur[p] = head

HeadLogOf(p) ==
    /\ pc[p] \in {"lock", "validate"} \cup Committing /\ target[p] = None =>
         casc[p] = {n \in DOMAIN plan[p] : n = head}
    /\ pc[p] = "write" /\ cur[p] = head => EndsAt(CurOp(p).new)
    /\ pc[p] = "sethead" => EndsAt(Visible(target[p]))

HeadLogs ==
    /\ \A p \in Procs : HeadLogOf(p)
    /\ (\A p \in Procs : ~Pending(p)) => EndsAt(Visible(head))

-----------------------------------------------------------------------------
(***************************************************************************)
(* Paths.                                                                  *)
(***************************************************************************)

\* The steps of a process that change files, locks or directories of refs.
PathStep(p) ==
    \/ AcquireLock(p) \/ WriteRef(p) \/ Unlink(p) \/ RewritePacked(p)
    \/ Release(p) \/ PruneParents(p) \/ RemoveOrphanLocks(p)

\* The others change none.
LEMMA OtherStepPaths ==
    ASSUME NEW p \in Procs, OpStep(p), ~PathStep(p)
    PROVE  UNCHANGED <<loose, packed, dirs, lock>>
BY DEF PathStep, OpStep, Transact, SetSymbolic, Submit, Crash, ProcessStep, AcquireLease,
       LeaseBackoff, LeaseTimeout, PlanLocks, LockBackoff, LockTimeout, LockBlocked, Confirm,
       HeadMoved, ValidateOp, RejectOp, AllValid, BeginOp, LogRef, LogRefBlocked, LogHead,
       CommitBlocked, ReadPacked, PackedUndecodable, DropLog, Committed, LogSwitch, SetHead,
       DropLease, Fail, disk

\* Pruning keeps the directories above a file or a lock (prune_empty_dirs).
LEMMA PruneCovers ==
    ASSUME NEW names, NEW files, NEW locked, NEW m \in Refs,
           files[m] # None \/ locked[m] # Free, Above(m) \subseteq dirs
    PROVE  Above(m) \subseteq Pruned(names, files, locked)
BY DEF Above, Pruned, Empty

\* It makes none.
LEMMA PruneShrinks ==
    ASSUME NEW names, NEW files, NEW locked
    PROVE  Pruned(names, files, locked) \subseteq dirs
BY DEF Pruned

\* The types of what the paths are made of.
LEMMA PathTypes ==
    ASSUME IndInv
    PROVE  /\ loose \in [Refs -> Values] /\ packed \in [Refs -> Values] /\ dirs \subseteq Refs
           /\ lock \in [Locks -> Procs \cup Gits \cup {Free}]
           /\ Refs \subseteq Locks
           /\ Free \notin Procs \cup Gits /\ HeadLock \notin Refs /\ PackedLock \notin Refs
BY OwnerAssumption, RefAssumption DEF IndInv, TypeOK, DiskOK, LockOK, Locks, HeadLock, PackedLock

\* The process that steps keeps directories above files and locks, and apart from files.
LEMMA ProcessDirs ==
    ASSUME IndInv, DirsCover, FilesNotDirs, NEW p \in Procs, OpStep(p)
    PROVE  DirsCover' /\ FilesNotDirs'
<1> USE DEF DirsCover, FilesNotDirs
<1>0. /\ loose \in [Refs -> Values] /\ lock \in [Locks -> Procs \cup Gits \cup {Free}]
      /\ Refs \subseteq Locks /\ p # Free /\ \A m : Above(m)' = Above(m)
  BY PathTypes DEF Above
<1>1. CASE AcquireLock(p)
  <2>1. PICK l \in Locks :
          /\ ~LockPathBlocked(l) /\ lock' = [lock EXCEPT ![l] = p]
          /\ dirs' = IF l \in Refs THEN dirs \cup Above(l) ELSE dirs
    BY <1>1 DEF AcquireLock
  <2>2. loose' = loose
    BY <1>1 DEF AcquireLock
  <2>3. dirs \subseteq dirs' /\ \A m \in Refs : lock'[m] = lock[m] \/ m = l
    BY <1>0, <2>1
  <2>4. \A d \in dirs' : d \in dirs \/ (d \in Above(l) /\ ~FileAbove(l))
    BY <2>1 DEF LockPathBlocked
  <2>5. ASSUME NEW m \in Refs, loose'[m] # None \/ lock'[m] # Free
        PROVE  Above(m) \subseteq dirs'
    BY <2>1, <2>2, <2>3, <2>5
  <2>6. ASSUME NEW d \in dirs' PROVE loose'[d] = None
    BY <2>2, <2>4 DEF FileAbove
  <2> QED BY <1>0, <2>5, <2>6
<1>2. CASE WriteRef(p)
  <2>1. cur[p] \in Refs /\ lock[cur[p]] = p
    BY <1>2, CurLocked DEF WriteRef, At, OnOp, Committing
  <2>2. dirs' = dirs /\ lock' = lock /\ cur[p] \notin dirs
    BY <1>2 DEF WriteRef, PathBlocked
  <2>3. \A m \in Refs : loose'[m] = loose[m] \/ m = cur[p]
    BY <1>0, <1>2 DEF WriteRef
  <2>4. ASSUME NEW m \in Refs, loose'[m] # None \/ lock'[m] # Free
        PROVE  Above(m) \subseteq dirs'
    BY <1>0, <2>1, <2>2, <2>3, <2>4
  <2>5. ASSUME NEW d \in dirs' PROVE loose'[d] = None
    BY <2>2, <2>3, PathTypes
  <2> QED BY <1>0, <2>4, <2>5
<1>3. CASE Unlink(p)
  <2>1. dirs' = dirs /\ lock' = lock
    BY <1>3 DEF Unlink, disk
  <2>2. \A m \in Refs : loose'[m] = loose[m] \/ loose'[m] = None
    BY <1>0, <1>3 DEF Unlink
  <2> QED BY <1>0, <2>1, <2>2, PathTypes
<1>4. CASE RewritePacked(p)
  BY <1>0, <1>4 DEF RewritePacked
<1>5. CASE Release(p) \/ PruneParents(p) \/ RemoveOrphanLocks(p)
  <2>1. /\ loose' = loose /\ \A m \in Refs : lock'[m] = lock[m] \/ lock'[m] = Free
        /\ \/ dirs' = dirs
           \/ \E names : dirs' = Pruned(names, loose', lock')
    BY <1>0, <1>5 DEF Release, PruneParents, RemoveOrphanLocks, HeldBy, Unlocked, disk
  <2>2. ASSUME NEW m \in Refs, loose'[m] # None \/ lock'[m] # Free
        PROVE  Above(m) \subseteq dirs'
    BY <2>1, <2>2, PruneCovers
  <2>3. dirs' \subseteq dirs
    BY <2>1, PruneShrinks
  <2> QED BY <1>0, <2>1, <2>2, <2>3
<1>6. CASE ~PathStep(p)
  BY <1>0, <1>6, OtherStepPaths
<1> QED BY <1>1, <1>2, <1>3, <1>4, <1>5, <1>6 DEF PathStep

\* So does stock git.
LEMMA GitDirs ==
    ASSUME IndInv, DirsCover, FilesNotDirs, NEW g \in Gits, GitStep(g)
    PROVE  DirsCover' /\ FilesNotDirs'
<1> USE DEF DirsCover, FilesNotDirs
<1>0. /\ loose \in [Refs -> Values] /\ lock \in [Locks -> Procs \cup Gits \cup {Free}]
      /\ Refs \subseteq Locks /\ g # Free /\ dirs \subseteq Refs /\ \A m : Above(m)' = Above(m)
  BY PathTypes DEF Above
<1>1. CASE GitLockRef(g)
  <2>1. PICK n \in Refs :
          /\ ~FileAbove(n) /\ dirs' = dirs \cup Above(n)
          /\ lock' = [l \in Locks |-> IF l = n \/ (l = HeadLock /\ head = n) THEN g ELSE lock[l]]
    BY <1>1 DEF GitLockRef
  <2>2. loose' = loose
    BY <1>1 DEF GitLockRef
  <2>3. \A m \in Refs : lock'[m] = lock[m] \/ m = n
    BY <1>0, <2>1, PathTypes
  <2>4. ASSUME NEW m \in Refs, loose'[m] # None \/ lock'[m] # Free
        PROVE  Above(m) \subseteq dirs'
    BY <2>1, <2>2, <2>3, <2>4
  <2>5. ASSUME NEW d \in dirs' PROVE loose'[d] = None
    BY <2>1, <2>2 DEF FileAbove
  <2> QED BY <1>0, <2>4, <2>5
<1>2. CASE GitUpdate(g)
  <2>1. git[g].ref \in Refs /\ lock[git[g].ref] = g
    BY <1>2 DEF GitUpdate, GitHoldsOf, Control, IndInv, Holding
  <2>2. /\ dirs' = Pruned({git[g].ref}, loose', lock') /\ git[g].ref \notin dirs
        /\ \A m \in Refs : lock'[m] = lock[m] \/ lock'[m] = Free
    BY <1>0, <1>2 DEF GitUpdate, Unlocked, RefPathBlocked, PathBlocked
  <2>3. \A m \in Refs : loose'[m] = loose[m] \/ m = git[g].ref
    BY <1>0, <1>2 DEF GitUpdate
  <2>4. ASSUME NEW m \in Refs, loose'[m] # None \/ lock'[m] # Free
        PROVE  Above(m) \subseteq dirs'
    <3>1. Above(m) \subseteq dirs
      BY <1>0, <2>1, <2>2, <2>3, <2>4
    <3> QED BY <2>2, <2>4, <3>1, PruneCovers
  <2>5. ASSUME NEW d \in dirs' PROVE loose'[d] = None
    BY <1>0, <2>2, <2>3, PruneShrinks
  <2> QED BY <1>0, <2>4, <2>5
<1>3. CASE GitLockPacked(g) \/ GitPackLock(g)
  <2>1. loose' = loose /\ dirs' = dirs /\ \A m \in Refs : lock'[m] = lock[m]
    BY <1>0, <1>3, PathTypes DEF GitLockPacked, GitPackLock, disk
  <2> QED BY <1>0, <2>1
<1>4. CASE GitDelete(g) \/ GitAbort(g) \/ GitPack(g) \/ GitPrune(g)
  <2>1. /\ \A m \in Refs : loose'[m] = loose[m] \/ loose'[m] = None
        /\ \A m \in Refs : lock'[m] = lock[m] \/ lock'[m] = Free
        /\ \/ dirs' = dirs
           \/ \E names : dirs' = Pruned(names, loose', lock')
    <3>1. CASE GitDelete(g)
      BY <1>0, <3>1 DEF GitDelete, Unlocked
    <3>2. CASE GitAbort(g)
      <4>1. loose' = loose /\ lock' = Unlocked(g)
        BY <3>2 DEF GitAbort
      <4>2. dirs' = dirs \/ dirs' = Pruned({git[g].ref}, loose, Unlocked(g))
        BY <3>2 DEF GitAbort
      <4> QED BY <1>0, <4>1, <4>2 DEF Unlocked
    <3>3. CASE GitPack(g)
      BY <1>0, <3>3 DEF GitPack, Unlocked
    <3>4. CASE GitPrune(g)
      <4>1. PICK n \in Refs : /\ loose' = [loose EXCEPT ![n] = None]
                              /\ dirs' = Pruned({n}, loose', lock)
        BY <3>4 DEF GitPrune
      <4>2. lock' = lock
        BY <3>4 DEF GitPrune
      <4> QED BY <1>0, <4>1, <4>2
    <3> QED BY <1>4, <3>1, <3>2, <3>3, <3>4
  <2>2. ASSUME NEW m \in Refs, loose'[m] # None \/ lock'[m] # Free
        PROVE  Above(m) \subseteq dirs'
    BY <2>1, <2>2, PruneCovers
  <2>3. ASSUME NEW d \in dirs' PROVE loose'[d] = None
    BY <1>0, <2>1, PruneShrinks
  <2> QED BY <1>0, <2>2, <2>3
<1>5. CASE GitSwitch(g)
  BY <1>0, <1>5 DEF GitSwitch
<1> QED BY <1>1, <1>2, <1>3, <1>4, <1>5 DEF GitStep

\* Names that only go stay apart.
LEMMA FewerNames ==
    ASSUME NamespaceDisjoint, \A n \in Refs : Visible(n)' # None => Visible(n) # None
    PROVE  NamespaceDisjoint'
BY RefAssumption DEF NamespaceDisjoint

\* A name whose path is free, and of which packed-refs holds no kin, may come.
LEMMA OneMoreName ==
    ASSUME IndInv, DirsCover, NamespaceDisjoint, NEW n \in Refs,
           lock[n] # Free, ~PathBlocked(n), NoPackedKin(n),
           \A m \in Refs \ {n} : Visible(m)' = Visible(m)
    PROVE  NamespaceDisjoint'
<1>1. Above(n) \subseteq dirs /\ n \notin dirs
  BY DEF DirsCover, PathBlocked
<1>2. n \notin Above(n) /\ n \notin Below[n]
  BY <1>1 DEF Above
<1>3. \A a \in Above(n) : Visible(a) = None
  BY DEF PathBlocked, FileAbove, NoPackedKin, Visible
<1>4. Below[n] \subseteq Refs
  BY RefAssumption
<1>5. \A m \in Below[n] : Visible(m) = None
  <2>1. \A m \in Below[n] : n \in Above(m)
    BY <1>4 DEF Above
  <2>2. \A m \in Below[n] : loose[m] = None
    BY <1>1, <1>4, <2>1 DEF DirsCover
  <2> QED BY <2>2 DEF NoPackedKin, Visible
<1>6. ASSUME NEW k \in Refs, NEW m \in Below[k]
      PROVE  Visible(k)' = None \/ Visible(m)' = None
  <2>1. m \in Refs
    BY RefAssumption
  <2>2. CASE k = n
    BY <1>2, <1>5, <2>1, <2>2
  <2>3. CASE m = n
    <3>1. k \in Above(n)
      BY <2>3 DEF Above
    <3> QED BY <1>2, <1>3, <3>1
  <2>4. CASE k # n /\ m # n
    BY <2>1, <2>4 DEF NamespaceDisjoint
  <2> QED BY <2>2, <2>3, <2>4
<1> QED BY <1>6 DEF NamespaceDisjoint

\* A process's step keeps names apart.
LEMMA ProcessNames ==
    ASSUME IndInv, Kind, Paths, Preflight, NEW p \in Procs, OpStep(p)
    PROVE  NamespaceDisjoint'
<1> USE DEF Paths
<1>0. loose \in [Refs -> Values] /\ packed \in [Refs -> Values] /\ Free \notin Procs
  BY PathTypes
<1>1. CASE WriteRef(p)
  <2>1. /\ pc[p] = "write" /\ cur[p] \in Refs /\ lock[cur[p]] = p /\ cur[p] \in todo[p]
        /\ CurOp(p) = plan[p][cur[p]]
    BY <1>1, CurLocked DEF WriteRef, At, OnOp, Committing
  <2>2. plan[p][cur[p]].new # None
    BY <2>1 DEF Kind, KindOf
  <2>3. NoPackedKin(cur[p])
    BY <2>1, <2>2 DEF Preflight, PreflightOf, Committing
  <2>4. ~PathBlocked(cur[p]) /\ \A m \in Refs \ {cur[p]} : Visible(m)' = Visible(m)
    BY <1>0, <1>1 DEF WriteRef, Visible
  <2>5. lock[cur[p]] # Free
    BY <1>0, <2>1
  <2> QED BY <2>1, <2>3, <2>4, <2>5, OneMoreName
<1>2. CASE Unlink(p)
  <2>1. \A n \in Refs : (loose'[n] = loose[n] \/ loose'[n] = None) /\ packed'[n] = packed[n]
    BY <1>0, <1>2 DEF Unlink
  <2> QED BY <2>1, FewerNames DEF Visible
<1>3. CASE RewritePacked(p)
  <2>1. snap[p] = packed /\ loose' = loose
    BY <1>3 DEF RewritePacked, At, IndInv, Current, CurrentOf
  <2>2. \A n \in Refs : packed'[n] = packed[n] \/ packed'[n] = None
    BY <1>0, <1>3, <2>1 DEF RewritePacked
  <2> QED BY <2>1, <2>2, FewerNames DEF Visible
<1>4. CASE ~(WriteRef(p) \/ Unlink(p) \/ RewritePacked(p))
  <2>1. UNCHANGED <<loose, packed>>
    <3>1. CASE PathStep(p)
      BY <1>4, <3>1 DEF PathStep, AcquireLock, Release, PruneParents, RemoveOrphanLocks, disk
    <3> QED BY <3>1, OtherStepPaths
  <2> QED BY <2>1, FewerNames DEF Visible
<1> QED BY <1>1, <1>2, <1>3, <1>4

\* So does stock git.
LEMMA GitNames ==
    ASSUME IndInv, Paths, NEW g \in Gits, GitStep(g)
    PROVE  NamespaceDisjoint'
<1> USE DEF Paths
<1>0. loose \in [Refs -> Values] /\ packed \in [Refs -> Values] /\ Free \notin Gits
  BY PathTypes
<1>1. CASE GitUpdate(g)
  <2>1. git[g].ref \in Refs /\ lock[git[g].ref] = g
    BY <1>1 DEF GitUpdate, GitHoldsOf, Control, IndInv, Holding
  <2>2. /\ ~PathBlocked(git[g].ref) /\ NoPackedKin(git[g].ref)
        /\ \A m \in Refs \ {git[g].ref} : Visible(m)' = Visible(m)
    BY <1>0, <1>1 DEF GitUpdate, RefPathBlocked, NoPackedKin, Visible
  <2>3. lock[git[g].ref] # Free
    BY <1>0, <2>1
  <2> QED BY <2>1, <2>2, <2>3, OneMoreName
<1>2. CASE GitDelete(g)
  <2>1. \A n \in Refs : /\ loose'[n] = loose[n] \/ loose'[n] = None
                        /\ packed'[n] = packed[n] \/ (packed'[n] = None /\ loose'[n] = None)
    BY <1>0, <1>2 DEF GitDelete
  <2> QED BY <2>1, FewerNames DEF Visible
<1>3. CASE GitPack(g)
  <2>1. loose' = loose /\ packed' = [n \in Refs |-> Visible(n)]
    BY <1>3 DEF GitPack
  <2> QED BY <2>1, FewerNames DEF Visible
<1>4. CASE GitPrune(g)
  <2>1. \A n \in Refs : (loose'[n] = loose[n] \/ loose'[n] = None) /\ packed'[n] = packed[n]
    BY <1>0, <1>4 DEF GitPrune
  <2> QED BY <2>1, FewerNames DEF Visible
<1>5. CASE ~(GitUpdate(g) \/ GitDelete(g) \/ GitPack(g) \/ GitPrune(g))
  <2>1. UNCHANGED <<loose, packed>>
    BY <1>5 DEF GitStep, GitLockRef, GitLockPacked, GitAbort, GitPackLock, GitSwitch, disk
  <2> QED BY <2>1, FewerNames DEF Visible
<1> QED BY <1>1, <1>2, <1>3, <1>4, <1>5

\* What a move was validated against stays while its process holds packed-refs.lock.
LEMMA PreflightKept ==
    ASSUME IndInv, NEW q \in Procs, PreflightOf(q), Kept(q), NEW o, o # q, WritesOwn(o)
    PROVE  PreflightOf(q)'
<1>1. pc'[q] = pc[q] /\ plan'[q] = plan[q] /\ todo'[q] = todo[q]
  BY DEF Kept
<1>2. pc[q] \in Committing \cup {"validate"} => packed' = packed
  BY BatchLocked DEF WritesOwn, IndInv, Control, Holding
<1>3. packed' = packed => \A n : NoPackedKin(n)' = NoPackedKin(n)
  BY DEF NoPackedKin, Above
<1> QED BY <1>1, <1>2, <1>3 DEF PreflightOf

\* A packed-refs rewrite adds nothing.
LEMMA RewriteAddsNone ==
    ASSUME IndInv, NEW p \in Procs, RewritePacked(p), NEW n, NoPackedKin(n), n \in Refs
    PROVE  NoPackedKin(n)'
<1>1. snap[p] = packed /\ packed \in [Refs -> Values]
  BY PathTypes DEF RewritePacked, At, IndInv, Current, CurrentOf
<1>2. \A m \in Refs : packed[m] = None => packed'[m] = None
  BY <1>1 DEF RewritePacked
<1>3. Above(n)' = Above(n) /\ Above(n) \cup Below[n] \subseteq Refs
  BY RefAssumption DEF Above
<1> QED BY <1>2, <1>3 DEF NoPackedKin

\* A process validates a move before it counts on it.
LEMMA PreflightOwn ==
    ASSUME IndInv, NEW p \in Procs, PreflightOf(p), OpStep(p)
    PROVE  PreflightOf(p)'
<1> USE DEF At
<1>0. packed' = packed => \A n : NoPackedKin(n)' = NoPackedKin(n)
  BY DEF NoPackedKin, Above
<1>1. CASE pc'[p] \notin Committing \cup {"validate"}
  BY <1>1 DEF PreflightOf
<1>2. CASE Confirm(p)
  <2>1. pc'[p] = "validate" /\ DOMAIN plan'[p] \ todo'[p] = {}
    BY <1>2 DEF Confirm, request, IndInv, TypeOK, WorkOK
  <2> QED BY <2>1 DEF PreflightOf, Committing
<1>3. CASE ValidateOp(p)
  <2>1. PICK n \in todo[p] : Valid(n, plan[p][n]) /\ todo'[p] = todo[p] \ {n}
    BY <1>3 DEF ValidateOp, IndInv, TypeOK, WorkOK
  <2>2. pc[p] = "validate" /\ pc'[p] = "validate" /\ plan'[p] = plan[p] /\ packed' = packed
    BY <1>3 DEF ValidateOp, request, disk
  <2>3. plan[p][n].new # None => NoPackedKin(n)
    BY <2>1 DEF Valid, RefPathBlocked, NoPackedKin
  <2>4. \A k \in DOMAIN plan'[p] \ todo'[p] : plan'[p][k].new # None => NoPackedKin(k)
    BY <2>1, <2>2, <2>3 DEF PreflightOf
  <2> QED BY <1>0, <2>2, <2>4 DEF PreflightOf, Committing
<1>4. CASE AllValid(p)
  <2>1. /\ pc[p] = "validate" /\ pc'[p] = "commit" /\ plan'[p] = plan[p] /\ packed' = packed
        /\ todo[p] = {} /\ todo'[p] = DOMAIN plan[p]
    BY <1>4 DEF AllValid, request, disk, IndInv, TypeOK, WorkOK
  <2> QED BY <1>0, <2>1 DEF PreflightOf
<1>5. CASE \/ BeginOp(p) \/ LogRef(p) \/ LogHead(p) \/ WriteRef(p) \/ Unlink(p) \/ ReadPacked(p)
           \/ DropLog(p)
  <2>1. /\ pc[p] \in Committing /\ pc'[p] \in Committing /\ plan'[p] = plan[p] /\ packed' = packed
        /\ todo'[p] \subseteq todo[p]
    BY <1>5 DEF BeginOp, LogRef, LogHead, WriteRef, Unlink, ReadPacked, DropLog, Committing,
                request, work, disk, IndInv, TypeOK, WorkOK
  <2>2. pc'[p] # "validate"
    BY <2>1 DEF Committing
  <2> QED BY <1>0, <2>1, <2>2 DEF PreflightOf
<1>6. CASE RewritePacked(p)
  <2>1. pc[p] = "rewrite" /\ pc'[p] = "unlog" /\ plan'[p] = plan[p] /\ todo'[p] = todo[p]
    BY <1>6 DEF RewritePacked, request, work, IndInv, TypeOK, WorkOK
  <2>2. todo[p] \subseteq Refs
    BY DEF IndInv, TypeOK, WorkOK
  <2> QED BY <1>6, <2>1, <2>2, RewriteAddsNone DEF PreflightOf, Committing
<1>7. CASE Crash(p)
  <2>1. UNCHANGED <<pc, plan, todo, packed>>
    BY <1>7 DEF Crash, disk, request, work
  <2> QED BY <1>0, <2>1 DEF PreflightOf
<1>8. CASE \/ Transact(p) \/ SetSymbolic(p) \/ AcquireLease(p) \/ LeaseBackoff(p)
           \/ LeaseTimeout(p) \/ PlanLocks(p) \/ AcquireLock(p) \/ LockBackoff(p)
  <2>1. pc'[p] \in {"idle", "lease", "plan", "lock"}
    BY <1>8 DEF Transact, SetSymbolic, Submit, AcquireLease, LeaseBackoff, LeaseTimeout,
                PlanLocks, AcquireLock, LockBackoff, Locking, IndInv, TypeOK, WorkOK
  <2> QED BY <1>1, <2>1 DEF Committing
<1>9. CASE LogSwitch(p) \/ Release(p) \/ PruneParents(p) \/ DropLease(p) \/ RemoveOrphanLocks(p)
  <2>1. pc'[p] \in {"sethead", "release", "unlease", "idle"}
    BY <1>9 DEF LogSwitch, Release, PruneParents, DropLease, RemoveOrphanLocks, Forget,
                IndInv, TypeOK, WorkOK
  <2> QED BY <1>1, <2>1 DEF Committing
<1>10. CASE FailStep(p)
  <2>1. pc'[p] = "release"
    BY <1>10 DEF FailStep, LockTimeout, LockBlocked, HeadMoved, RejectOp, LogRefBlocked,
                 CommitBlocked, PackedUndecodable, Committed, SetHead, Fail, IndInv, TypeOK, WorkOK
  <2> QED BY <1>1, <2>1 DEF Committing
<1> QED BY <1>2, <1>3, <1>4, <1>5, <1>6, <1>7, <1>8, <1>9, <1>10
        DEF OpStep, ProcessStep, FailStep

\* A process takes the locks of its own batch.
LEMMA OwnedOwn ==
    ASSUME IndInv, NEW p \in Procs, OwnedOf(p), OpStep(p)
    PROVE  OwnedOf(p)'
<1> USE DEF At
<1>0. /\ lock \in [Locks -> Procs \cup Gits \cup {Free}] /\ Refs \subseteq Locks /\ p # Free
      /\ HeadLock \notin Refs /\ PackedLock \notin Refs
      /\ HoldsOf(p) /\ want \in [Procs -> SUBSET Locks]
  BY PathTypes DEF IndInv, Holding, TypeOK, WorkOK
<1>1. CASE Transact(p) \/ SetSymbolic(p) \/ DropLease(p) \/ RemoveOrphanLocks(p)
  <2>1. HeldBy(p)' = {}
    <3>1. CASE RemoveOrphanLocks(p)
      BY <1>0, <3>1 DEF RemoveOrphanLocks, Unlocked, HeldBy
    <3>2. CASE Transact(p) \/ SetSymbolic(p) \/ DropLease(p)
      <4>1. HeldBy(p) = {} /\ lock' = lock
        BY <1>0, <3>2 DEF Transact, SetSymbolic, Submit, DropLease, HoldsOf
      <4> QED BY <4>1 DEF HeldBy
    <3> QED BY <1>1, <3>1, <3>2
  <2>2. pc'[p] \in {"lease", "idle"}
    BY <1>1 DEF Transact, SetSymbolic, Submit, DropLease, RemoveOrphanLocks, Forget,
                IndInv, TypeOK, WorkOK
  <2> QED BY <2>1, <2>2 DEF OwnedOf
<1>2. CASE PlanLocks(p)
  <2>1. HeldBy(p) = {} /\ lock' = lock /\ plan' = plan
    BY <1>0, <1>2 DEF PlanLocks, HoldsOf, request
  <2>2. want'[p] = IF target[p] # None THEN {HeadLock} ELSE TransactionLocks(p, CascadingOps(p))
    BY <1>0, <1>2 DEF PlanLocks
  <2>3. want'[p] \cap Refs \subseteq DOMAIN plan[p]
    BY <1>0, <2>2 DEF TransactionLocks
  <2>4. HeldBy(p)' = {}
    BY <2>1 DEF HeldBy
  <2> QED BY <2>1, <2>3, <2>4 DEF OwnedOf
<1>3. CASE AcquireLock(p)
  <2>1. PICK l \in Locks : /\ Locking(p, l) /\ lock' = [lock EXCEPT ![l] = p]
                           /\ want' = [want EXCEPT ![p] = @ \ {l}]
    BY <1>3 DEF AcquireLock
  <2>2. plan' = plan /\ pc[p] = "lock" /\ l \in want[p]
    BY <1>3, <2>1 DEF AcquireLock, Locking, IsNext, request
  <2>3. HeldBy(p)' = HeldBy(p) \cup {l} /\ want'[p] \subseteq want[p]
    BY <1>0, <2>1 DEF HeldBy
  <2> QED BY <2>2, <2>3 DEF OwnedOf
<1>4. CASE Release(p)
  <2>1. HeldBy(p)' \subseteq HeldBy(p)
    BY <1>0, <1>4 DEF Release, HeldBy
  <2>2. plan' = plan /\ pc'[p] = "release"
    BY <1>4 DEF Release, request
  <2> QED BY <2>1, <2>2 DEF OwnedOf
<1>5. CASE ~(\/ Transact(p) \/ SetSymbolic(p) \/ DropLease(p) \/ RemoveOrphanLocks(p)
             \/ PlanLocks(p) \/ AcquireLock(p) \/ Release(p))
  <2>1. /\ UNCHANGED <<lock, plan, want>>
        /\ pc'[p] = "lock" => pc[p] = "lock"
    BY <1>5
       DEF OpStep, Crash, ProcessStep, AcquireLease, LeaseBackoff, LeaseTimeout, LockBackoff,
           LockTimeout, LockBlocked, Confirm, HeadMoved, ValidateOp, RejectOp, AllValid, BeginOp,
           LogRef, LogRefBlocked, LogHead, WriteRef, Unlink, CommitBlocked, ReadPacked,
           PackedUndecodable, RewritePacked, DropLog, Committed, LogSwitch, SetHead,
           PruneParents, Fail, request, work, IndInv, TypeOK, WorkOK
  <2> QED BY <2>1 DEF OwnedOf, HeldBy
<1> QED BY <1>1, <1>2, <1>3, <1>4, <1>5

\* Nobody else takes them.
LEMMA OwnedKept ==
    ASSUME NEW q \in Procs, OwnedOf(q), Kept(q)
    PROVE  OwnedOf(q)'
<1>1. HeldBy(q)' = HeldBy(q)
  BY DEF HeldBy, Kept
<1> QED BY <1>1 DEF OwnedOf, Kept

\* Every step keeps the paths, the preflight and the ownership of the locks.
LEMMA PathStepInv ==
    ASSUME PathInv, Next
    PROVE  Paths' /\ Preflight' /\ Owned'
<1> USE DEF PathInv, DeleteInv
<1>1. CASE \E p \in Procs : OpStep(p)
  <2> PICK p \in Procs : OpStep(p)
    BY <1>1
  <2>1. Paths'
    BY ProcessDirs, ProcessNames DEF Paths
  <2>2. PreflightOf(p)' /\ OwnedOf(p)'
    BY PreflightOwn, OwnedOwn DEF Preflight, Owned
  <2>3. WritesOwn(p)
    BY ProcessWritesOwn DEF IndInv, Holding, Current
  <2>4. ASSUME NEW q \in Procs \ {p} PROVE PreflightOf(q)' /\ OwnedOf(q)'
    <3>1. Kept(q)
      BY <2>4, OtherProcessKept DEF IndInv
    <3> QED BY <2>3, <2>4, <3>1, PreflightKept, OwnedKept DEF Preflight, Owned
  <2> QED BY <2>1, <2>2, <2>4 DEF Preflight, Owned
<1>2. CASE \E g \in Gits : GitStep(g)
  <2> PICK g \in Gits : GitStep(g)
    BY <1>2
  <2>1. Paths'
    BY GitDirs, GitNames DEF Paths
  <2>2. WritesOwn(g)
    BY GitWritesOwn DEF IndInv, Holding
  <2>3. ASSUME NEW q \in Procs PROVE PreflightOf(q)' /\ OwnedOf(q)'
    <3>1. Kept(q) /\ g # q
      BY <2>3, GitKeepsProcess, OwnerAssumption DEF IndInv
    <3> QED BY <2>2, <2>3, <3>1, PreflightKept, OwnedKept DEF Preflight, Owned
  <2> QED BY <2>1, <2>3 DEF Preflight, Owned
<1> QED BY <1>1, <1>2 DEF Next, OpStep

\* The initial repository has its directories and no name above another.
LEMMA PathInit == Init /\ IndInv => Paths /\ Preflight /\ Owned
<1> SUFFICES ASSUME Init, IndInv PROVE Paths /\ Preflight /\ Owned
  OBVIOUS
<1>1. NamespaceDisjoint
  BY DEF Init, NamespaceDisjoint
<1>2. dirs = {d \in Refs : \E m \in Below[d] : loose[m] # None}
  BY DEF Init
<1>3. \A m \in Refs : lock[m] = Free
  BY PathTypes DEF Init
<1>4. DirsCover
  BY <1>2, <1>3 DEF DirsCover, Above
<1>5. FilesNotDirs
  <2>1. ASSUME NEW d \in dirs PROVE loose[d] = None
    <3>1. PICK m \in Below[d] : loose[m] # None
      BY <1>2, <2>1
    <3>2. Visible(m) # None /\ d \in Refs
      BY <1>2, <3>1 DEF Visible
    <3>3. Visible(d) = None
      BY <1>1, <3>1, <3>2 DEF NamespaceDisjoint
    <3> QED BY <3>3 DEF Visible
  <2> QED BY <2>1 DEF FilesNotDirs
<1>6. ASSUME NEW p \in Procs PROVE PreflightOf(p) /\ OwnedOf(p)
  <2>1. pc[p] = "idle"
    BY DEF Init
  <2>2. HeldBy(p) = {}
    BY <2>1 DEF IndInv, Holding, HoldsOf
  <2> QED BY <2>1, <2>2 DEF PreflightOf, OwnedOf, Committing
<1> QED BY <1>1, <1>4, <1>5, <1>6 DEF Paths, Preflight, Owned

\* The paths are in order in every reachable state.
THEOREM PathInvariant == Spec => []PathInv
<1>1. Init /\ DeleteInv => PathInv
  BY PathInit DEF PathInv, DeleteInv
<1>2. PathInv /\ DeleteInv' /\ [Next]_vars => PathInv'
  <2> SUFFICES ASSUME PathInv, DeleteInv', [Next]_vars PROVE Paths' /\ Preflight' /\ Owned'
    BY DEF PathInv
  <2>1. CASE UNCHANGED vars
    <3>1. UNCHANGED <<loose, packed, dirs, lock, pc, plan, todo, want>>
      BY <2>1 DEF vars, disk, request, work
    <3>2. Paths'
      BY <3>1 DEF PathInv, Paths, DirsCover, FilesNotDirs, NamespaceDisjoint, Visible, Above
    <3>3. Preflight' /\ Owned'
      BY <3>1 DEF PathInv, Preflight, PreflightOf, NoPackedKin, Above, Owned, OwnedOf, HeldBy
    <3> QED BY <3>2, <3>3
  <2> QED BY <2>1, PathStepInv
<1> QED BY <1>1, <1>2, DeleteInvariant, PTL DEF Spec

\* Whatever stock git and other processes do, and wherever a process dies, no ref
\* name is ever a directory of another, be they loose or packed: what
\* ref_path_write_blocked found is still so when the ref is written.
THEOREM NamesStayDisjoint == Spec => []NamespaceDisjoint
<1>1. PathInv => NamespaceDisjoint
  BY DEF PathInv, Paths
<1> QED BY <1>1, PathInvariant, PTL

-----------------------------------------------------------------------------
(***************************************************************************)
(* Reflogs.                                                                *)
(***************************************************************************)

\* A longer sequence has the elements it had, and the new one.
LEMMA Appended ==
    ASSUME NEW S, NEW s \in Seq(S), NEW e \in S
    PROVE  /\ Append(s, e) # <<>> /\ Append(s, e)[Len(Append(s, e))] = e
           /\ Len(Append(s, e)) \in DOMAIN Append(s, e)
           /\ \A i \in DOMAIN s : i \in DOMAIN Append(s, e) /\ Append(s, e)[i] = s[i]
OBVIOUS

\* A reflog that grows still tells what it told, and the new value.
LEMMA GrownTells ==
    ASSUME IndInv, NEW n \in Refs, NEW old \in Values, NEW new \in Values,
           logs'[n] = Append(logs[n], Entry(old, new))
    PROVE  Tells(n, new)' /\ \A v : Tells(n, v) => Tells(n, v)'
<1>1. logs[n] \in Seq([old : Values, new : Values]) /\ Entry(old, new) \in [old : Values, new : Values]
  BY DEF IndInv, TypeOK, DiskOK, Entry
<1>2. /\ logs'[n][Len(logs'[n])] = Entry(old, new) /\ Len(logs'[n]) \in DOMAIN logs'[n]
      /\ \A i \in DOMAIN logs[n] : i \in DOMAIN logs'[n] /\ logs'[n][i] = logs[n][i]
  BY <1>1, Appended
<1> QED BY <1>2 DEF Tells, Entry

\* A reflog is changed only under the lock of its ref.
LogsOwn(o) == \A n \in Refs : logs'[n] # logs[n] => lock[n] = o

\* A batch changes the reflog of the ref at hand and of HEAD; a switch that of HEAD.
LEMMA ProcessLogsOwn ==
    ASSUME IndInv, NEW p \in Procs, OpStep(p)
    PROVE  LogsOwn(p)
<1>0. logs \in [Refs \cup {HeadLock} -> Seq([old : Values, new : Values])] /\ HeadLock \notin Refs
  BY PathTypes DEF IndInv, TypeOK, DiskOK
<1>1. CASE LogRef(p) \/ DropLog(p)
  <2>1. cur[p] \in Refs /\ lock[cur[p]] = p
    BY <1>1, CurLocked DEF LogRef, DropLog, At, OnOp, Committing
  <2>2. \A n \in Refs \ {cur[p]} : logs'[n] = logs[n]
    BY <1>0, <1>1 DEF LogRef, DropLog, AppendLog
  <2> QED BY <2>1, <2>2 DEF LogsOwn
<1>2. CASE LogHead(p) \/ LogSwitch(p)
  <2>1. \A n \in Refs : logs'[n] = logs[n]
    BY <1>0, <1>2 DEF LogHead, LogSwitch, AppendLog
  <2> QED BY <2>1 DEF LogsOwn
<1>3. CASE ~(LogRef(p) \/ DropLog(p) \/ LogHead(p) \/ LogSwitch(p))
  <2>1. UNCHANGED logs
    BY <1>3
       DEF OpStep, Transact, SetSymbolic, Submit, Crash, RemoveOrphanLocks, ProcessStep,
           AcquireLease, LeaseBackoff, LeaseTimeout, PlanLocks, AcquireLock, LockBackoff,
           LockTimeout, LockBlocked, Confirm, HeadMoved, ValidateOp, RejectOp, AllValid, BeginOp,
           LogRefBlocked, WriteRef, Unlink, CommitBlocked, ReadPacked, PackedUndecodable,
           RewritePacked, Committed, SetHead, Release, PruneParents, DropLease, Fail, disk
  <2> QED BY <2>1 DEF LogsOwn
<1> QED BY <1>1, <1>2, <1>3

\* So does stock git.
LEMMA GitLogsOwn ==
    ASSUME IndInv, NEW g \in Gits, GitStep(g)
    PROVE  LogsOwn(g)
<1>0. logs \in [Refs \cup {HeadLock} -> Seq([old : Values, new : Values])] /\ HeadLock \notin Refs
  BY PathTypes DEF IndInv, TypeOK, DiskOK
<1>1. CASE GitUpdate(g) \/ GitDelete(g)
  <2>1. git[g].ref \in Refs /\ lock[git[g].ref] = g
    BY <1>1 DEF GitUpdate, GitDelete, GitHoldsOf, Control, IndInv, Holding
  <2>2. \A n \in Refs \ {git[g].ref} : logs'[n] = logs[n]
    BY <1>0, <1>1 DEF GitUpdate, GitDelete, GitLog
  <2> QED BY <2>1, <2>2 DEF LogsOwn
<1>2. CASE GitSwitch(g)
  BY <1>0, <1>2 DEF GitSwitch, LogsOwn
<1>3. CASE ~(GitUpdate(g) \/ GitDelete(g) \/ GitSwitch(g))
  <2>1. UNCHANGED logs
    BY <1>3 DEF GitStep, GitLockRef, GitLockPacked, GitAbort, GitPackLock, GitPack, GitPrune, disk
  <2> QED BY <2>1 DEF LogsOwn
<1> QED BY <1>1, <1>2, <1>3

\* The reflog a process has written ahead stays while it holds the ref's lock.
LEMMA AheadKept ==
    ASSUME IndInv, NEW q \in Procs, AheadOf(q), Kept(q), NEW o, o # q, LogsOwn(o)
    PROVE  AheadOf(q)'
<1>1. pc'[q] = pc[q] /\ cur'[q] = cur[q] /\ CurOp(q)' = CurOp(q)
  BY DEF Kept, CurOp
<1>2. pc[q] \in {"headlog", "write"} => logs'[cur[q]] = logs[cur[q]]
  BY CurLocked DEF LogsOwn, OnOp, Committing
<1> QED BY <1>1, <1>2 DEF AheadOf, Tells

\* A move that changes its ref is told to the reflog before the ref is written.
LEMMA AheadOwn ==
    ASSUME EveryMoveLogged, IndInv, Kind, NEW p \in Procs, AheadOf(p), OpStep(p)
    PROVE  AheadOf(p)'
<1> USE DEF At
<1>1. CASE pc'[p] \notin {"headlog", "write"}
  BY <1>1 DEF AheadOf
<1>2. CASE BeginOp(p)
  <2>1. PICK n \in todo[p] : /\ cur'[p] = n /\ plan' = plan
                             /\ pc'[p] = IF plan[p][n].new = None THEN "headlog" ELSE "log"
    BY <1>2 DEF BeginOp, IndInv, TypeOK, WorkOK, request
  <2> QED BY <2>1 DEF AheadOf, CurOp
<1>3. CASE LogRef(p)
  <2>1. /\ pc[p] = "log" /\ cur[p] \in Refs /\ cur[p] \in DOMAIN plan[p]
        /\ CurOp(p) = plan[p][cur[p]]
    BY <1>3, CurLocked DEF LogRef, OnOp, Committing
  <2>2. CurOp(p)' = CurOp(p) /\ cur'[p] = cur[p]
    BY <1>3 DEF LogRef, request, work, CurOp
  <2>3. CurOp(p).new # None /\ plan[p] \in Plans
    BY <2>1 DEF Kind, KindOf, IndInv, TypeOK, RequestOK, NoPlan
  <2>4. WritesOwnLog(CurOp(p))
    BY <2>1, <2>3 DEF EveryMoveLogged, WritesOwnLog
  <2>5. ASSUME cur[p] \in Logged PROVE Tells(cur[p], CurOp(p).new)'
    <3>1. AppendLog(cur[p], Entry(CurOp(p).expected, CurOp(p).new))
      BY <1>3, <2>4, <2>5 DEF LogRef, ShouldLog
    <3>2. logs'[cur[p]] = Append(logs[cur[p]], Entry(CurOp(p).expected, CurOp(p).new))
      BY <2>1, <3>1 DEF AppendLog, IndInv, TypeOK, DiskOK
    <3>3. CurOp(p).expected \in Values /\ CurOp(p).new \in Values
      BY <2>1, PlanOps DEF IndInv, TypeOK
    <3>4. \A n \in Refs, old, new \in Values :
            logs'[n] = Append(logs[n], Entry(old, new)) =>
              \E i \in DOMAIN logs'[n] : logs'[n][i].new = new
      BY GrownTells DEF Tells
    <3>5. \E i \in DOMAIN logs'[cur[p]] : logs'[cur[p]][i].new = CurOp(p).new
      BY <2>1, <3>2, <3>3, <3>4
    <3> QED BY <2>2, <3>5 DEF Tells
  <2> QED BY <2>2, <2>5 DEF AheadOf
<1>4. CASE LogHead(p)
  <2>1. /\ pc[p] = "headlog" /\ cur[p] \in Refs /\ cur'[p] = cur[p] /\ CurOp(p)' = CurOp(p)
        /\ \A n \in Refs : logs'[n] = logs[n]
    <3>1. pc[p] = "headlog" /\ cur[p] \in Refs
      BY <1>4, CurLocked DEF LogHead, OnOp, Committing
    <3>2. \A n \in Refs : logs'[n] = logs[n]
      BY <1>4, PathTypes DEF LogHead, AppendLog, IndInv, TypeOK, DiskOK
    <3> QED BY <1>4, <3>1, <3>2 DEF LogHead, request, work, CurOp
  <2> QED BY <2>1 DEF AheadOf, Tells
<1>5. CASE Crash(p)
  BY <1>5 DEF Crash, disk, request, work, AheadOf, CurOp, Tells
<1>6. CASE ~(BeginOp(p) \/ LogRef(p) \/ LogHead(p) \/ Crash(p))
  <2>1. pc'[p] \notin {"headlog", "write"}
    <3>1. CASE \/ Transact(p) \/ SetSymbolic(p) \/ AcquireLease(p) \/ LeaseBackoff(p)
               \/ LeaseTimeout(p) \/ PlanLocks(p) \/ AcquireLock(p) \/ LockBackoff(p)
      BY <3>1 DEF Transact, SetSymbolic, Submit, AcquireLease, LeaseBackoff, LeaseTimeout,
                  PlanLocks, AcquireLock, LockBackoff, Locking, IndInv, TypeOK, WorkOK
    <3>2. CASE FailStep(p)
      BY <3>2 DEF FailStep, LockTimeout, LockBlocked, HeadMoved, RejectOp, LogRefBlocked,
                  CommitBlocked, PackedUndecodable, Committed, SetHead, Fail, IndInv, TypeOK, WorkOK
    <3>3. CASE \/ Confirm(p) \/ ValidateOp(p) \/ AllValid(p) \/ WriteRef(p) \/ Unlink(p)
               \/ ReadPacked(p) \/ RewritePacked(p) \/ DropLog(p)
      BY <3>3 DEF Confirm, ValidateOp, AllValid, WriteRef, Unlink, ReadPacked, RewritePacked,
                  DropLog, IndInv, TypeOK, WorkOK
    <3>4. CASE LogSwitch(p) \/ Release(p) \/ PruneParents(p) \/ DropLease(p) \/ RemoveOrphanLocks(p)
      BY <3>4 DEF LogSwitch, Release, PruneParents, DropLease, RemoveOrphanLocks, Forget,
                  IndInv, TypeOK, WorkOK
    <3> QED BY <1>6, <3>1, <3>2, <3>3, <3>4 DEF OpStep, ProcessStep, FailStep
  <2> QED BY <1>1, <2>1
<1> QED BY <1>2, <1>3, <1>4, <1>5, <1>6

\* A process publishes what the reflog tells.
LEMMA ProcessTips ==
    ASSUME IndInv, Kind, LooseTipIsLogged, Ahead, NEW p \in Procs, OpStep(p)
    PROVE  LooseTipIsLogged'
<1> USE DEF At
<1>0. /\ loose \in [Refs -> Values] /\ HeadLock \notin Refs
      /\ logs \in [Refs \cup {HeadLock} -> Seq([old : Values, new : Values])]
      /\ \A n \in Logged \cap Refs : loose[n] # None => Tells(n, loose[n])
  BY PathTypes DEF IndInv, TypeOK, DiskOK, LooseTipIsLogged, Tells
<1>s. SUFFICES ASSUME NEW n \in Logged \cap Refs, loose'[n] # None
               PROVE  Tells(n, loose[n])'
  BY DEF LooseTipIsLogged, Tells
<1>1. CASE WriteRef(p)
  <2>1. pc[p] = "write" /\ cur[p] \in Refs /\ logs' = logs
    BY <1>1, CurLocked DEF WriteRef, OnOp, Committing
  <2>2. CASE n = cur[p]
    <3>1. loose'[n] = CurOp(p).new
      BY <1>0, <1>1, <2>1, <2>2 DEF WriteRef
    <3>2. Tells(n, CurOp(p).new)
      BY <1>s, <2>1, <2>2, <3>1 DEF Ahead, AheadOf
    <3> QED BY <2>1, <3>1, <3>2 DEF Tells
  <2>3. CASE n # cur[p]
    <3>1. loose'[n] = loose[n]
      BY <1>0, <1>1, <2>3 DEF WriteRef
    <3> QED BY <1>0, <1>s, <2>1, <3>1 DEF Tells
  <2> QED BY <2>2, <2>3
<1>2. CASE Unlink(p)
  <2>1. (loose'[n] = loose[n] \/ loose'[n] = None) /\ logs' = logs
    BY <1>0, <1>2 DEF Unlink, disk
  <2> QED BY <1>0, <1>s, <2>1 DEF Tells
<1>3. CASE LogRef(p)
  <2>1. /\ loose' = loose /\ cur[p] \in Refs
        /\ CurOp(p).expected \in Values /\ CurOp(p).new \in Values
    <3>1. pc[p] = "log" /\ loose' = loose
      BY <1>3 DEF LogRef
    <3> QED BY <3>1, CurLocked, PlanOps DEF OnOp, Committing, IndInv, TypeOK
  <2>2. \/ logs'[n] = logs[n]
        \/ logs'[n] = Append(logs[n], Entry(CurOp(p).expected, CurOp(p).new))
    BY <1>0, <1>3, <2>1 DEF LogRef, AppendLog
  <2>3. CASE logs'[n] = logs[n]
    BY <1>0, <1>s, <2>1, <2>3 DEF Tells
  <2>4. CASE logs'[n] = Append(logs[n], Entry(CurOp(p).expected, CurOp(p).new))
    <3>1. Tells(n, loose[n]) /\ loose'[n] = loose[n]
      BY <1>0, <1>s, <2>1
    <3>2. \A v : Tells(n, v) => Tells(n, v)'
      BY <2>1, <2>4, GrownTells
    <3> QED BY <3>1, <3>2 DEF Tells
  <2> QED BY <2>2, <2>3, <2>4
<1>4. CASE DropLog(p)
  <2>1. loose' = loose /\ loose[cur[p]] = None
    BY <1>4 DEF DropLog, Kind, KindOf
  <2>2. n # cur[p]
    BY <1>s, <2>1
  <2>3. logs'[n] = logs[n]
    BY <1>0, <1>4, <2>2 DEF DropLog
  <2> QED BY <1>0, <1>s, <2>1, <2>3 DEF Tells
<1>5. CASE LogHead(p) \/ LogSwitch(p)
  <2>1. loose' = loose /\ logs'[n] = logs[n]
    BY <1>0, <1>5 DEF LogHead, LogSwitch, AppendLog
  <2> QED BY <1>0, <1>s, <2>1 DEF Tells
<1>6. CASE ~(\/ WriteRef(p) \/ Unlink(p) \/ LogRef(p) \/ DropLog(p) \/ LogHead(p) \/ LogSwitch(p))
  <2>1. UNCHANGED <<loose, logs>>
    BY <1>6
       DEF OpStep, Transact, SetSymbolic, Submit, Crash, RemoveOrphanLocks, ProcessStep,
           AcquireLease, LeaseBackoff, LeaseTimeout, PlanLocks, AcquireLock, LockBackoff,
           LockTimeout, LockBlocked, Confirm, HeadMoved, ValidateOp, RejectOp, AllValid, BeginOp,
           LogRefBlocked, CommitBlocked, ReadPacked, PackedUndecodable,
           RewritePacked, Committed, SetHead, Release, PruneParents, DropLease, Fail, disk
  <2> QED BY <1>0, <1>s, <2>1 DEF Tells
<1> QED BY <1>1, <1>2, <1>3, <1>4, <1>5, <1>6

\* So does stock git.
LEMMA GitTips ==
    ASSUME IndInv, LooseTipIsLogged, NEW g \in Gits, GitStep(g)
    PROVE  LooseTipIsLogged'
<1>0. /\ loose \in [Refs -> Values] /\ HeadLock \notin Refs
      /\ logs \in [Refs \cup {HeadLock} -> Seq([old : Values, new : Values])]
      /\ \A n \in Logged \cap Refs : loose[n] # None => Tells(n, loose[n])
  BY PathTypes DEF IndInv, TypeOK, DiskOK, LooseTipIsLogged, Tells
<1>s. SUFFICES ASSUME NEW n \in Logged \cap Refs, loose'[n] # None
               PROVE  Tells(n, loose[n])'
  BY DEF LooseTipIsLogged, Tells
<1>1. CASE GitUpdate(g)
  <2>1. PICK v \in Oids : /\ loose' = [loose EXCEPT ![git[g].ref] = v]
                          /\ logs' = GitLog(g, git[g].ref, v)
    BY <1>1 DEF GitUpdate
  <2>2. git[g].ref \in Refs /\ Visible(git[g].ref) \in Values
    BY <1>1, VisibleType DEF GitUpdate, Control, IndInv
  <2>3. CASE n = git[g].ref
    <3>1. loose'[n] = v /\ logs'[n] = Append(logs[n], Entry(Visible(n), v))
      BY <1>0, <2>1, <2>2, <2>3 DEF GitLog
    <3>2. v \in Values
      BY DEF Values
    <3>3. Tells(n, v)'
      BY <2>2, <2>3, <3>1, <3>2, GrownTells
    <3> QED BY <3>1, <3>3 DEF Tells
  <2>4. CASE n # git[g].ref
    <3>1. loose'[n] = loose[n] /\ logs'[n] = logs[n]
      BY <1>0, <2>1, <2>4 DEF GitLog
    <3> QED BY <1>0, <1>s, <3>1 DEF Tells
  <2> QED BY <2>3, <2>4
<1>2. CASE GitDelete(g)
  <2>1. loose' = [loose EXCEPT ![git[g].ref] = None]
    BY <1>2 DEF GitDelete
  <2>2. n # git[g].ref
    BY <1>0, <1>s, <2>1
  <2>3. loose'[n] = loose[n] /\ logs'[n] = logs[n]
    BY <1>0, <1>2, <2>1, <2>2 DEF GitDelete, GitLog
  <2> QED BY <1>0, <1>s, <2>3 DEF Tells
<1>3. CASE GitPrune(g)
  <2>1. (loose'[n] = loose[n] \/ loose'[n] = None) /\ logs' = logs
    BY <1>0, <1>3 DEF GitPrune
  <2> QED BY <1>0, <1>s, <2>1 DEF Tells
<1>4. CASE GitSwitch(g)
  <2>1. loose' = loose /\ logs'[n] = logs[n]
    BY <1>0, <1>4 DEF GitSwitch
  <2> QED BY <1>0, <1>s, <2>1 DEF Tells
<1>5. CASE ~(GitUpdate(g) \/ GitDelete(g) \/ GitPrune(g) \/ GitSwitch(g))
  <2>1. UNCHANGED <<loose, logs>>
    BY <1>5 DEF GitStep, GitLockRef, GitLockPacked, GitAbort, GitPackLock, GitPack, disk
  <2> QED BY <1>0, <1>s, <2>1 DEF Tells
<1> QED BY <1>1, <1>2, <1>3, <1>4, <1>5

\* The reflogs are ahead of the refs in every reachable state, if every move is
\* logged and moves its ref.
THEOREM LogInvariant == ASSUME EveryMoveLogged PROVE Spec => []LogInv
<1>1. Init /\ DeleteInv => LogInv
  <2> SUFFICES ASSUME Init, DeleteInv PROVE LooseTipIsLogged /\ Ahead
    BY DEF LogInv
  <2>1. ASSUME NEW n \in Logged \cap Refs, loose[n] # None
        PROVE  \E i \in DOMAIN logs[n] : logs[n][i].new = loose[n]
    <3>1. Visible(n) = loose[n] /\ n # HeadLock
      BY <2>1, PathTypes DEF Visible, DeleteInv
    <3>2. logs[n] = <<Entry(None, loose[n])>>
      BY <2>1, <3>1 DEF Init
    <3> QED BY <3>2 DEF Entry
  <2>2. Ahead
    BY DEF Init, Ahead, AheadOf
  <2> QED BY <2>1, <2>2 DEF LooseTipIsLogged
<1>2. LogInv /\ DeleteInv' /\ [Next]_vars => LogInv'
  <2> SUFFICES ASSUME LogInv, DeleteInv', [Next]_vars PROVE LooseTipIsLogged' /\ Ahead'
    BY DEF LogInv
  <2> USE DEF LogInv, DeleteInv
  <2>1. CASE UNCHANGED vars
    <3>1. UNCHANGED <<loose, logs, pc, plan, cur>>
      BY <2>1 DEF vars, disk, request, work
    <3> QED BY <3>1 DEF LooseTipIsLogged, Ahead, AheadOf, Tells, CurOp
  <2>2. CASE \E p \in Procs : OpStep(p)
    <3> PICK p \in Procs : OpStep(p)
      BY <2>2
    <3>1. LooseTipIsLogged' /\ AheadOf(p)' /\ LogsOwn(p)
      BY ProcessTips, AheadOwn, ProcessLogsOwn DEF Ahead
    <3>2. ASSUME NEW q \in Procs \ {p} PROVE AheadOf(q)'
      <4>1. Kept(q)
        BY <3>2, OtherProcessKept DEF IndInv
      <4> QED BY <3>1, <3>2, <4>1, AheadKept DEF Ahead
    <3> QED BY <3>1, <3>2 DEF Ahead
  <2>3. CASE \E g \in Gits : GitStep(g)
    <3> PICK g \in Gits : GitStep(g)
      BY <2>3
    <3>1. LooseTipIsLogged' /\ LogsOwn(g)
      BY GitTips, GitLogsOwn
    <3>2. ASSUME NEW q \in Procs PROVE AheadOf(q)'
      <4>1. Kept(q) /\ g # q
        BY <3>2, GitKeepsProcess, OwnerAssumption DEF IndInv
      <4> QED BY <3>1, <3>2, <4>1, AheadKept DEF Ahead
    <3> QED BY <3>1, <3>2 DEF Ahead
  <2> QED BY <2>1, <2>2, <2>3 DEF Next, OpStep
<1> QED BY <1>1, <1>2, DeleteInvariant, PTL DEF Spec

\* A published value is in the reflog of its ref at every step and after every
\* crash, when the moves are logged and change something: commit_op writes the
\* reflog first, and only under the ref's lock.
THEOREM TipsAreLogged == ASSUME EveryMoveLogged PROVE Spec => []LooseTipIsLogged
<1>1. LogInv => LooseTipIsLogged
  BY DEF LogInv
<1> QED BY <1>1, LogInvariant, PTL

-----------------------------------------------------------------------------
(***************************************************************************)
(* gitana processes alone.                                                 *)
(***************************************************************************)

\* What a gitana process does of itself.
LiveStep(p) == Transact(p) \/ SetSymbolic(p) \/ ProcessStep(p)

\* As long as nobody died and stock git did nothing, only live processes step.
LEMMA AloneSteps ==
    ASSUME IndInv, Undisturbed => Solo, Next, Undisturbed'
    PROVE  Undisturbed /\ Solo /\ \E p \in Procs : LiveStep(p)
<1>0. crashes \in Nat /\ gitBegun \in Nat
  BY DEF IndInv, TypeOK, OthersOK
<1>1. ASSUME NEW p \in Procs, Crash(p) PROVE FALSE
  BY <1>0, <1>1 DEF Crash, Undisturbed
<1>2. ASSUME NEW p \in Procs, OpStep(p), ~Crash(p) PROVE UNCHANGED <<crashes, gitBegun>>
  BY <1>2
     DEF OpStep, Transact, SetSymbolic, Submit, RemoveOrphanLocks, ProcessStep, AcquireLease,
         LeaseBackoff, LeaseTimeout, PlanLocks, AcquireLock, LockBackoff, LockTimeout,
         LockBlocked, Confirm, HeadMoved, ValidateOp, RejectOp, AllValid, BeginOp, LogRef,
         LogRefBlocked, LogHead, WriteRef, Unlink, CommitBlocked, ReadPacked, PackedUndecodable,
         RewritePacked, DropLog, Committed, LogSwitch, SetHead, Release, PruneParents, DropLease,
         Fail, external, life
<1>3. ASSUME NEW g \in Gits, GitStep(g) PROVE FALSE
  <2>1. \E where, n : GitAt(g, where, n)
    BY <1>3 DEF GitStep, GitLockRef, GitUpdate, GitLockPacked, GitDelete, GitAbort, GitPackLock,
                GitPack, GitPrune, GitSwitch
  <2>2. crashes' = crashes
    BY <1>3 DEF GitStep, GitLockRef, GitUpdate, GitLockPacked, GitDelete, GitAbort, GitPackLock,
                GitPack, GitPrune, GitSwitch, GitUnchanged, life
  <2>3. gitBegun' = (IF git[g].pc = "idle" THEN gitBegun + 1 ELSE gitBegun)
    BY <2>1 DEF GitAt
  <2>4. Undisturbed
    BY <1>0, <2>2, <2>3 DEF Undisturbed
  <2>5. git[g].pc = "idle"
    BY <2>4 DEF Solo
  <2> QED BY <1>0, <2>3, <2>5 DEF Undisturbed
<1>4. \E p \in Procs : OpStep(p) /\ ~Crash(p)
  BY <1>1, <1>3 DEF Next, OpStep
<1>5. Undisturbed
  BY <1>2, <1>4 DEF Undisturbed
<1>6. \A p \in Procs : ~RemoveOrphanLocks(p)
  BY <1>5 DEF Solo, RemoveOrphanLocks
<1> QED BY <1>4, <1>5, <1>6 DEF OpStep, LiveStep

\* The history lease leaves one process at work.
LEMMA OneWorker ==
    ASSUME Solo, NEW p \in Procs, NEW q \in Procs, p # q,
           pc[p] \notin {"idle", "lease"}
    PROVE  pc[q] \in {"idle", "lease"}
BY DEF Solo

\* A step of a process that is not at work changes nothing on disk.
LEMMA IdleStep ==
    ASSUME IndInv, Solo, NEW p \in Procs, LiveStep(p), pc[p] \in {"idle", "lease"}
    PROVE  /\ UNCHANGED <<disk, lock>>
           /\ lease = Free \/ pc'[p] \in {"idle", "lease"}
<1>1. \/ Transact(p) \/ SetSymbolic(p) \/ AcquireLease(p) \/ LeaseBackoff(p) \/ LeaseTimeout(p)
  BY DEF LiveStep, ProcessStep, PlanLocks, AcquireLock, LockBackoff, LockTimeout, LockBlocked,
         Locking, LocksTaken, Confirm, HeadMoved, ValidateOp, RejectOp, AllValid, BeginOp, LogRef,
         LogRefBlocked, LogConflict, LogHead, WriteRef, Unlink, CommitBlocked, CommitConflict,
         ReadPacked, PackedUndecodable, RewritePacked, DropLog, Committed, LogSwitch, SetHead,
         Release, PruneParents, DropLease, At
<1> QED BY <1>1 DEF Transact, SetSymbolic, Submit, AcquireLease, LeaseBackoff, LeaseTimeout,
                    At, IndInv, TypeOK, WorkOK

\* While a process is at work, the steps of others change nothing on disk.
LEMMA WorkerUndisturbed ==
    ASSUME IndInv, Solo, NEW p \in Procs, LiveStep(p), NEW q \in Procs \ {p},
           pc[q] \notin {"idle", "lease"}
    PROVE  UNCHANGED <<disk, lock>>
<1>1. pc[p] \in {"idle", "lease"}
  BY OneWorker
<1> QED BY <1>1, IdleStep

\* A step of a process leaves the outcome of others alone.
LEMMA OutcomeKept ==
    ASSUME IndInv, NEW p \in Procs, LiveStep(p), NEW q \in Procs \ {p}
    PROVE  result'[q] = result[q] /\ touched'[q] = touched[q]
BY DEF LiveStep, Transact, SetSymbolic, Submit, ProcessStep, AcquireLease,
       LeaseBackoff, LeaseTimeout, PlanLocks, AcquireLock, LockBackoff, LockTimeout,
       LockBlocked, Confirm, HeadMoved, ValidateOp, RejectOp, AllValid, BeginOp, LogRef,
       LogRefBlocked, LogHead, WriteRef, Unlink, CommitBlocked, ReadPacked, PackedUndecodable,
       RewritePacked, DropLog, Committed, LogSwitch, SetHead, Release, PruneParents, DropLease,
       Fail, outcome, IndInv, TypeOK, OutcomeOK

\* One process stays at work at a time.
LEMMA SoloStep ==
    ASSUME IndInv, Solo, NEW p \in Procs, LiveStep(p)
    PROVE  Solo'
<1> USE DEF At
<1>1. dead' = {} /\ git' = git
  <2>1. OpStep(p)
    BY DEF LiveStep, OpStep
  <2>2. dead' = dead
    BY DEF LiveStep, Transact, SetSymbolic, Submit, ProcessStep, AcquireLease,
       LeaseBackoff, LeaseTimeout, PlanLocks, AcquireLock, LockBackoff, LockTimeout,
       LockBlocked, Confirm, HeadMoved, ValidateOp, RejectOp, AllValid, BeginOp, LogRef,
       LogRefBlocked, LogHead, WriteRef, Unlink, CommitBlocked, ReadPacked, PackedUndecodable,
       RewritePacked, DropLog, Committed, LogSwitch, SetHead, Release, PruneParents, DropLease,
       Fail, life
  <2> QED BY <2>1, <2>2, ProcessLeavesGit DEF Solo
<1>2. ASSUME NEW l \in Locks, NEW g \in Gits PROVE lock'[l] # g
  <2>1. OpStep(p) /\ TypeOK
    BY DEF LiveStep, OpStep, IndInv
  <2> QED BY <2>1, ProcessKeepsGitLocks DEF Solo
<1>3. ASSUME NEW q \in Procs, q # p PROVE pc'[q] = pc[q]
  BY <1>3, OtherProcessKept DEF LiveStep, OpStep, IndInv, Kept
<1>4. CASE AcquireLease(p)
  <2>1. lease = Free /\ lease' = p /\ pc'[p] = "plan"
    BY <1>4 DEF AcquireLease, IndInv, TypeOK, WorkOK
  <2>2. \A q \in Procs : pc[q] \in {"idle", "lease"}
    BY <2>1, OwnerAssumption DEF Solo
  <2> QED BY <1>1, <1>2, <1>3, <2>1, <2>2 DEF Solo
<1>5. CASE DropLease(p)
  <2>1. pc[p] = "unlease" /\ pc'[p] = "idle"
    BY <1>5 DEF DropLease, Forget, IndInv, TypeOK, WorkOK
  <2>2. \A q \in Procs : q # p => pc[q] \in {"idle", "lease"}
    BY <2>1, OneWorker
  <2> QED BY <1>1, <1>2, <1>3, <2>1, <2>2 DEF Solo
<1>6. CASE ~(AcquireLease(p) \/ DropLease(p))
  <2>1. lease' = lease
    BY <1>6
       DEF LiveStep, Transact, SetSymbolic, Submit, ProcessStep,
       LeaseBackoff, LeaseTimeout, PlanLocks, AcquireLock, LockBackoff, LockTimeout,
       LockBlocked, Confirm, HeadMoved, ValidateOp, RejectOp, AllValid, BeginOp, LogRef,
       LogRefBlocked, LogHead, WriteRef, Unlink, CommitBlocked, ReadPacked, PackedUndecodable,
       RewritePacked, DropLog, Committed, LogSwitch, SetHead, Release, PruneParents, Fail
  <2>2. pc'[p] \notin {"idle", "lease"} => pc[p] \notin {"idle", "lease"}
    BY <1>6
       DEF LiveStep, Transact, SetSymbolic, Submit, ProcessStep,
       LeaseBackoff, LeaseTimeout, PlanLocks, AcquireLock, LockBackoff, LockTimeout, Locking,
       LocksTaken, LogConflict, CommitConflict,
       LockBlocked, Confirm, HeadMoved, ValidateOp, RejectOp, AllValid, BeginOp, LogRef,
       LogRefBlocked, LogHead, WriteRef, Unlink, CommitBlocked, ReadPacked, PackedUndecodable,
       RewritePacked, DropLog, Committed, LogSwitch, SetHead, Release, PruneParents, Fail,
       IndInv, TypeOK, WorkOK
  <2> QED BY <1>1, <1>2, <1>3, <2>1, <2>2 DEF Solo
<1> QED BY <1>4, <1>5, <1>6

\* Every directory has a file or a lock under it, if a process cleans up after itself.
LEMMA DirsNeededStep ==
    ASSUME IndInv, Kind, DirsNeeded, NEW p \in Procs, LiveStep(p)
    PROVE  DirsNeeded'
<1> USE DEF At
<1>0. /\ loose \in [Refs -> Values] /\ lock \in [Locks -> Procs \cup Gits \cup {Free}]
      /\ dirs \subseteq Refs /\ Refs \subseteq Locks /\ p # Free
      /\ \A d \in Refs : Below[d] \subseteq Refs
  BY PathTypes, RefAssumption
<1>s. SUFFICES ASSUME NEW d \in dirs'
               PROVE  \E m \in Below[d] : loose'[m] # None \/ lock'[m] # Free
  BY DEF DirsNeeded
<1>w. ASSUME d \in dirs PROVE \E m \in Below[d] : m \in Refs /\ (loose[m] # None \/ lock[m] # Free)
  BY <1>0, <1>w DEF DirsNeeded
<1>1. CASE AcquireLock(p)
  <2>1. PICK l \in Locks : /\ lock' = [lock EXCEPT ![l] = p]
                           /\ dirs' = IF l \in Refs THEN dirs \cup Above(l) ELSE dirs
    BY <1>1 DEF AcquireLock
  <2>2. loose' = loose /\ lock'[l] # Free /\ \A m \in Refs : lock[m] # Free => lock'[m] # Free
    BY <1>0, <1>1, <2>1 DEF AcquireLock
  <2>3. CASE d \in dirs
    BY <1>w, <2>2, <2>3
  <2>4. CASE d \notin dirs
    <3>1. l \in Below[d]
      BY <2>1, <2>4 DEF Above
    <3> QED BY <2>2, <3>1
  <2> QED BY <2>3, <2>4
<1>2. CASE WriteRef(p)
  <2>1. pc[p] = "write" /\ cur[p] \in Refs
    BY <1>2, CurLocked DEF WriteRef, OnOp, Committing
  <2>2. CurOp(p).new # None
    BY <2>1 DEF Kind, KindOf
  <2>3. d \in dirs /\ lock' = lock /\ \A m \in Refs : loose[m] # None => loose'[m] # None
    BY <1>0, <1>2, <2>1, <2>2 DEF WriteRef
  <2> QED BY <1>w, <2>3
<1>3. CASE Unlink(p)
  <2>1. cur[p] \in Refs /\ lock[cur[p]] = p
    BY <1>3, CurLocked DEF Unlink, OnOp, Committing
  <2>2. d \in dirs /\ lock' = lock /\ \A m \in Refs : m # cur[p] => loose'[m] = loose[m]
    BY <1>0, <1>3 DEF Unlink
  <2> QED BY <1>0, <1>w, <2>1, <2>2
<1>4. CASE RewritePacked(p)
  <2>1. UNCHANGED <<loose, lock, dirs>>
    BY <1>4 DEF RewritePacked
  <2> QED BY <1>w, <2>1
<1>5. CASE Release(p)
  <2>1. PICK l \in HeldBy(p) : /\ lock' = [lock EXCEPT ![l] = Free]
                               /\ dirs' = Pruned({l}, loose, lock')
    BY <1>5 DEF Release
  <2>2. loose' = loose
    BY <1>5 DEF Release
  <2>3. d \in dirs
    BY <2>1 DEF Pruned
  <2>4. CASE d \in Empty(loose, lock')
    <3>1. l \notin Below[d]
      BY <2>1, <2>4 DEF Pruned
    <3>2. \A m \in Below[d] : m \in Refs => lock'[m] = lock[m]
      BY <1>0, <2>1, <3>1
    <3> QED BY <1>w, <2>2, <2>3, <3>2
  <2>5. CASE d \notin Empty(loose, lock')
    BY <1>0, <2>2, <2>3, <2>5 DEF Empty
  <2> QED BY <2>4, <2>5
<1>6. CASE PruneParents(p)
  <2>1. UNCHANGED <<loose, lock>> /\ d \in dirs
    BY <1>6 DEF PruneParents, Pruned
  <2> QED BY <1>w, <2>1
<1>7. CASE ~(\/ AcquireLock(p) \/ WriteRef(p) \/ Unlink(p) \/ RewritePacked(p) \/ Release(p)
             \/ PruneParents(p))
  <2>1. UNCHANGED <<loose, lock, dirs>>
    BY <1>7
       DEF LiveStep, Transact, SetSymbolic, Submit, ProcessStep, AcquireLease, LeaseBackoff,
           LeaseTimeout, PlanLocks, LockBackoff, LockTimeout, LockBlocked, Confirm, HeadMoved,
           ValidateOp, RejectOp, AllValid, BeginOp, LogRef, LogRefBlocked, LogHead, CommitBlocked,
           ReadPacked, PackedUndecodable, DropLog, Committed, LogSwitch, SetHead, DropLease,
           Fail, disk
  <2> QED BY <1>w, <2>1
<1> QED BY <1>1, <1>2, <1>3, <1>4, <1>5, <1>6, <1>7

\* A batch whose ops are valid has no directory at the path of any: a delete needs
\* no preflight of its own (docs/hlds/ref-transactions.md).
LEMMA NoDirectoryInBatch ==
    ASSUME PathInv, Solo, DirsNeeded, NEW p \in Procs, pc[p] = "validate",
           \A n \in DOMAIN plan[p] : Valid(n, plan[p][n])
    PROVE  DOMAIN plan[p] \cap dirs = {}
<1> USE DEF PathInv, DeleteInv, Paths
<1>s. SUFFICES ASSUME NEW n \in DOMAIN plan[p], n \in dirs PROVE FALSE
  OBVIOUS
<1>0. /\ n \in Refs /\ Below[n] \subseteq Refs /\ Refs \subseteq Locks
      /\ lock \in [Locks -> Procs \cup Gits \cup {Free}]
  BY PlanOps, PathTypes, RefAssumption DEF IndInv, TypeOK
<1>1. Visible(n) # None
  <2>1. plan[p][n].new = None
    BY <1>s DEF Valid, RefPathBlocked, PathBlocked
  <2> QED BY <2>1 DEF Valid
<1>2. \A m \in Below[n] : Visible(m) = None
  BY <1>0, <1>1 DEF NamespaceDisjoint
<1>3. PICK m \in Below[n] : loose[m] # None \/ lock[m] # Free
  BY <1>s DEF DirsNeeded
<1>4. lock[m] \in Procs \cup Gits /\ m \in Refs
  BY <1>0, <1>2, <1>3 DEF Visible
<1>5. lock[m] = p
  <2>1. lock[m] \notin Gits
    BY <1>0, <1>4 DEF Solo
  <2>2. ASSUME NEW q \in Procs, q # p PROVE HeldBy(q) = {}
    BY <2>2, OneWorker DEF IndInv, Holding, HoldsOf
  <2> QED BY <1>0, <1>4, <2>1, <2>2 DEF HeldBy
<1>6. m \in DOMAIN plan[p]
  BY <1>0, <1>4, <1>5 DEF Owned, OwnedOf, HeldBy
<1>7. plan[p][m].new # None
  BY <1>2, <1>6 DEF Valid
<1>8. n \in Above(m)
  BY <1>0 DEF Above
<1>9. loose[n] = None /\ packed[n] = None
  BY <1>6, <1>7, <1>8 DEF Valid, RefPathBlocked, PathBlocked, FileAbove
<1> QED BY <1>1, <1>9 DEF Visible

\* Reflogs that only go block no more and demand no more.
LEMMA FewerLogs ==
    ASSUME NEW n \in Refs, \A m \in Refs : logs'[m] # <<>> => logs[m] # <<>>
    PROVE  (ShouldLog(n)' => ShouldLog(n)) /\ (LogBlocked(n)' => LogBlocked(n))
BY RefAssumption DEF ShouldLog, LogBlocked, Above

\* The reflog of an op at hand blocks no other of its batch.
LEMMA LogRefBlocksNone ==
    ASSUME PathInv, NEW p \in Procs, ClearOf(p), LogRef(p), NEW n \in todo[p]
    PROVE  (ShouldLog(n)' => ShouldLog(n)) /\ (LogBlocked(n)' => LogBlocked(n))
<1> USE DEF PathInv, DeleteInv, Paths, At
<1>0. /\ pc[p] = "log" /\ cur[p] \in DOMAIN plan[p] /\ cur[p] \in Refs
      /\ n \in DOMAIN plan[p] /\ n \in Refs /\ lock[n] = p /\ lock[cur[p]] = p /\ p # Free
  <2>1. pc[p] = "log"
    BY DEF LogRef
  <2> QED BY <2>1, CurLocked, BatchLocked, PathTypes
          DEF OnOp, Committing, IndInv, Control, ControlOf, Holding
<1>1. DOMAIN plan[p] \cap dirs = {}
  BY <1>0 DEF ClearOf, Committing
<1>2. Above(n) \subseteq dirs /\ Above(cur[p]) \subseteq dirs
  BY <1>0 DEF DirsCover
<1>3. cur[p] \notin Above(n) \cup Below[n]
  BY <1>0, <1>1, <1>2 DEF Above
<1>4. \A m \in Refs : m # cur[p] => logs'[m] = logs[m]
  BY DEF LogRef, AppendLog, IndInv, TypeOK, DiskOK
<1>5. logs'[cur[p]] # logs[cur[p]] => ShouldLog(cur[p])
  BY DEF LogRef
<1>6. Above(n)' = Above(n) /\ Above(n) \cup Below[n] \subseteq Refs
  BY <1>0, RefAssumption DEF Above
<1>7. LogBlocked(n)' => LogBlocked(n)
  BY <1>3, <1>4, <1>6 DEF LogBlocked
<1>8. ShouldLog(n)' => ShouldLog(n)
  <2>1. CASE n = cur[p]
    BY <1>5, <2>1 DEF ShouldLog
  <2>2. CASE n # cur[p]
    BY <1>0, <1>4, <2>2 DEF ShouldLog
  <2> QED BY <2>1, <2>2
<1> QED BY <1>7, <1>8

\* What a process has validated stays so while others step.
LEMMA ClearKept ==
    ASSUME IndInv, Solo, NEW p \in Procs, LiveStep(p), NEW q \in Procs \ {p}, ClearOf(q)
    PROVE  ClearOf(q)'
<1>1. Kept(q)
  BY OtherProcessKept DEF IndInv, LiveStep, OpStep
<1>2. CASE pc[q] \in {"idle", "lease"}
  BY <1>1, <1>2 DEF ClearOf, Kept, Committing
<1>3. CASE pc[q] \notin {"idle", "lease"}
  <2>1. UNCHANGED <<loose, packed, dirs, logs>>
    BY <1>3, WorkerUndisturbed DEF disk
  <2>2. \A n, op : Valid(n, op)' = Valid(n, op) /\ ShouldLog(n)' = ShouldLog(n)
                     /\ LogBlocked(n)' = LogBlocked(n)
    BY <2>1 DEF Valid, ShouldLog, LogBlocked, RefPathBlocked, PathBlocked, FileAbove, Above, Visible
  <2> QED BY <1>1, <2>1, <2>2 DEF ClearOf, Kept
<1> QED BY <1>2, <1>3

\* A process validates its ops before it counts on them, and its writes do not
\* come in each other's way.
LEMMA ClearOwn ==
    ASSUME PathInv, Solo, DirsNeeded, NEW p \in Procs, ClearOf(p), LiveStep(p)
    PROVE  ClearOf(p)'
<1> USE DEF PathInv, DeleteInv, At
<1>1. CASE pc'[p] \notin Committing \cup {"validate"}
  BY <1>1 DEF ClearOf
<1>2. CASE Confirm(p)
  <2>1. pc'[p] = "validate" /\ DOMAIN plan'[p] \ todo'[p] = {}
    BY <1>2 DEF Confirm, request, IndInv, TypeOK, WorkOK
  <2> QED BY <2>1 DEF ClearOf, Committing
<1>3. CASE ValidateOp(p)
  <2>1. PICK n \in todo[p] : Valid(n, plan[p][n]) /\ todo'[p] = todo[p] \ {n}
    BY <1>3 DEF ValidateOp, IndInv, TypeOK, WorkOK
  <2>2. /\ pc[p] = "validate" /\ pc'[p] = "validate" /\ plan'[p] = plan[p]
        /\ UNCHANGED <<loose, packed, dirs, logs>>
    BY <1>3 DEF ValidateOp, request, disk
  <2>3. \A k, op : Valid(k, op)' = Valid(k, op)
    BY <2>2 DEF Valid, ShouldLog, LogBlocked, RefPathBlocked, PathBlocked, FileAbove, Above, Visible
  <2>4. \A k \in DOMAIN plan[p] \ todo'[p] : Valid(k, plan[p][k])
    BY <2>1, <2>2 DEF ClearOf
  <2> QED BY <2>2, <2>3, <2>4 DEF ClearOf, Committing
<1>4. CASE AllValid(p)
  <2>1. /\ pc[p] = "validate" /\ pc'[p] = "commit" /\ plan'[p] = plan[p]
        /\ UNCHANGED <<dirs, logs>> /\ todo[p] = {} /\ todo'[p] = DOMAIN plan[p]
    BY <1>4 DEF AllValid, request, disk, IndInv, TypeOK, WorkOK
  <2>2. \A n \in DOMAIN plan[p] : Valid(n, plan[p][n])
    BY <2>1 DEF ClearOf
  <2>3. DOMAIN plan[p] \cap dirs = {}
    BY <2>1, <2>2, NoDirectoryInBatch
  <2>4. \A n \in DOMAIN plan[p] : WritesOwnLog(plan[p][n]) /\ ShouldLog(n) => ~LogBlocked(n)
    BY <2>2 DEF Valid
  <2>5. \A n : ShouldLog(n)' = ShouldLog(n) /\ LogBlocked(n)' = LogBlocked(n)
    BY <2>1 DEF ShouldLog, LogBlocked, Above
  <2> QED BY <2>1, <2>3, <2>4, <2>5 DEF ClearOf, WritesOwnLog
<1>5. CASE \/ BeginOp(p) \/ LogRef(p) \/ LogHead(p) \/ WriteRef(p) \/ Unlink(p) \/ ReadPacked(p)
           \/ RewritePacked(p) \/ DropLog(p)
  <2>1. /\ pc[p] \in Committing /\ pc'[p] \in Committing /\ pc'[p] # "validate"
        /\ plan'[p] = plan[p] /\ dirs' = dirs /\ todo'[p] \subseteq todo[p]
        /\ todo[p] \subseteq Refs
    BY <1>5 DEF BeginOp, LogRef, LogHead, WriteRef, Unlink, ReadPacked, RewritePacked, DropLog,
                Committing, request, work, disk, IndInv, TypeOK, WorkOK
  <2>2. ASSUME NEW n \in todo[p]
        PROVE  (ShouldLog(n)' => ShouldLog(n)) /\ (LogBlocked(n)' => LogBlocked(n))
    <3>1. CASE LogRef(p)
      BY <2>2, <3>1, LogRefBlocksNone
    <3>2. CASE ~LogRef(p)
      <4>1. \A m \in Refs : logs'[m] # <<>> => logs[m] # <<>>
        BY <1>5, <3>2, PathTypes
           DEF BeginOp, LogHead, WriteRef, Unlink, ReadPacked, RewritePacked, DropLog, AppendLog,
               disk, IndInv, TypeOK, DiskOK
      <4> QED BY <2>1, <2>2, <4>1, FewerLogs
    <3> QED BY <3>1, <3>2
  <2>3. ASSUME NEW n \in todo'[p], WritesOwnLog(plan[p][n])', ShouldLog(n)'
        PROVE  ~LogBlocked(n)'
    <3>1. n \in todo[p] /\ WritesOwnLog(plan[p][n])
      BY <2>1, <2>3 DEF WritesOwnLog
    <3> QED BY <2>1, <2>2, <2>3, <3>1 DEF ClearOf
  <2> QED BY <2>1, <2>3 DEF ClearOf
<1>6. CASE \/ Transact(p) \/ SetSymbolic(p) \/ AcquireLease(p) \/ LeaseBackoff(p)
           \/ LeaseTimeout(p) \/ PlanLocks(p) \/ AcquireLock(p) \/ LockBackoff(p)
  <2>1. pc'[p] \in {"idle", "lease", "plan", "lock"}
    BY <1>6 DEF Transact, SetSymbolic, Submit, AcquireLease, LeaseBackoff, LeaseTimeout,
                PlanLocks, AcquireLock, LockBackoff, Locking, IndInv, TypeOK, WorkOK
  <2> QED BY <1>1, <2>1 DEF Committing
<1>7. CASE LogSwitch(p) \/ Release(p) \/ PruneParents(p) \/ DropLease(p)
  <2>1. pc'[p] \in {"sethead", "release", "unlease", "idle"}
    BY <1>7 DEF LogSwitch, Release, PruneParents, DropLease, Forget, IndInv, TypeOK, WorkOK
  <2> QED BY <1>1, <2>1 DEF Committing
<1>8. CASE FailStep(p)
  <2>1. pc'[p] = "release"
    BY <1>8 DEF FailStep, LockTimeout, LockBlocked, HeadMoved, RejectOp, LogRefBlocked,
                CommitBlocked, PackedUndecodable, Committed, SetHead, Fail, IndInv, TypeOK, WorkOK
  <2> QED BY <1>1, <2>1 DEF Committing
<1> QED BY <1>2, <1>3, <1>4, <1>5, <1>6, <1>7, <1>8 DEF LiveStep, ProcessStep, FailStep

\* The processes alone keep out of each other's way, in every reachable state.
THEOREM AloneInvariant == Spec => []AloneInv
<1>1. Init /\ PathInv => AloneInv
  <2> SUFFICES ASSUME Init, PathInv PROVE Solo /\ DirsNeeded /\ Clear
    BY DEF AloneInv
  <2>1. Solo
    BY OwnerAssumption DEF Init, Solo
  <2>2. DirsNeeded
    BY DEF Init, DirsNeeded
  <2>3. Clear
    BY DEF Init, Clear, ClearOf, Committing
  <2> QED BY <2>1, <2>2, <2>3
<1>2. AloneInv /\ PathInv' /\ [Next]_vars => AloneInv'
  <2> SUFFICES ASSUME AloneInv, PathInv', [Next]_vars, Undisturbed'
               PROVE  Solo' /\ DirsNeeded' /\ Clear'
    BY DEF AloneInv
  <2>1. CASE UNCHANGED vars
    <3>1. UNCHANGED <<loose, packed, dirs, logs, lock, lease, pc, plan, todo, git, dead, crashes, gitBegun>>
      BY <2>1 DEF vars, disk, request, work, external, life
    <3>2. Solo /\ DirsNeeded /\ Clear
      BY <3>1 DEF AloneInv, Undisturbed
    <3>3. \A n, op : Valid(n, op)' = Valid(n, op) /\ ShouldLog(n)' = ShouldLog(n)
                       /\ LogBlocked(n)' = LogBlocked(n)
      BY <3>1 DEF Valid, ShouldLog, LogBlocked, RefPathBlocked, PathBlocked, FileAbove, Above, Visible
    <3>4. Clear'
      BY <3>1, <3>2, <3>3 DEF Clear, ClearOf
    <3> QED BY <3>1, <3>2, <3>4 DEF Solo, DirsNeeded
  <2>2. CASE Next
    <3>1. /\ PathInv /\ IndInv /\ Kind
          /\ Solo /\ DirsNeeded /\ Clear /\ \E p \in Procs : LiveStep(p)
      BY <2>2, AloneSteps DEF AloneInv, PathInv, DeleteInv
    <3> PICK p \in Procs : LiveStep(p)
      BY <3>1
    <3>2. Solo' /\ DirsNeeded'
      BY <3>1, SoloStep, DirsNeededStep
    <3>3. ClearOf(p)'
      BY <3>1, ClearOwn DEF Clear
    <3>4. ASSUME NEW q \in Procs \ {p} PROVE ClearOf(q)'
      BY <3>1, <3>4, ClearKept DEF Clear
    <3> QED BY <3>2, <3>3, <3>4 DEF Clear
  <2> QED BY <2>1, <2>2
<1> QED BY <1>1, <1>2, PathInvariant, PTL DEF Spec

\* After validation nothing stands in the way of a commit.
LEMMA AloneMeansNoConflict ==
    ASSUME AloneInv, Undisturbed
    PROVE  ValidatedCommitNotBlocked
<1> USE DEF AloneInv, PathInv, DeleteInv, Paths, At
<1>1. ASSUME NEW p \in Procs, CommitConflict(p) PROVE FALSE
  <2>1. /\ pc[p] \in {"write", "unlink"} /\ cur[p] \in Refs /\ cur[p] \in DOMAIN plan[p]
        /\ lock[cur[p]] = p /\ p # Free
    <3>1. pc[p] \in {"write", "unlink"}
      BY <1>1 DEF CommitConflict
    <3> QED BY <3>1, CurLocked, PathTypes DEF OnOp, Committing
  <2>2. cur[p] \notin dirs
    BY <2>1 DEF Clear, ClearOf, Committing
  <2>3. ~FileAbove(cur[p])
    BY <2>1 DEF FileAbove, DirsCover, FilesNotDirs
  <2> QED BY <1>1, <2>2, <2>3 DEF CommitConflict, PathBlocked
<1>2. ASSUME NEW p \in Procs, LogConflict(p) PROVE FALSE
  <2>1. pc[p] = "log"
    BY <1>2 DEF LogConflict
  <2>2. cur[p] \in todo[p] /\ CurOp(p) = plan[p][cur[p]]
    BY <2>1, CurLocked DEF OnOp, Committing
  <2> QED BY <1>2, <2>1, <2>2 DEF LogConflict, Clear, ClearOf, Committing
<1> QED BY <1>1, <1>2 DEF ValidatedCommitNotBlocked

\* Among gitana processes, as long as none has died and stock git did nothing, a
\* batch that was validated meets no directory or file in its way, neither
\* for its refs nor for its reflogs: "a validated commit cannot fail on a D/F
\* conflict" (docs/hlds/ref-transactions.md).
THEOREM ValidatedCommitsGoThrough == Spec => [](Undisturbed => ValidatedCommitNotBlocked)
<1>1. AloneInv => (Undisturbed => ValidatedCommitNotBlocked)
  BY AloneMeansNoConflict
<1> QED BY <1>1, AloneInvariant, PTL

\* A process that reports a failure failed before it wrote.
LEMMA UntouchedOwn ==
    ASSUME IndInv, ValidatedCommitNotBlocked, NonUtf8Packed = FALSE,
           NEW p \in Procs, UntouchedOf(p), LiveStep(p)
    PROVE  UntouchedOf(p)'
<1> USE DEF At
<1>1. CASE Transact(p) \/ SetSymbolic(p)
  BY <1>1 DEF Transact, SetSymbolic, Submit, UntouchedOf, IndInv, TypeOK, OutcomeOK
<1>2. CASE \/ AcquireLease(p) \/ LeaseBackoff(p) \/ PlanLocks(p) \/ AcquireLock(p)
           \/ LockBackoff(p) \/ Confirm(p) \/ ValidateOp(p)
  <2>1. pc[p] \in {"lease", "plan", "lock", "validate"} /\ touched' = touched
    BY <1>2 DEF AcquireLease, LeaseBackoff, PlanLocks, AcquireLock, LockBackoff, Locking, Confirm,
                LocksTaken, ValidateOp, outcome
  <2> QED BY <2>1 DEF UntouchedOf
<1>3. CASE LockTimeout(p) \/ LockBlocked(p) \/ HeadMoved(p) \/ RejectOp(p)
  <2>1. pc[p] \in {"lock", "validate"} /\ touched' = touched
    BY <1>3 DEF LockTimeout, LockBlocked, Locking, HeadMoved, LocksTaken, RejectOp, Fail
  <2> QED BY <2>1 DEF UntouchedOf
<1>4. CASE LogRefBlocked(p) \/ CommitBlocked(p) \/ PackedUndecodable(p)
  BY <1>4 DEF LogRefBlocked, CommitBlocked, PackedUndecodable, ValidatedCommitNotBlocked
<1>5. CASE Committed(p) \/ SetHead(p)
  <2>1. pc'[p] = "release" /\ result'[p] = "ok"
    BY <1>5 DEF Committed, SetHead, IndInv, TypeOK, WorkOK, OutcomeOK
  <2> QED BY <2>1 DEF UntouchedOf
<1>6. CASE Release(p) \/ PruneParents(p)
  <2>1. /\ pc[p] = "release" /\ pc'[p] \in {"release", "unlease"}
        /\ result' = result /\ touched' = touched
    BY <1>6 DEF Release, PruneParents, outcome, IndInv, TypeOK, WorkOK
  <2> QED BY <2>1 DEF UntouchedOf
<1>7. CASE \/ LeaseTimeout(p) \/ AllValid(p) \/ BeginOp(p) \/ LogRef(p) \/ LogHead(p) \/ WriteRef(p)
           \/ Unlink(p) \/ ReadPacked(p) \/ RewritePacked(p) \/ DropLog(p) \/ LogSwitch(p)
           \/ DropLease(p)
  <2>1. pc'[p] \notin {"lease", "plan", "lock", "validate", "release", "unlease"}
    BY <1>7 DEF LeaseTimeout, AllValid, BeginOp, LogRef, LogHead, WriteRef, Unlink, ReadPacked,
                RewritePacked, DropLog, LogSwitch, DropLease, Forget, IndInv, TypeOK, WorkOK
  <2> QED BY <2>1 DEF UntouchedOf
<1> QED BY <1>1, <1>2, <1>3, <1>4, <1>5, <1>6, <1>7 DEF LiveStep, ProcessStep

\* An operation that reports a failure has changed no ref ("Any failure applies
\* nothing", transact), if packed-refs can be read, stock git did nothing and
\* nobody died.
THEOREM FailuresApplyNothing ==
    ASSUME NonUtf8Packed = FALSE
    PROVE  Spec => [](Undisturbed => FailureAppliesNothing)
<1>1. Init => Untouched
  BY DEF Init, Untouched, UntouchedOf
<1>2. AloneInv /\ Untouched /\ [Next]_vars => Untouched'
  <2> SUFFICES ASSUME AloneInv, Untouched, [Next]_vars, Undisturbed', NEW q \in Procs
               PROVE  UntouchedOf(q)'
    BY DEF Untouched
  <2>1. CASE UNCHANGED vars
    BY <2>1 DEF vars, outcome, life, external, Untouched, UntouchedOf, Undisturbed
  <2>2. CASE Next
    <3>1. IndInv /\ Solo /\ Undisturbed /\ \E p \in Procs : LiveStep(p)
      BY <2>2, AloneSteps DEF AloneInv, PathInv, DeleteInv
    <3> PICK p \in Procs : LiveStep(p)
      BY <3>1
    <3>2. CASE q = p
      BY <3>1, <3>2, AloneMeansNoConflict, UntouchedOwn DEF Untouched
    <3>3. CASE q # p
      <4>1. pc'[q] = pc[q]
        BY <3>1, <3>3, OtherProcessKept DEF IndInv, LiveStep, OpStep, Kept
      <4>2. result'[q] = result[q] /\ touched'[q] = touched[q]
        BY <3>1, <3>3, OutcomeKept
      <4> QED BY <3>1, <4>1, <4>2 DEF Untouched, UntouchedOf
    <3> QED BY <3>2, <3>3
  <2> QED BY <2>1, <2>2
<1>3. Untouched => (Undisturbed => FailureAppliesNothing)
  BY DEF Untouched, UntouchedOf, FailureAppliesNothing
<1> QED BY <1>1, <1>2, <1>3, AloneInvariant, PTL DEF Spec

-----------------------------------------------------------------------------
(***************************************************************************)
(* logs/HEAD.                                                              *)
(***************************************************************************)

\* logs/HEAD ends at what is appended to it.
LEMMA HeadAppended ==
    ASSUME IndInv, NEW old \in Values, NEW new \in Values, AppendLog(HeadLock, Entry(old, new))
    PROVE  logs'[HeadLock][Len(logs'[HeadLock])].new = new
<1>1. /\ logs[HeadLock] \in Seq([old : Values, new : Values])
      /\ Entry(old, new) \in [old : Values, new : Values]
  BY DEF IndInv, TypeOK, DiskOK, Entry
<1>2. logs'[HeadLock] = Append(logs[HeadLock], Entry(old, new))
  BY DEF AppendLog, IndInv, TypeOK, DiskOK
<1>3. logs'[HeadLock][Len(logs'[HeadLock])] = Entry(old, new)
  BY <1>1, <1>2, Appended
<1> QED BY <1>3 DEF Entry

\* With the same logs/HEAD, HEAD and value of its branch, it ends there still.
LEMMA SameHeadLog ==
    ASSUME logs'[HeadLock] = logs[HeadLock], head' = head, Visible(head)' = Visible(head),
           EndsAt(Visible(head))
    PROVE  EndsAt(Visible(head))'
BY DEF EndsAt

\* What logs/HEAD has to do with the process at work.
HeadLogAt(p) == HeadLogOf(p) /\ (~Pending(p) => EndsAt(Visible(head)))

\* The entry of logs/HEAD for a move of HEAD's branch is its new value.
LEMMA HeadLogLogs ==
    ASSUME EveryOpLogged, IndInv, Kind, NEW p \in Procs, HeadLogAt(p), LogHead(p)
    PROVE  HeadLogAt(p)'
<1>1. /\ pc[p] = "headlog" /\ cur[p] \in Refs /\ cur[p] \in DOMAIN plan[p] /\ target[p] = None
      /\ CurOp(p) = plan[p][cur[p]]
  <2>1. pc[p] = "headlog"
    BY DEF LogHead, At
  <2> QED BY <2>1, CurLocked DEF OnOp, Committing
<1>2. /\ CurOp(p)' = CurOp(p) /\ cur'[p] = cur[p] /\ casc'[p] = casc[p] /\ plan'[p] = plan[p]
      /\ target'[p] = target[p] /\ head' = head /\ Visible(head)' = Visible(head)
      /\ pc'[p] = IF CurOp(p).new = None THEN "unlink" ELSE "write"
  BY DEF LogHead, request, work, CurOp, Visible, IndInv, TypeOK, WorkOK
<1>3. casc[p] = {n \in DOMAIN plan[p] : n = head}
  BY <1>1 DEF HeadLogAt, HeadLogOf, Committing
<1>4. casc'[p] = {n \in DOMAIN plan'[p] : n = head'}
  BY <1>2, <1>3
<1>5. CASE cur[p] = head
  <2>1. CurOp(p).log
    <3>1. plan[p] \in Plans
      BY <1>1 DEF IndInv, TypeOK, RequestOK, NoPlan
    <3> QED BY <1>1, <3>1 DEF EveryOpLogged
  <2>2. CurOp(p).expected \in Values /\ CurOp(p).new \in Values
    BY <1>1, PlanOps DEF IndInv, TypeOK
  <2>3. logs'[HeadLock] # <<>> => logs'[HeadLock][Len(logs'[HeadLock])].new = CurOp(p).new
    <3>1. CASE ShouldLog(HeadLock)
      <4>1. AppendLog(HeadLock, Entry(CurOp(p).expected, CurOp(p).new))
        BY <1>1, <1>3, <1>5, <2>1, <3>1 DEF LogHead
      <4> QED BY <2>2, <4>1, HeadAppended
    <3>2. CASE ~ShouldLog(HeadLock)
      BY <3>2 DEF LogHead, ShouldLog
    <3> QED BY <3>1, <3>2
  <2>4. EndsAt(CurOp(p).new)'
    BY <1>2, <2>3 DEF EndsAt
  <2>5. pc'[p] \in {"write", "unlink"} /\ Pending(p)'
    BY <1>2, <1>5 DEF Pending
  <2> QED BY <1>4, <2>4, <2>5 DEF HeadLogAt, HeadLogOf
<1>6. CASE cur[p] # head
  <2>1. logs' = logs
    BY <1>3, <1>6 DEF LogHead
  <2>2. ~Pending(p)
    BY <1>1 DEF Pending
  <2>3. EndsAt(Visible(head))'
    BY <1>2, <2>1, <2>2, SameHeadLog DEF HeadLogAt
  <2>4. cur'[p] # head' /\ pc'[p] # "sethead"
    BY <1>2, <1>6
  <2> QED BY <1>4, <2>3, <2>4 DEF HeadLogAt, HeadLogOf
<1> QED BY <1>5, <1>6

\* The entry of logs/HEAD for a switch is the tip of the branch switched to.
LEMMA HeadLogSwitches ==
    ASSUME IndInv, NEW p \in Procs, LogSwitch(p)
    PROVE  HeadLogAt(p)'
<1>1. target[p] \in Refs /\ head \in Refs
  BY DEF LogSwitch, IndInv, TypeOK, RequestOK, DiskOK
<1>2. Visible(head) \in Values /\ Visible(target[p]) \in Values
  BY <1>1, VisibleType DEF IndInv
<1>3. Visible(target[p])' = Visible(target[p]) /\ pc'[p] = "sethead"
  BY DEF LogSwitch, request, Visible, IndInv, TypeOK, WorkOK
<1>4. Visible(target[p]) # None /\ logs'[HeadLock] # <<>>
        => logs'[HeadLock][Len(logs'[HeadLock])].new = Visible(target[p])
  <2>1. CASE Visible(target[p]) # None /\ ShouldLog(HeadLock)
    <3>1. AppendLog(HeadLock, Entry(Visible(head), Visible(target[p])))
      BY <2>1 DEF LogSwitch
    <3> QED BY <1>2, <3>1, HeadAppended
  <2>2. CASE ~ShouldLog(HeadLock)
    BY <2>2 DEF LogSwitch, ShouldLog
  <2> QED BY <2>1, <2>2
<1>5. EndsAt(Visible(target[p]))'
  BY <1>3, <1>4 DEF EndsAt
<1> QED BY <1>3, <1>5 DEF HeadLogAt, HeadLogOf, Pending, Committing

\* A write moves the branch to where logs/HEAD ends; a delete ends with no branch.
LEMMA HeadLogWrites ==
    ASSUME IndInv, Kind, NEW p \in Procs, HeadLogAt(p),
           WriteRef(p) \/ Unlink(p) \/ ReadPacked(p) \/ RewritePacked(p)
    PROVE  HeadLogAt(p)'
<1> USE DEF At
<1>0. /\ loose \in [Refs -> Values] /\ packed \in [Refs -> Values] /\ head \in Refs
  BY PathTypes DEF IndInv, TypeOK, DiskOK
<1>1. /\ pc[p] \in {"write", "unlink", "readpacked", "rewrite"} /\ cur[p] \in Refs
      /\ cur[p] \in DOMAIN plan[p] /\ target[p] = None
  <2>1. pc[p] \in {"write", "unlink", "readpacked", "rewrite"}
    BY DEF WriteRef, Unlink, ReadPacked, RewritePacked
  <2> QED BY <2>1, CurLocked DEF OnOp, Committing
<1>2. /\ casc'[p] = casc[p] /\ plan'[p] = plan[p] /\ head' = head /\ logs' = logs
      /\ pc'[p] \in {"commit", "readpacked", "rewrite", "unlog"}
  BY DEF WriteRef, Unlink, ReadPacked, RewritePacked, disk, request, work, IndInv, TypeOK, WorkOK
<1>3. casc'[p] = {n \in DOMAIN plan'[p] : n = head'}
  BY <1>1, <1>2 DEF HeadLogAt, HeadLogOf, Committing
<1>4. HeadLogOf(p)'
  BY <1>2, <1>3 DEF HeadLogOf
<1>5. CASE cur[p] # head
  <2>1. ~Pending(p)
    BY <1>1, <1>5 DEF Pending
  <2>2. Visible(head)' = Visible(head)
    <3>1. RewritePacked(p) => snap[p] = packed
      BY DEF RewritePacked, IndInv, Current, CurrentOf
    <3> QED BY <1>0, <1>1, <1>2, <1>5, <3>1
            DEF WriteRef, Unlink, ReadPacked, RewritePacked, disk, Visible
  <2> QED BY <1>2, <1>4, <2>1, <2>2, SameHeadLog DEF HeadLogAt
<1>6. CASE cur[p] = head
  <2>1. CASE WriteRef(p)
    <3>1. pc[p] = "write" /\ CurOp(p).new # None
      BY <2>1 DEF WriteRef, Kind, KindOf
    <3>2. EndsAt(CurOp(p).new)
      BY <1>6, <3>1 DEF HeadLogAt, HeadLogOf
    <3>3. Visible(head)' = CurOp(p).new
      BY <1>0, <1>1, <1>2, <1>6, <2>1, <3>1 DEF WriteRef, Visible
    <3>4. EndsAt(Visible(head))'
      BY <1>2, <3>2, <3>3 DEF EndsAt
    <3> QED BY <1>4, <3>4 DEF HeadLogAt
  <2>2. CASE Unlink(p) \/ ReadPacked(p)
    <3>1. pc'[p] \in {"readpacked", "rewrite"} /\ cur'[p] = cur[p]
      BY <2>2 DEF Unlink, ReadPacked, work, IndInv, TypeOK, WorkOK
    <3> QED BY <1>2, <1>4, <1>6, <3>1 DEF HeadLogAt, Pending
  <2>3. CASE RewritePacked(p)
    <3>1. snap[p] = packed /\ loose[cur[p]] = None
      BY <2>3 DEF RewritePacked, IndInv, Current, CurrentOf, Kind, KindOf
    <3>2. Visible(head)' = None
      BY <1>0, <1>2, <1>6, <2>3, <3>1 DEF RewritePacked, Visible
    <3> QED BY <1>4, <3>2 DEF HeadLogAt, EndsAt
  <2> QED BY <2>1, <2>2, <2>3
<1> QED BY <1>5, <1>6

\* The process at work keeps logs/HEAD at the tip, or ahead of what it writes next.
LEMMA HeadLogOwn ==
    ASSUME EveryOpLogged, NonUtf8Packed = FALSE, IndInv, Kind, ValidatedCommitNotBlocked,
           NEW p \in Procs, HeadLogAt(p), LiveStep(p)
    PROVE  HeadLogAt(p)'
<1> USE DEF At
<1>1. CASE LogHead(p)
  BY <1>1, HeadLogLogs
<1>2. CASE LogSwitch(p)
  BY <1>2, HeadLogSwitches
<1>3. CASE WriteRef(p) \/ Unlink(p) \/ ReadPacked(p) \/ RewritePacked(p)
  BY <1>3, HeadLogWrites
<1>4. CASE SetHead(p)
  <2>1. EndsAt(Visible(target[p])) /\ pc'[p] = "release"
    BY <1>4 DEF SetHead, HeadLogAt, HeadLogOf, IndInv, TypeOK, WorkOK
  <2>2. logs' = logs /\ Visible(head)' = Visible(target[p])
    BY <1>4 DEF SetHead, Visible
  <2>3. EndsAt(Visible(head))'
    BY <2>1, <2>2 DEF EndsAt
  <2> QED BY <2>1, <2>3 DEF HeadLogAt, HeadLogOf, Committing
<1>5. CASE PlanLocks(p)
  <2>1. /\ pc[p] = "plan" /\ pc'[p] = "lock" /\ UNCHANGED <<loose, packed, head, logs, plan>>
        /\ casc'[p] = CascadingOps(p)
    BY <1>5 DEF PlanLocks, disk, request, IndInv, TypeOK, WorkOK
  <2>2. EndsAt(Visible(head))'
    BY <2>1, SameHeadLog DEF HeadLogAt, Pending, Visible
  <2> QED BY <2>1, <2>2 DEF HeadLogAt, HeadLogOf, CascadingOps
<1>6. CASE \/ AcquireLock(p) \/ LockBackoff(p) \/ Confirm(p) \/ ValidateOp(p) \/ AllValid(p)
           \/ BeginOp(p) \/ LogRef(p) \/ DropLog(p)
  <2>1. /\ pc[p] \in {"lock", "validate", "commit", "log", "unlog"}
        /\ pc'[p] \in {"lock", "validate", "commit", "log", "headlog"}
        /\ UNCHANGED <<loose, packed, head>> /\ plan'[p] = plan[p] /\ target'[p] = target[p]
    BY <1>6 DEF AcquireLock, LockBackoff, Locking, Confirm, LocksTaken, ValidateOp, AllValid,
                BeginOp, LogRef, DropLog, disk, request, IndInv, TypeOK, WorkOK
  <2>2. logs'[HeadLock] = logs[HeadLock]
    <3>1. CASE LogRef(p) \/ DropLog(p)
      <4>1. cur[p] \in Refs /\ cur[p] # HeadLock
        BY <3>1, CurLocked, PathTypes DEF LogRef, DropLog, OnOp, Committing
      <4> QED BY <3>1, <4>1 DEF LogRef, DropLog, AppendLog, IndInv, TypeOK, DiskOK
    <3>2. CASE ~(LogRef(p) \/ DropLog(p))
      BY <1>6, <3>2 DEF AcquireLock, LockBackoff, Confirm, ValidateOp, AllValid, BeginOp, disk
    <3> QED BY <3>1, <3>2
  <2>3. casc'[p] = casc[p] \/ casc'[p] = {n \in casc[p] : n = head}
    BY <1>6 DEF AcquireLock, LockBackoff, Confirm, ValidateOp, AllValid, BeginOp, LogRef, DropLog,
                work, IndInv, TypeOK, WorkOK
  <2>4. target[p] = None => casc'[p] = {n \in DOMAIN plan'[p] : n = head'}
    BY <2>1, <2>3 DEF HeadLogAt, HeadLogOf, Committing
  <2>5. EndsAt(Visible(head))'
    BY <2>1, <2>2, SameHeadLog DEF HeadLogAt, Pending, Visible
  <2> QED BY <2>1, <2>4, <2>5 DEF HeadLogAt, HeadLogOf
<1>7. CASE \/ LockTimeout(p) \/ LockBlocked(p) \/ HeadMoved(p) \/ RejectOp(p) \/ Committed(p)
           \/ Transact(p) \/ SetSymbolic(p) \/ AcquireLease(p) \/ LeaseBackoff(p) \/ LeaseTimeout(p)
           \/ Release(p) \/ PruneParents(p) \/ DropLease(p)
  <2>1. /\ pc[p] \in {"idle", "lease", "lock", "validate", "commit", "release", "unlease"}
        /\ pc'[p] \in {"idle", "lease", "plan", "release", "unlease"}
        /\ UNCHANGED <<loose, packed, head, logs>>
    BY <1>7 DEF LockTimeout, LockBlocked, Locking, HeadMoved, LocksTaken, RejectOp, Committed,
                Transact, SetSymbolic, Submit, AcquireLease, LeaseBackoff, LeaseTimeout, Release,
                PruneParents, DropLease, Forget, Fail, disk, IndInv, TypeOK, WorkOK
  <2>2. EndsAt(Visible(head))'
    BY <2>1, SameHeadLog DEF HeadLogAt, Pending, Visible
  <2> QED BY <2>1, <2>2 DEF HeadLogAt, HeadLogOf, Committing
<1>8. CASE LogRefBlocked(p) \/ CommitBlocked(p) \/ PackedUndecodable(p)
  BY <1>8 DEF LogRefBlocked, CommitBlocked, PackedUndecodable, ValidatedCommitNotBlocked
<1> QED BY <1>1, <1>2, <1>3, <1>4, <1>5, <1>6, <1>7, <1>8 DEF LiveStep, ProcessStep

\* The others are not at work, and have no entry pending.
LEMMA OthersNotPending ==
    ASSUME Solo, NEW p \in Procs, NEW q \in Procs, q # p, pc[p] \notin {"idle", "lease"}
    PROVE  HeadLogOf(q) /\ ~Pending(q)
<1>1. pc[q] \in {"idle", "lease"}
  BY OneWorker
<1> QED BY <1>1 DEF HeadLogOf, Pending, Committing

\* Every step among the processes alone keeps logs/HEAD at the tip, or ahead of it.
LEMMA HeadLogStep ==
    ASSUME EveryOpLogged, NonUtf8Packed = FALSE, AloneInv, Undisturbed, Solo, HeadLogs,
           NEW p \in Procs, LiveStep(p)
    PROVE  HeadLogs'
<1>0. IndInv /\ Kind /\ ValidatedCommitNotBlocked
  BY AloneMeansNoConflict DEF AloneInv, PathInv, DeleteInv
<1>1. \A q \in Procs \ {p} : Kept(q)
  BY <1>0, OtherProcessKept DEF IndInv, LiveStep, OpStep
<1>2. CASE pc[p] \notin {"idle", "lease"}
  <2>1. \A q \in Procs \ {p} : HeadLogOf(q) /\ ~Pending(q)
    BY <1>2, OthersNotPending
  <2>2. HeadLogAt(p)
    BY <2>1 DEF HeadLogs, HeadLogAt
  <2>3. HeadLogAt(p)'
    BY <1>0, <2>2, HeadLogOwn
  <2>4. \A q \in Procs \ {p} : HeadLogOf(q)'
    <3>1. ASSUME NEW q \in Procs \ {p} PROVE HeadLogOf(q)'
      <4>1. pc'[q] \in {"idle", "lease"}
        BY <1>1, <1>2, OneWorker DEF Kept
      <4> QED BY <4>1 DEF HeadLogOf, Committing
    <3> QED BY <3>1
  <2> QED BY <2>3, <2>4 DEF HeadLogs, HeadLogAt
<1>3. CASE pc[p] \in {"idle", "lease"}
  <2>1. UNCHANGED <<loose, packed, head, logs>> /\ pc'[p] \in {"idle", "lease", "plan"}
    <3>1. UNCHANGED disk
      BY <1>0, <1>3, IdleStep
    <3>2. \/ Transact(p) \/ SetSymbolic(p) \/ AcquireLease(p) \/ LeaseBackoff(p) \/ LeaseTimeout(p)
      BY <1>3
         DEF LiveStep, ProcessStep, PlanLocks, AcquireLock, LockBackoff, LockTimeout, LockBlocked,
             Locking, LocksTaken, Confirm, HeadMoved, ValidateOp, RejectOp, AllValid, BeginOp,
             LogRef, LogRefBlocked, LogConflict, LogHead, WriteRef, Unlink, CommitBlocked,
             CommitConflict, ReadPacked, PackedUndecodable, RewritePacked, DropLog, Committed,
             LogSwitch, SetHead, Release, PruneParents, DropLease, At
    <3> QED BY <1>0, <1>3, <3>1, <3>2
            DEF Transact, SetSymbolic, Submit, AcquireLease, LeaseBackoff, LeaseTimeout, disk,
                IndInv, TypeOK, WorkOK
  <2>2. \A q \in Procs \ {p} : HeadLogOf(q)' /\ (Pending(q)' <=> Pending(q))
    BY <1>1, <2>1 DEF HeadLogs, HeadLogOf, Pending, Kept, EndsAt, Visible, CurOp
  <2>3. HeadLogOf(p)' /\ ~Pending(p)' /\ ~Pending(p)
    BY <1>3, <2>1 DEF HeadLogOf, Pending, Committing
  <2>4. EndsAt(Visible(head))' <=> EndsAt(Visible(head))
    BY <2>1 DEF EndsAt, Visible
  <2> QED BY <2>2, <2>3, <2>4 DEF HeadLogs
<1> QED BY <1>2, <1>3

\* As long as only gitana wrote and nobody died, logs/HEAD ends at the tip of
\* HEAD's branch whenever no operation is at work, if callers log their ops and
\* packed-refs can be read: neither a cascading op (transact_inline) nor a switch
\* (set_symbolic_locked) misses its entry or writes it and then fails.
THEOREM HeadLogEndsAtTip ==
    ASSUME EveryOpLogged, NonUtf8Packed = FALSE
    PROVE  Spec => []HeadLogFollowsTip
<1>1. Init /\ AloneInv => HeadLogs
  <2> SUFFICES ASSUME Init, AloneInv PROVE HeadLogs
    OBVIOUS
  <2>1. \A p \in Procs : HeadLogOf(p)
    BY DEF Init, HeadLogOf, Committing
  <2>2. EndsAt(Visible(head))
    <3>1. logs[HeadLock] = IF HeadLock \in Logged /\ Visible(head) # None
                           THEN <<Entry(None, Visible(head))>> ELSE <<>>
      BY DEF Init
    <3> QED BY <3>1 DEF EndsAt, Entry
  <2> QED BY <2>1, <2>2 DEF HeadLogs
<1>2. AloneInv /\ AloneInv' /\ (Undisturbed => HeadLogs) /\ [Next]_vars
        => (Undisturbed => HeadLogs)'
  <2> SUFFICES ASSUME AloneInv, Undisturbed => HeadLogs, [Next]_vars, Undisturbed'
               PROVE  HeadLogs'
    OBVIOUS
  <2>1. CASE UNCHANGED vars
    <3>1. UNCHANGED <<loose, packed, head, logs, pc, plan, target, casc, cur, crashes, gitBegun>>
      BY <2>1 DEF vars, disk, request, work, life, external
    <3> QED BY <3>1 DEF Undisturbed, HeadLogs, HeadLogOf, Pending, EndsAt, Visible, CurOp
  <2>2. CASE Next
    <3>1. Solo /\ Undisturbed /\ \E p \in Procs : LiveStep(p)
      BY <2>2, AloneSteps DEF AloneInv, PathInv, DeleteInv
    <3> QED BY <3>1, HeadLogStep
  <2> QED BY <2>1, <2>2
<1>3. (Undisturbed => HeadLogs) => HeadLogFollowsTip
  BY DEF Undisturbed, HeadLogs, HeadLogFollowsTip, Pending, EndsAt, Committing
<1> QED BY <1>1, <1>2, <1>3, AloneInvariant, PTL DEF Spec

=============================================================================
