--------------------------- MODULE LinkedWorktree ---------------------------
(***************************************************************************)
(* Creating, recovering, removing and moving linked worktrees               *)
(* (src/crates/core/gitana-linked-worktree).  A worktree is an admin        *)
(* directory <common>/worktrees/<name> and a checkout whose .git names it;  *)
(* the two point at each other and are written and deleted file by file.    *)
(* Calls of the library serialise on worktrees.lock; gta switch and gta     *)
(* worktree prune hold another lock and run beside them.  A call may be     *)
(* killed at any step, which leaves its files and its locks.                *)
(*                                                                         *)
(* History is a line of commits 1, 2, ... and a branch is a position on it, *)
(* 0 when absent.  A checkout holds its tracked files as one item and what  *)
(* only the user has, untracked or modified, as another.                    *)
(***************************************************************************)
EXTENDS Integers, FiniteSets

CONSTANTS
  Dests,      \* checkout paths; all have the same last component
  Branches,
  Tips,       \* [Branches -> 0..MaxTip]: where they start
  Main,       \* the branch the main worktree starts on
  Client,     \* the caller that repeats one prepared create until it is there
  Intent,     \* the request it repeats
  Rival,      \* another caller
  Requests,   \* what it may ask for
  None, Torn, Free, Stale,
  MaxTip,     \* bound: commits
  MaxAdmins,  \* bound: admin names <basename>, <basename>1, ...
  MaxCalls,   \* bound: calls of the rival
  MaxGta,     \* bound: gta commands
  MaxEdits,   \* bound: changes by the user
  MaxKills    \* bound: kills and moves that fail half way

Procs == {Client, Rival}
Admins == 1..MaxAdmins

Request == [op : {"create", "remove", "move"}, mode : {"existing", "new", "reset", "none"},
            dest : Dests, to : Dests, branch : Branches \cup {None}, start : 0..MaxTip,
            recover : BOOLEAN, force : BOOLEAN]

ASSUME TipAssumption == Tips \in [Branches -> 0..MaxTip] /\ Main \in Branches
\* A create names the branch it checks out: the detached and orphan targets of
\* CreateRequest are not modelled.
ASSUME RequestAssumption ==
  /\ Requests \cup {Intent} \subseteq Request
  /\ \A r \in Requests \cup {Intent} : r.op = "create" => r.branch # None
ASSUME NameAssumption ==
  {None, Torn} \cap (Dests \cup Branches \cup Admins) = {} /\ None # Torn
ASSUME LockAssumption == {Free, Stale} \cap Procs = {} /\ Free # Stale
ASSUME BoundAssumption ==
  {MaxTip, MaxAdmins, MaxCalls, MaxGta, MaxEdits, MaxKills} \subseteq Nat

VARIABLES
  admins,     \* worktrees/<name>: commondir, gitdir, HEAD and index
  checkouts,  \* the destinations: their files and their .git
  tips,       \* the branches
  mainHead,   \* HEAD of the main worktree
  regLock,    \* worktrees.lock
  lease,      \* gitana-history.lock
  calls,      \* the running call of each caller
  gta,        \* the running gta command
  astray,     \* destinations a move that died or failed left a checkout at
  overtaken,  \* admins pruned while a call or a checkout named them
  late,       \* destinations the user wrote to after a call's last look
  cnt         \* counters of the bounds

vars == <<admins, checkouts, tips, mainHead, regLock, lease, calls, gta, astray, overtaken, late, cnt>>
disk == <<admins, checkouts, tips, mainHead>>
locks == <<regLock, lease>>
ghosts == <<astray, overtaken, late>>

-----------------------------------------------------------------------------
(* What is on disk *)

NoAdmin == [dir |-> FALSE, common |-> FALSE, gitdir |-> None, head |-> None, index |-> 0]
BlankAdmin == [NoAdmin EXCEPT !.dir = TRUE]
Admin == [dir : BOOLEAN, common : BOOLEAN, gitdir : Dests \cup {None},
          head : Branches \cup {None}, index : 0..MaxTip]

NoCheckout == [dir |-> FALSE, files |-> {}, git |-> None]
Checkout == [dir : BOOLEAN, files : SUBSET {"tracked", "user"}, git : Admins \cup {None, Torn}]

\* classify_destination
Kind(d) ==
  CASE ~checkouts[d].dir -> "absent"
    [] checkouts[d].dir /\ checkouts[d].git \in Admins -> "checkout"
    [] checkouts[d].dir /\ checkouts[d].git = None /\ checkouts[d].files = {} -> "empty"
    [] OTHER -> "unrelated"

\* is_listed_admin, is_registration, admin_dirs_for
Listed(a) == admins[a].gitdir # None
Registered(d) == {a \in Admins : admins[a].common /\ admins[a].gitdir = d}

\* branch_checkout_location: another worktree whose HEAD names the branch.
InUse(b, d) ==
  mainHead = b \/ \E a \in Admins : Listed(a) /\ admins[a].head = b /\ admins[a].gitdir # d

\* inspect, for a destination and the branch the request pins, if any.
Inspect(d, b) ==
  LET regs == Registered(d)
      reg == IF Cardinality(regs) = 1 THEN CHOOSE a \in regs : TRUE ELSE None
      claim == checkouts[d].git
      owned == claim \in Admins /\ admins[claim].common
      owner == IF reg # None THEN reg ELSE IF owned THEN claim ELSE None
      head == IF owner = None THEN None ELSE admins[owner].head
  IN [kind     |-> Kind(d),
      admin    |-> reg,
      present  |-> reg # None /\ claim = reg,
      head     |-> head,
      object   |-> IF head = None THEN 0 ELSE tips[head],
      tip      |-> IF b = None THEN 0 ELSE tips[b],
      occupied |-> b # None /\ InUse(b, d),
      conflict |-> \/ Cardinality(regs) > 1
                   \/ claim \in Admins /\ ~owned
                   \/ owned /\ admins[claim].gitdir # d
                   \/ b # None /\ reg # None /\ head # b]

Look(r) == Inspect(r.dest, r.branch)
Readable(d) == checkouts[d].git # Torn   \* gitfile_target fails on an empty .git

-----------------------------------------------------------------------------
(* The decisions of create, recover and remove *)

\* decide and matches_target: the worktree is the requested one.
AlreadyThere(i, r) ==
  /\ ~i.conflict /\ ~i.occupied /\ i.present
  /\ i.object # 0 /\ i.object >= r.start

\* decide: a free destination, and the branch as the mode wants it.
Writes(i, r) ==
  /\ ~i.conflict /\ ~i.occupied /\ i.admin = None /\ i.kind \in {"absent", "empty"}
  /\ r.mode = "new" => i.tip = 0
  /\ r.mode = "existing" => i.tip # 0

\* A registration whose checkout is gone and whose destination is free.
Partial(i) ==
  i.admin # None /\ ~i.present /\ ~i.conflict /\ i.kind \in {"absent", "empty"}

\* Mutant: an empty directory at the destination is not this create's.
PreparedPartialAbsent(i, r) ==
  /\ r.recover /\ i.admin # None /\ ~i.present /\ ~i.conflict /\ ~i.occupied
  /\ i.kind = "absent"
  /\ i.head = r.branch /\ i.object = r.start /\ i.tip = r.start

\* prepared_partial_admin: exactly what an interrupted prepared create leaves.
PreparedPartial(i, r) ==
  /\ r.recover /\ i.admin # None /\ ~i.present /\ ~i.conflict /\ ~i.occupied
  /\ i.kind \in {"absent", "empty", "unrelated"}
  /\ i.head = r.branch /\ i.object = r.start /\ i.tip = r.start

\* The status and residual scans of a live checkout.
Clean(d, i) == admins[i.admin].index = i.object /\ checkouts[d].files = {"tracked"}

\* decide_remove: the whole worktree, a partial one, or nothing.
Removal(d, b) ==
  LET i == Inspect(d, b) IN
  CASE i.present /\ ~i.conflict /\ Clean(d, i) -> [what |-> "full", admin |-> i.admin]
    [] Partial(i) /\ admins[i.admin].index \in {0, i.object} ->
         [what |-> "partial", admin |-> i.admin]
    [] OTHER -> [what |-> "nothing", admin |-> None]

\* decide_relocate and prepare_destination: the admin of a movable worktree.
Movable(r) ==
  LET i == Look(r) IN
  /\ i.present /\ ~i.conflict /\ i.head # None
  /\ r.to # r.dest /\ Kind(r.to) \in {"absent", "empty"} /\ Readable(r.to)
  /\ r.force \/ ~\E a \in Admins : admins[a].gitdir = r.to

-----------------------------------------------------------------------------
(* Calls *)

Idle == [pc |-> "idle", req |-> None, admin |-> None, seen |-> None, tip |-> 0]

Init ==
  /\ admins = [a \in Admins |-> NoAdmin]
  /\ checkouts = [d \in Dests |-> NoCheckout]
  /\ tips = Tips /\ mainHead = Main
  /\ regLock = Free /\ lease = Free
  /\ calls = [p \in Procs |-> Idle]
  /\ gta = [pc |-> "idle", branch |-> None, admin |-> None]
  /\ astray = {} /\ overtaken = {} /\ late = {}
  /\ cnt = [calls |-> 0, gta |-> 0, edits |-> 0, kills |-> 0]

At(p, pc) == calls[p].pc = pc
Req(p) == calls[p].req
Goto(p, pc) == calls' = [calls EXCEPT ![p].pc = pc]

\* The guards drop: RegistrationLock and the history lease.
Unlock(p, with) ==
  /\ regLock' = IF regLock = p THEN with ELSE regLock
  /\ lease' = IF lease = p THEN with ELSE lease
Return(p) == calls' = [calls EXCEPT ![p] = Idle] /\ Unlock(p, Free)

\* Mutant: create does not take worktrees.lock.
StartUnlocked(p, r) ==
  /\ At(p, "idle")
  /\ regLock' = IF r.op = "create" THEN regLock ELSE p
  /\ regLock = Free \/ r.op = "create"
  /\ calls' = [calls EXCEPT ![p] = [Idle EXCEPT !.pc = r.op, !.req = r]]
  /\ cnt' = IF p = Rival THEN [cnt EXCEPT !.calls = @ + 1] ELSE cnt
  /\ UNCHANGED <<disk, lease, gta, ghosts>>

\* RegistrationLock::acquire; a held lock is an error to the caller.
Start(p, r) ==
  /\ At(p, "idle") /\ regLock = Free
  /\ regLock' = p
  /\ calls' = [calls EXCEPT ![p] = [Idle EXCEPT !.pc = r.op, !.req = r]]
  /\ cnt' = IF p = Rival THEN [cnt EXCEPT !.calls = @ + 1] ELSE cnt
  /\ UNCHANGED <<disk, lease, gta, ghosts>>

Ask(p) ==
  \/ p = Client /\ Start(p, Intent)
  \/ p = Rival /\ cnt.calls < MaxCalls /\ \E r \in Requests : Start(p, r)

-----------------------------------------------------------------------------
(* create, and recover_prepared_create in front of it *)

CreateLook(p) ==
  LET r == Req(p)
      i == Look(r)
  IN
  /\ At(p, "create")
  /\ \/ Readable(r.dest) /\ PreparedPartial(i, r)
        /\ calls' = [calls EXCEPT ![p].pc = "recheck", ![p].seen = i]
        /\ UNCHANGED locks
     \/ Readable(r.dest) /\ ~PreparedPartial(i, r) /\ Writes(i, r)
        /\ Goto(p, "resolve") /\ UNCHANGED locks
     \/ ~(Readable(r.dest) /\ (PreparedPartial(i, r) \/ Writes(i, r))) /\ Return(p)
  /\ UNCHANGED <<disk, gta, ghosts, cnt>>

\* discard_prepared_partial inspects again and wants to see the same.
RecoverRecheck(p) ==
  LET r == Req(p) IN
  /\ At(p, "recheck")
  /\ IF Readable(r.dest) /\ Look(r) = calls[p].seen
       THEN Goto(p, "sweep") /\ UNCHANGED locks
       ELSE Return(p)
  /\ UNCHANGED <<disk, gta, ghosts, cnt>>

\* remove_directory_tree: one rename takes the destination away.  One that was
\* absent is not touched, and something there now stops the recovery.
RecoverSweep(p) ==
  LET d == Req(p).dest IN
  /\ At(p, "sweep")
  /\ IF calls[p].seen.kind = "absent" /\ checkouts[d].dir
       THEN Return(p) /\ UNCHANGED <<checkouts, late>>
       ELSE /\ checkouts' = [checkouts EXCEPT ![d] = NoCheckout]
            /\ late' = late \ {d}
            /\ Goto(p, "discard") /\ UNCHANGED locks
  /\ UNCHANGED <<admins, tips, mainHead, gta, astray, overtaken, cnt>>

\* deregister_admin: a rename out of worktrees/.
RecoverDiscard(p) ==
  /\ At(p, "discard")
  /\ admins' = [admins EXCEPT ![calls[p].seen.admin] = NoAdmin]
  /\ calls' = [calls EXCEPT ![p].pc = "cleared", ![p].seen = None]
  /\ UNCHANGED <<checkouts, tips, mainHead, locks, gta, ghosts, cnt>>

\* The destination must now be clear; then create decides.
RecoverCleared(p) ==
  LET i == Look(Req(p)) IN
  /\ At(p, "cleared")
  /\ IF Readable(Req(p).dest) /\ Registered(Req(p).dest) = {} /\ i.kind = "absent" /\ Writes(i, Req(p))
       THEN Goto(p, "resolve") /\ UNCHANGED locks
       ELSE Return(p)
  /\ UNCHANGED <<disk, gta, ghosts, cnt>>

\* The branch's tip, its relation to the expected start, and the first free
\* admin name (unique_admin_dir).
CreateResolve(p) ==
  LET r == Req(p)
      free == {a \in Admins : ~admins[a].dir}
      tip == IF r.mode = "existing" THEN tips[r.branch] ELSE r.start
  IN
  /\ At(p, "resolve")
  /\ \E first \in free :
       /\ \A a \in free : first <= a
       /\ IF tip # 0 /\ tip >= r.start
            THEN /\ calls' = [calls EXCEPT
                       ![p].pc = IF r.mode = "existing" THEN "lease" ELSE "branch",
                       ![p].tip = tip, ![p].admin = first]
                 /\ UNCHANGED locks
            ELSE Return(p)
  /\ UNCHANGED <<disk, gta, ghosts, cnt>>

\* The branch, through a ref transaction of its own: absent for -b; -B swaps
\* whatever tip it has.
CreateBranch(p) ==
  LET r == Req(p) IN
  /\ At(p, "branch")
  /\ IF lease = Free /\ (r.mode = "new" => tips[r.branch] = 0)
       THEN tips' = [tips EXCEPT ![r.branch] = r.start] /\ Goto(p, "lease") /\ UNCHANGED locks
       ELSE Return(p) /\ UNCHANGED tips
  /\ UNCHANGED <<admins, checkouts, mainHead, gta, ghosts, cnt>>

\* lock_history_mutation: held until the call returns.
CreateLease(p) ==
  /\ At(p, "lease")
  /\ IF lease = Free THEN lease' = p /\ Goto(p, "admin") /\ UNCHANGED regLock
                     ELSE Return(p)
  /\ UNCHANGED <<disk, gta, ghosts, cnt>>

\* write_admin_layout: create_dir_all twice.
CreateAdmin(p) ==
  LET a == calls[p].admin IN
  /\ At(p, "admin")
  /\ admins' = [admins EXCEPT ![a].dir = TRUE]
  /\ Goto(p, "dest")
  /\ UNCHANGED <<checkouts, tips, mainHead, locks, gta, ghosts, cnt>>

CreateDest(p) ==
  /\ At(p, "dest")
  /\ checkouts' = [checkouts EXCEPT ![Req(p).dest].dir = TRUE]
  /\ Goto(p, "commondir")
  /\ UNCHANGED <<admins, tips, mainHead, locks, gta, ghosts, cnt>>

\* Mutant: the file is written where there is no directory any more.
AdminFileBlind(p, pc, next, new) ==
  /\ At(p, pc)
  /\ admins' = [admins EXCEPT ![calls[p].admin] = new] /\ Goto(p, next)
  /\ UNCHANGED <<checkouts, tips, mainHead, locks, gta, ghosts, cnt>>

\* One file of the admin, published by a rename; the directory must be there.
AdminFile(p, pc, next, new) ==
  LET a == calls[p].admin IN
  /\ At(p, pc)
  /\ IF admins[a].dir
       THEN admins' = [admins EXCEPT ![a] = new] /\ Goto(p, next) /\ UNCHANGED locks
       ELSE Return(p) /\ UNCHANGED admins
  /\ UNCHANGED <<checkouts, tips, mainHead, gta, ghosts, cnt>>

CreateCommondir(p) ==
  AdminFile(p, "commondir", "gitdir", [admins[calls[p].admin] EXCEPT !.common = TRUE])
CreateGitdir(p) ==
  AdminFile(p, "gitdir", "head", [admins[calls[p].admin] EXCEPT !.gitdir = Req(p).dest])

\* Mutant: .git is published before the files and the index.
CreateHeadLast(p) ==
  AdminFile(p, "head", "gitfile", [admins[calls[p].admin] EXCEPT !.head = Req(p).branch])

CreateHead(p) ==
  AdminFile(p, "head", "files", [admins[calls[p].admin] EXCEPT !.head = Req(p).branch])

\* The checkout: the files, then the index; a file of the user's may be in the way.
CreateFiles(p) ==
  LET d == Req(p).dest IN
  /\ At(p, "files")
  /\ \/ /\ checkouts[d].dir
        /\ checkouts' = [checkouts EXCEPT ![d].files = checkouts[d].files \cup {"tracked"}]
        /\ Goto(p, "index") /\ UNCHANGED locks
     \/ /\ ~checkouts[d].dir \/ "user" \in checkouts[d].files
        /\ Return(p) /\ UNCHANGED checkouts
  /\ UNCHANGED <<admins, tips, mainHead, gta, ghosts, cnt>>
CreateIndex(p) ==
  AdminFile(p, "index", "gitfile", [admins[calls[p].admin] EXCEPT !.index = calls[p].tip])

\* write_checkout_gitfile: O_EXCL, then the content.
CreateGitfile(p) ==
  LET d == Req(p).dest IN
  /\ At(p, "gitfile")
  /\ IF checkouts[d].dir /\ checkouts[d].git = None
       THEN /\ checkouts' = [checkouts EXCEPT ![d].git = Torn]
            /\ Goto(p, "content") /\ UNCHANGED locks
       ELSE Return(p) /\ UNCHANGED checkouts
  /\ UNCHANGED <<admins, tips, mainHead, gta, ghosts, cnt>>
CreateContent(p) ==
  LET d == Req(p).dest IN
  /\ At(p, "content")
  /\ checkouts' = IF checkouts[d].git = Torn
                   THEN [checkouts EXCEPT ![d].git = calls[p].admin] ELSE checkouts
  /\ Goto(p, "verify")
  /\ UNCHANGED <<admins, tips, mainHead, locks, gta, ghosts, cnt>>

\* Only a worktree that now is the requested one is a success.
CreateVerify(p) ==
  /\ At(p, "verify")
  /\ IF Readable(Req(p).dest) /\ AlreadyThere(Look(Req(p)), Req(p))
       THEN Goto(p, "done") /\ UNCHANGED locks
       ELSE Return(p)
  /\ UNCHANGED <<disk, gta, ghosts, cnt>>
CreateDone(p) == At(p, "done") /\ Return(p) /\ UNCHANGED <<disk, gta, ghosts, cnt>>

Create(p) ==
  \/ CreateLook(p) \/ RecoverRecheck(p) \/ RecoverSweep(p) \/ RecoverDiscard(p) \/ RecoverCleared(p)
  \/ CreateResolve(p) \/ CreateBranch(p) \/ CreateLease(p) \/ CreateAdmin(p) \/ CreateDest(p)
  \/ CreateCommondir(p) \/ CreateGitdir(p) \/ CreateHead(p) \/ CreateFiles(p) \/ CreateIndex(p)
  \/ CreateGitfile(p) \/ CreateContent(p) \/ CreateVerify(p) \/ CreateDone(p)

-----------------------------------------------------------------------------
(* remove *)

RemoveLook(p) ==
  LET action == Removal(Req(p).dest, Req(p).branch) IN
  /\ At(p, "remove")
  /\ IF Readable(Req(p).dest) /\ action.what # "nothing"
       THEN /\ calls' = [calls EXCEPT ![p].pc = "again", ![p].seen = action]
            /\ UNCHANGED locks
       ELSE Return(p)
  /\ UNCHANGED <<disk, gta, ghosts, cnt>>

\* Mutant: the decision is not taken again before the deletion.
RemoveUnchecked(p) ==
  /\ At(p, "again") /\ Goto(p, "delete") /\ UNCHANGED <<disk, locks, gta, ghosts, cnt>>

RemoveRecheck(p) ==
  /\ At(p, "again")
  /\ IF Readable(Req(p).dest) /\ Removal(Req(p).dest, Req(p).branch) = calls[p].seen
       THEN Goto(p, "delete") /\ UNCHANGED locks
       ELSE Return(p)
  /\ UNCHANGED <<disk, gta, ghosts, cnt>>

\* perform_remove: remove_dir_all takes the entries in any order and may fail at
\* one of them, remove_dir takes only an empty directory.
RemoveEntry(p) ==
  LET d == Req(p).dest IN
  /\ At(p, "delete") /\ calls[p].seen.what = "full"
  /\ \/ \E f \in checkouts[d].files :
          checkouts' = [checkouts EXCEPT ![d].files = checkouts[d].files \ {f}]
     \/ checkouts[d].git # None /\ checkouts' = [checkouts EXCEPT ![d].git = None]
  /\ UNCHANGED <<admins, tips, mainHead, locks, calls, gta, ghosts, cnt>>
RemoveDirectory(p) ==
  LET d == Req(p).dest IN
  /\ At(p, "delete")
  /\ checkouts' = IF Kind(d) = "empty" THEN [checkouts EXCEPT ![d] = NoCheckout] ELSE checkouts
  /\ Goto(p, "deregister")
  /\ UNCHANGED <<admins, tips, mainHead, locks, gta, ghosts, cnt>>

\* Mutant: the registration goes whether or not the checkout is gone.
DeregisterAnyway(p) ==
  /\ At(p, "deregister")
  /\ admins' = [admins EXCEPT ![calls[p].seen.admin] = NoAdmin]
  /\ Return(p)
  /\ UNCHANGED <<checkouts, tips, mainHead, gta, ghosts, cnt>>

\* The admin goes only once the checkout is confirmed gone.
RemoveDeregister(p) ==
  /\ At(p, "deregister")
  /\ admins' = IF checkouts[Req(p).dest].dir THEN admins
               ELSE [admins EXCEPT ![calls[p].seen.admin] = NoAdmin]
  /\ Return(p)
  /\ UNCHANGED <<checkouts, tips, mainHead, gta, ghosts, cnt>>

Remove(p) ==
  RemoveLook(p) \/ RemoveRecheck(p) \/ RemoveEntry(p) \/ RemoveDirectory(p) \/ RemoveDeregister(p)

-----------------------------------------------------------------------------
(* relocate *)

MoveLook(p) ==
  LET r == Req(p) IN
  /\ At(p, "move")
  /\ IF Readable(r.dest) /\ Movable(r)
       THEN /\ calls' = [calls EXCEPT ![p].pc = "confirm", ![p].admin = Look(r).admin]
            /\ UNCHANGED locks
       ELSE Return(p)
  /\ UNCHANGED <<disk, gta, ghosts, cnt>>

\* Both sides again; the registrations found at the target are to be dropped.
MoveRecheck(p) ==
  LET r == Req(p) IN
  /\ At(p, "confirm")
  /\ IF Readable(r.dest) /\ Movable(r) /\ Look(r).admin = calls[p].admin
       THEN /\ calls' = [calls EXCEPT ![p].pc = "rename",
                           ![p].seen = {a \in Admins : admins[a].gitdir = r.to}]
            /\ UNCHANGED locks
       ELSE Return(p)
  /\ UNCHANGED <<disk, gta, ghosts, cnt>>

\* rename replaces nothing but an empty directory.
MoveRename(p) ==
  LET r == Req(p) IN
  /\ At(p, "rename")
  /\ IF checkouts[r.dest].dir /\ Kind(r.to) \in {"absent", "empty"}
       THEN /\ checkouts' = [checkouts EXCEPT ![r.to] = checkouts[r.dest], ![r.dest] = NoCheckout]
            /\ late' = IF r.dest \in late THEN (late \ {r.dest}) \cup {r.to} ELSE late
            /\ Goto(p, "stale") /\ UNCHANGED locks
       ELSE Return(p) /\ UNCHANGED <<checkouts, late>>
  /\ UNCHANGED <<admins, tips, mainHead, gta, astray, overtaken, cnt>>

MoveDropStale(p) ==
  /\ At(p, "stale")
  /\ admins' = [a \in Admins |-> IF a \in calls[p].seen THEN NoAdmin ELSE admins[a]]
  /\ Goto(p, "backlink")
  /\ UNCHANGED <<checkouts, tips, mainHead, locks, gta, ghosts, cnt>>

\* update_file_in_place: the file must exist.
MoveBacklink(p) ==
  LET a == calls[p].admin IN
  /\ At(p, "backlink")
  /\ IF admins[a].gitdir # None
       THEN admins' = [admins EXCEPT ![a].gitdir = Req(p).to] /\ Goto(p, "relink") /\ UNCHANGED locks
       ELSE Return(p) /\ UNCHANGED admins
  /\ UNCHANGED <<checkouts, tips, mainHead, gta, ghosts, cnt>>
MoveRelink(p) ==
  LET d == Req(p).to IN
  /\ At(p, "relink")
  /\ checkouts' = IF checkouts[d].git = None THEN checkouts
                   ELSE [checkouts EXCEPT ![d].git = calls[p].admin]
  /\ Return(p)
  /\ UNCHANGED <<admins, tips, mainHead, gta, ghosts, cnt>>

Move(p) ==
  MoveLook(p) \/ MoveRecheck(p) \/ MoveRename(p) \/ MoveDropStale(p) \/ MoveBacklink(p) \/ MoveRelink(p)

Step(p) == Create(p) \/ Remove(p) \/ Move(p)

-----------------------------------------------------------------------------
(* gta commands: one at a time.  prune excludes every other; two switches *)
(* share the setup lease, and only one of them is modelled.               *)

\* switch in the main worktree: the scan, and after the checkout, HEAD.
SwitchLook ==
  /\ gta.pc = "idle" /\ cnt.gta < MaxGta
  /\ \E b \in Branches \ {mainHead} :
       /\ tips[b] # 0 /\ ~\E a \in Admins : admins[a].head = b
       /\ gta' = [pc |-> "switch", branch |-> b, admin |-> None]
  /\ cnt' = [cnt EXCEPT !.gta = @ + 1]
  /\ UNCHANGED <<disk, locks, calls, ghosts>>

\* Mutant: HEAD is published without the history lease.
SwitchUnleased ==
  /\ gta.pc = "switch"
  /\ mainHead' = gta.branch
  /\ gta' = [pc |-> "idle", branch |-> None, admin |-> None]
  /\ UNCHANGED <<admins, checkouts, tips, locks, calls, ghosts, cnt>>

SwitchPublish ==
  /\ gta.pc = "switch"
  /\ mainHead' = IF lease = Free THEN gta.branch ELSE mainHead
  /\ gta' = [pc |-> "idle", branch |-> None, admin |-> None]
  /\ UNCHANGED <<admins, checkouts, tips, locks, calls, ghosts, cnt>>

\* prune_reason: no gitdir, or nothing at the .git it names.
PruneLook ==
  /\ gta.pc = "idle" /\ cnt.gta < MaxGta
  /\ \E a \in Admins :
       /\ admins[a].dir
       /\ admins[a].gitdir # None => checkouts[admins[a].gitdir].git = None
       /\ gta' = [pc |-> "prune", branch |-> None, admin |-> a]
  /\ cnt' = [cnt EXCEPT !.gta = @ + 1]
  /\ UNCHANGED <<disk, locks, calls, ghosts>>
PruneDrop ==
  /\ gta.pc = "prune"
  /\ admins' = [admins EXCEPT ![gta.admin] = NoAdmin]
  /\ overtaken' = overtaken \cup
       {a \in {gta.admin} : \/ \E p \in Procs : calls[p].admin = a
                            \/ \E d \in Dests : checkouts[d].git = a}
  /\ gta' = [pc |-> "idle", branch |-> None, admin |-> None]
  /\ UNCHANGED <<checkouts, tips, mainHead, locks, calls, astray, late, cnt>>

Gta == SwitchLook \/ SwitchPublish \/ PruneLook \/ PruneDrop

-----------------------------------------------------------------------------
(* The user, and kills *)

\* The call has looked for the last time before it deletes what is at d.
Committed(d) ==
  \E p \in Procs : calls[p].pc \in {"sweep", "delete"} /\ Req(p).dest = d

UserWrites(d) ==
  /\ "user" \notin checkouts[d].files
  /\ checkouts' = [checkouts EXCEPT ![d].dir = TRUE, ![d].files = checkouts[d].files \cup {"user"}]
  /\ late' = IF Committed(d) THEN late \cup {d} ELSE late
  /\ UNCHANGED <<admins, tips, mainHead, astray, overtaken>>
UserDeletes(d) ==
  /\ checkouts[d].dir
  /\ checkouts' = [checkouts EXCEPT ![d] = NoCheckout]
  /\ late' = late \ {d}
  /\ UNCHANGED <<admins, tips, mainHead, astray, overtaken>>
MoveBranch(b) ==
  /\ \E n \in (1..MaxTip) \ {tips[b]} : tips' = [tips EXCEPT ![b] = n]
  /\ UNCHANGED <<admins, checkouts, mainHead, ghosts>>
User ==
  /\ cnt.edits < MaxEdits /\ cnt' = [cnt EXCEPT !.edits = @ + 1]
  /\ \/ \E d \in Dests : UserWrites(d) \/ UserDeletes(d)
     \/ \E b \in Branches : MoveBranch(b)
  /\ UNCHANGED <<locks, calls, gta>>

\* A call that ends where it stands leaves its files.
Ends(p, with) ==
  /\ cnt.kills < MaxKills
  /\ cnt' = [cnt EXCEPT !.kills = @ + 1]
  /\ calls' = [calls EXCEPT ![p] = Idle] /\ Unlock(p, with)
  /\ astray' = IF calls[p].pc \in {"stale", "backlink"} THEN astray \cup {Req(p).to} ELSE astray
  /\ UNCHANGED <<disk, gta, overtaken, late>>

\* One that is killed leaves its locks too.
Kill(p) == ~At(p, "idle") /\ Ends(p, Stale)

\* RelocateError::Incomplete: an I/O error after the rename.
MoveIncomplete(p) == calls[p].pc \in {"stale", "backlink", "relink"} /\ Ends(p, Free)

\* Nothing breaks a stale lock; a person removes the files.
RemoveStaleLocks ==
  /\ \/ regLock = Stale /\ regLock' = Free /\ UNCHANGED lease
     \/ lease = Stale /\ lease' = Free /\ UNCHANGED regLock
  /\ UNCHANGED <<disk, calls, gta, ghosts, cnt>>

Next ==
  \/ \E p \in Procs : Ask(p) \/ Step(p) \/ Kill(p) \/ MoveIncomplete(p)
  \/ Gta \/ User \/ RemoveStaleLocks

Spec == Init /\ [][Next]_vars

\* A call goes on, the client asks again whenever the lock is free often
\* enough, and a person removes the locks of a dead process.
FairSpec ==
  /\ Spec
  /\ \A p \in Procs : WF_vars(Step(p))
  /\ SF_vars(Ask(Client))
  /\ WF_vars(SwitchPublish \/ PruneDrop) /\ WF_vars(RemoveStaleLocks)

-----------------------------------------------------------------------------
(* Properties *)

Pc == {"idle", "create", "recheck", "sweep", "discard", "cleared", "resolve", "branch", "lease",
       "admin", "dest", "commondir", "gitdir", "head", "files", "index", "gitfile", "content",
       "verify", "done", "remove", "again", "delete", "deregister",
       "move", "confirm", "rename", "stale", "backlink", "relink"}

\* Every variable keeps its type, and a caller past its start holds worktrees.lock.
TypeOK ==
  /\ admins \in [Admins -> Admin] /\ checkouts \in [Dests -> Checkout]
  /\ tips \in [Branches -> 0..MaxTip] /\ mainHead \in Branches
  /\ regLock \in Procs \cup {Free, Stale} /\ lease \in Procs \cup {Free, Stale}
  /\ \A p \in Procs : calls[p].pc \in Pc /\ calls[p].admin \in Admins \cup {None}
  /\ gta.pc \in {"idle", "switch", "prune"} /\ gta.branch \in Branches \cup {None}
  /\ gta.admin \in Admins \cup {None}
  /\ astray \subseteq Dests /\ late \subseteq Dests /\ overtaken \subseteq Admins
  /\ \A a \in Admins : ~admins[a].dir => admins[a] = NoAdmin

\* No destination is registered twice, whoever creates, removes and moves
\* worktrees at once and wherever one of them dies: a duplicate is refused by
\* every later call and no call of the library clears it.
RegistrationUnique == \A d \in Dests : Cardinality(Registered(d)) <= 1

\* A checkout's .git names an admin that exists and points back at it, unless
\* the move that is changing it still runs, died or failed half way, or gta
\* worktree prune took the admin from under a call: perform_remove, "never an
\* orphaned checkout".
NoOrphanCheckout ==
  \A d \in Dests :
    LET a == checkouts[d].git IN
    a \in Admins =>
      \/ admins[a].common /\ admins[a].gitdir = d
      \/ d \in astray \/ a \in overtaken
      \/ \E p \in Procs : calls[p].pc \in {"stale", "backlink"} /\ Req(p).to = d

\* Never a false complete: a checkout whose .git is there has had its files and
\* its index laid down.
LiveIsComplete ==
  \A d \in Dests :
    LET a == checkouts[d].git IN
    a \in Admins /\ admins[a].gitdir = d => admins[a].index # 0 /\ admins[a].head # None

\* What only the user has goes when the user deletes it, when a recovery
\* discards the partial checkout it was told to, or when it was written after
\* the last look; a move takes it along.
UserContentKept ==
  [][\A d \in Dests :
       "user" \in checkouts[d].files /\ "user" \notin checkouts'[d].files =>
         \/ d \in late \/ cnt'.edits # cnt.edits
         \/ \E p \in Procs : At(p, "sweep") /\ Req(p).dest = d
         \/ \E e \in Dests \ {d} : checkouts'[e] = checkouts[d]]_vars

\* A create that returns success is alone on its branch: whichever of it and a
\* switch publishes HEAD first, the create that lost says so.
LostRaceIsReported ==
  [][\A p \in Procs : CreateDone(p) => ~InUse(Req(p).branch, Req(p).dest)]_vars

Established == Readable(Intent.dest) /\ AlreadyThere(Look(Intent), Intent)

\* What a repeated prepared create does not get past.
TornGitfile == ~Readable(Intent.dest)
OtherHead == \E a \in Registered(Intent.dest) : admins[a].head # Intent.branch
Orphaned == checkouts[Intent.dest].git \in Admins \ Registered(Intent.dest)
BranchTaken == InUse(Intent.branch, Intent.dest) \/ tips[Intent.branch] # Intent.start
OthersFiles == Registered(Intent.dest) = {} /\ Kind(Intent.dest) = "unrelated"
NeedsAPerson == TornGitfile \/ OtherHead \/ Orphaned \/ BranchTaken \/ OthersFiles

\* Wherever creates die, repeating the prepared create brings the worktree
\* about, or comes to a state that needs a person: one of them killed between
\* gitdir and HEAD or between making .git and writing it, or the destination or
\* the branch taken by somebody else.
RecoveryConverges == []<>(Established \/ NeedsAPerson)
=============================================================================
