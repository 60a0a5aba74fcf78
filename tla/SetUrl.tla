------------------------------- MODULE SetUrl -------------------------------
(***************************************************************************)
(* `submodule set-url` (and `submodule sync`, which runs the same code) as  *)
(* a durable roll-forward transaction over up to three configuration files *)
(* (src/crates/core/gitana-submodule/src/set_url_operation.rs, with the     *)
(* publication protocol of gitana-config-native).                           *)
(*                                                                         *)
(* A transaction of a worktree changes .gitmodules, the configuration the   *)
(* worktrees share and the module's own configuration.  What survives a     *)
(* crash: the files, their .lock names, the private after-images, the       *)
(* journal of the worktree and the claim in the module.  What does not: the *)
(* process and its locks.  A file image is its inode identity, the URL it   *)
(* records and the edits of other writers it contains; an inode identity is *)
(* the number of the transaction or the edit that created the inode.        *)
(***************************************************************************)
EXTENDS Naturals, FiniteSets

CONSTANTS
  Procs,         \* processes that run set-url
  Worktrees,     \* worktrees of one superproject, each with its own journal
  Participants,  \* [Worktrees -> SUBSET Parts]: registered? module attached?
  Urls,          \* the URLs a request may name
  InitialUrls,   \* [Files -> Urls]s the files may start with
  None,          \* no image, no journal, no claim, no process, no URL
  MaxImages,     \* bound: transactions and edits together
  MaxGit,        \* bound: edits of stock Git, which knows nothing of journals
  MaxCrashes     \* bound: kills, I/O errors and cancellations

Parts == {"declaration", "superproject", "module"}
Order == <<"declaration", "superproject", "module">>

\* The file a participant of a worktree's transaction stands for: the
\* superproject configuration is one file for all worktrees.
File(w, c) == IF c = "superproject" THEN <<c, None>> ELSE <<c, w>>
Files == UNION {{File(w, c) : c \in Participants[w]} : w \in Worktrees}

ASSUME ParticipantsAssumption ==
  /\ Participants \in [Worktrees -> SUBSET Parts]
  /\ \A w \in Worktrees : "declaration" \in Participants[w]
ASSUME NoneAssumption ==
  /\ None \notin Procs /\ None \notin Worktrees /\ None \notin Urls
  /\ None \notin Nat
ASSUME InitialAssumption == InitialUrls \subseteq [Files -> Urls]
ASSUME BoundsAssumption ==
  MaxImages \in Nat /\ MaxGit \in Nat /\ MaxCrashes \in Nat

VARIABLES
  target,   \* [Files -> image]: the published configuration files
  lock,     \* [Files -> image or None]: <file>.lock
  private,  \* [Files -> set of images]: reserved private files
  control,  \* worktrees whose journal directory exists
  journal,  \* [Worktrees -> intent or None]
  claim,    \* [Worktrees -> transaction or None]: the claim in its module
  holder,   \* process holding the update lock and the common config lock
  op,       \* [Procs -> what the process is doing]
  fresh,    \* identities handed out so far
  git,      \* identities of stock Git's edits
  done,     \* [Files -> edits that have returned to their writer]
  crashes   \* interruptions so far

disk == <<target, lock, private, control, journal, claim>>
count == <<fresh, git, done, crashes>>
vars == <<disk, holder, op, count>>

-----------------------------------------------------------------------------
Planned == 0
Ready == 1
Applied(k) == k + 1      \* DeclarationApplied, SuperprojectApplied, ModuleApplied

Ids == 0 .. MaxImages
Image == [id : Ids, url : Urls \cup {None}, edits : SUBSET Ids]
Blank(n) == [id |-> n, url |-> None, edits |-> {}]

\* What the journal records: the transaction, its phase, the before-images,
\* the participants it changes and those whose private file it has recorded.
Intent == [tx : Ids, phase : Planned .. Applied(3), url : Urls,
           before : UNION {[cs -> Image] : cs \in SUBSET Parts},
           changed : SUBSET Parts,
           reserved : SUBSET Parts]

ASSUME AbsentAssumption == None \notin Image /\ None \notin Intent

\* Mutant: the after-image is rendered from the request, not from the file read.
AfterBare(j, c) == [id |-> j.tx, url |-> j.url, edits |-> {}]
After(j, c) == [id |-> j.tx, url |-> j.url, edits |-> j.before[c].edits]

Idle == [pc |-> "idle", wt |-> None, url |-> None, k |-> 1, again |-> FALSE,
         recovering |-> FALSE, detached |-> FALSE, seen |-> None]

Pcs == {"check", "plan", "claim", "control", "intent", "reserve", "record",
        "prepare", "ready", "apply", "swap", "unlock", "advance", "validate",
        "discard", "retire", "unclaim"}

\* The participant and the file the process is working on.
Part(p) == Order[op[p].k]
Here(p) == File(op[p].wt, Part(p))
Joins(p) == Part(p) \in Participants[op[p].wt]
Changes(p) == Joins(p) /\ Part(p) \in op[p].seen.changed
Before(p) == op[p].seen.before[Part(p)]
Published(p) == After(op[p].seen, Part(p))

\* ensure_active_set_url_intent: the journal is still the one the process read.
Active(p) == journal[op[p].wt] = op[p].seen

HasModule(w) == "module" \in Participants[w]

Init ==
  /\ \E url \in InitialUrls :
       target = [f \in Files |-> [id |-> 0, url |-> url[f], edits |-> {}]]
  /\ lock = [f \in Files |-> None]
  /\ private = [f \in Files |-> {}]
  /\ control = {}
  /\ journal = [w \in Worktrees |-> None]
  /\ claim = [w \in Worktrees |-> None]
  /\ holder = None
  /\ op = [p \in Procs |-> Idle]
  /\ fresh = 0
  /\ git = {}
  /\ done = [f \in Files |-> {}]
  /\ crashes = 0

\* The process goes on at pc with its other fields as in o.
Goto(p, pc, o) == op' = [op EXCEPT ![p] = [o EXCEPT !.pc = pc]] /\ UNCHANGED holder

\* The process returns to its caller or dies; the locks are the kernel's.
Leave(p) == op' = [op EXCEPT ![p] = Idle] /\ holder' = None

\* A file operation runs on a blocking worker that keeps the lease alive: when
\* the caller was cancelled the locks go with the end of the operation.
Worked(p, pc, o) == IF op[p].detached THEN Leave(p) ELSE Goto(p, pc, o)

\* Go on with the next participant, or at pc after the last one.
EachPart(p, same, pc) ==
  IF op[p].k < 3 THEN Worked(p, same, [op[p] EXCEPT !.k = @ + 1])
                 ELSE Worked(p, pc, [op[p] EXCEPT !.k = 1])

-----------------------------------------------------------------------------
(* Entering: locks, recovery of an own journal, journals of other worktrees *)

\* validate_recorded_module_claim: the claim the intent recorded, or none where
\* none can have been published or it is about to be retired.
ClaimMatches(w, j) ==
  HasModule(w) => \/ claim[w] = j.tx
                  \/ claim[w] = None /\ j.phase \in {Planned, Applied(3)}

\* Mutant: a transaction that is ready but has not advanced is abandoned.
RollsForwardLate(j) == j.phase > Ready
RollsForward(j) == j.phase >= Ready

\* A URL is a set-url or sync request; None is resume_pending_set_url, which
\* does nothing where there is no journal directory.
Start(p, w, u) ==
  /\ op[p] = Idle
  /\ holder = None
  /\ u = None => w \in control
  /\ holder' = p
  /\ \/ /\ journal[w] # None
        /\ ClaimMatches(w, journal[w])
        /\ op' = [op EXCEPT ![p] =
             [Idle EXCEPT !.pc = IF RollsForward(journal[w]) THEN "apply" ELSE "discard",
                          !.wt = w, !.url = u, !.recovering = TRUE,
                          !.seen = journal[w]]]
        /\ UNCHANGED control
     \/ /\ journal[w] = None
        /\ control' = control \ {w}
        /\ op' = [op EXCEPT ![p] = [Idle EXCEPT !.pc = "check", !.wt = w, !.url = u]]
  /\ UNCHANGED <<target, lock, private, journal, claim, count>>

Check(p) ==
  /\ op[p].pc = "check"
  /\ IF op[p].url = None \/ \E v \in Worktrees \ {op[p].wt} : v \in control
       THEN Leave(p)
       ELSE Goto(p, "plan", op[p])
  /\ UNCHANGED <<disk, count>>

\* A claim of this worktree without a journal is left over from a crash.
ClearOrphan(p) ==
  /\ op[p].pc = "plan"
  /\ claim[op[p].wt] # None
  /\ claim' = [claim EXCEPT ![op[p].wt] = None]
  /\ UNCHANGED <<target, lock, private, control, journal, holder, op, count>>

\* Read every participant and build the intent; return when nothing changes.
Plan(p) ==
  LET w == op[p].wt
      before == [c \in Participants[w] |-> target[File(w, c)]]
      changed == {c \in Participants[w] : before[c].url # op[p].url}
      j == [tx |-> fresh + 1, phase |-> Planned, url |-> op[p].url,
            before |-> before, changed |-> changed, reserved |-> {}]
  IN /\ op[p].pc = "plan"
     /\ claim[w] = None
     /\ IF changed = {} \/ fresh = MaxImages
          THEN Leave(p) /\ UNCHANGED fresh
          ELSE /\ Goto(p, IF HasModule(w) THEN "claim" ELSE "control",
                       [op[p] EXCEPT !.seen = j, !.recovering = FALSE])
               /\ fresh' = fresh + 1
     /\ UNCHANGED <<disk, git, done, crashes>>

-----------------------------------------------------------------------------
(* Before Ready: claim, journal, private after-images *)

PublishClaim(p) ==
  /\ op[p].pc = "claim"
  /\ claim[op[p].wt] = None
  /\ claim' = [claim EXCEPT ![op[p].wt] = op[p].seen.tx]
  /\ Goto(p, "control", op[p])
  /\ UNCHANGED <<target, lock, private, control, journal, count>>

MakeControl(p) ==
  /\ op[p].pc = "control"
  /\ control' = control \cup {op[p].wt}
  /\ Goto(p, "intent", op[p])
  /\ UNCHANGED <<target, lock, private, journal, claim, count>>

PublishIntent(p) ==
  /\ op[p].pc = "intent"
  /\ journal' = [journal EXCEPT ![op[p].wt] = op[p].seen]
  /\ Goto(p, "reserve", op[p])
  /\ UNCHANGED <<target, lock, private, control, claim, count>>

\* reserve_file_at_if_current: an empty private file beside an unchanged target.
CanReserve(p) == Active(p) /\ (Joins(p) => target[Here(p)] = Before(p))
Reserve(p) ==
  /\ op[p].pc = "reserve"
  /\ CanReserve(p)
  /\ IF Changes(p)
       THEN private' = [private EXCEPT ![Here(p)] = @ \cup {Blank(op[p].seen.tx)}]
       ELSE UNCHANGED private
  /\ Worked(p, "record", op[p])
  /\ UNCHANGED <<target, lock, control, journal, claim, count>>

\* Mutant: Ready is recorded before the after-images are written.
RecordSkips(p) ==
  LET j == [op[p].seen EXCEPT !.reserved = IF Joins(p) THEN @ \cup {Part(p)} ELSE @]
      last == op[p].k = 3
  IN /\ op[p].pc = "record"
     /\ Active(p)
     /\ journal' = [journal EXCEPT ![op[p].wt] = j]
     /\ Goto(p, IF last THEN "ready" ELSE "reserve",
             [op[p] EXCEPT !.seen = j, !.k = IF last THEN 1 ELSE @ + 1])
     /\ UNCHANGED <<target, lock, private, control, claim, count>>

\* The journal learns the private file only after it exists.
Record(p) ==
  LET j == [op[p].seen EXCEPT !.reserved = IF Joins(p) THEN @ \cup {Part(p)} ELSE @]
      last == op[p].k = 3
  IN /\ op[p].pc = "record"
     /\ Active(p)
     /\ journal' = [journal EXCEPT ![op[p].wt] = j]
     /\ Goto(p, IF last THEN "prepare" ELSE "reserve",
             [op[p] EXCEPT !.seen = j, !.k = IF last THEN 1 ELSE @ + 1])
     /\ UNCHANGED <<target, lock, private, control, claim, count>>

\* prepare_reserved_file_at: write the after-image of the unchanged target.
CanPrepare(p) ==
  /\ Active(p)
  /\ Changes(p) => /\ target[Here(p)] = Before(p)
                   /\ Blank(op[p].seen.tx) \in private[Here(p)]
Prepare(p) ==
  /\ op[p].pc = "prepare"
  /\ CanPrepare(p)
  /\ IF Changes(p)
       THEN private' = [private EXCEPT
              ![Here(p)] = (@ \ {Blank(op[p].seen.tx)}) \cup {Published(p)}]
       ELSE UNCHANGED private
  /\ EachPart(p, "prepare", "ready")
  /\ UNCHANGED <<target, lock, control, journal, claim, count>>

MarkReady(p) ==
  LET j == [op[p].seen EXCEPT !.phase = Ready]
  IN /\ op[p].pc = "ready"
     /\ Active(p)
     /\ journal' = [journal EXCEPT ![op[p].wt] = j]
     /\ Goto(p, "apply", [op[p] EXCEPT !.seen = j])
     /\ UNCHANGED <<target, lock, private, control, claim, count>>

-----------------------------------------------------------------------------
(* From Ready on: publish each participant in order, twice, then retire *)

\* publish_prepared_file_at: the image moves to <file>.lock, changes places
\* with the target, and the displaced file is removed from <file>.lock.  A
\* crash between the three is recognised by the identities under the names.
AtPrivate(p) ==
  /\ target[Here(p)] = Before(p)
  /\ Published(p) \in private[Here(p)]
  /\ lock[Here(p)] = None
AtLock(p) ==
  /\ target[Here(p)] = Before(p)
  /\ Published(p) \notin private[Here(p)]
  /\ lock[Here(p)] = Published(p)
\* Mutant: the displaced file under <file>.lock is taken for somebody's lock.
AtTargetTidy(p) ==
  /\ target[Here(p)] = Published(p)
  /\ Published(p) \notin private[Here(p)]
  /\ lock[Here(p)] = None
AtTarget(p) ==
  /\ target[Here(p)] = Published(p)
  /\ Published(p) \notin private[Here(p)]
  /\ lock[Here(p)] \in {None, Before(p)}

CanApply(p) ==
  /\ Active(p)
  /\ IF Changes(p) THEN AtPrivate(p) \/ AtLock(p) \/ AtTarget(p)
                   ELSE Joins(p) => target[Here(p)] = Before(p)
Apply(p) ==
  /\ op[p].pc = "apply"
  /\ CanApply(p)
  /\ IF Changes(p) /\ AtPrivate(p)
       THEN /\ lock' = [lock EXCEPT ![Here(p)] = Published(p)]
            /\ private' = [private EXCEPT ![Here(p)] = @ \ {Published(p)}]
       ELSE UNCHANGED <<lock, private>>
  /\ IF Changes(p) /\ ~AtTarget(p) THEN Goto(p, "swap", op[p])
     ELSE IF Changes(p) THEN Goto(p, "unlock", op[p])
     ELSE Worked(p, "advance", op[p])
  /\ UNCHANGED <<target, control, journal, claim, count>>

CanSwap(p) == target[Here(p)] = Before(p) /\ lock[Here(p)] = Published(p)
Swap(p) ==
  /\ op[p].pc = "swap"
  /\ CanSwap(p)
  /\ target' = [target EXCEPT ![Here(p)] = Published(p)]
  /\ lock' = [lock EXCEPT ![Here(p)] = target[Here(p)]]
  /\ Goto(p, "unlock", op[p])
  /\ UNCHANGED <<private, control, journal, claim, count>>

CanUnlock(p) == lock[Here(p)] \in {None, Before(p)}
Unlock(p) ==
  /\ op[p].pc = "unlock"
  /\ CanUnlock(p)
  /\ lock' = [lock EXCEPT ![Here(p)] = None]
  /\ Worked(p, "advance", op[p])
  /\ UNCHANGED <<target, private, control, journal, claim, count>>

\* Mutant: the phase advances on every pass.
AdvanceAlways(p) ==
  LET k == op[p].k
      j == [op[p].seen EXCEPT !.phase = @ + 1]
      o == [op[p] EXCEPT !.seen = j]
  IN /\ op[p].pc = "advance"
     /\ Active(p)
     /\ journal' = [journal EXCEPT ![op[p].wt] = j]
     /\ IF k < 3 THEN Goto(p, "apply", [o EXCEPT !.k = k + 1])
        ELSE IF ~o.again THEN Goto(p, "apply", [o EXCEPT !.k = 1, !.again = TRUE])
        ELSE Goto(p, "validate", [o EXCEPT !.k = 1])
     /\ UNCHANGED <<target, lock, private, control, claim, count>>

\* The phase only grows; the second pass and a recovery find it grown already.
Advance(p) ==
  LET k == op[p].k
      j == IF op[p].seen.phase < Applied(k)
             THEN [op[p].seen EXCEPT !.phase = Applied(k)] ELSE op[p].seen
      o == [op[p] EXCEPT !.seen = j]
  IN /\ op[p].pc = "advance"
     /\ Active(p)
     /\ journal' = [journal EXCEPT ![op[p].wt] = j]
     /\ IF k < 3 THEN Goto(p, "apply", [o EXCEPT !.k = k + 1])
        ELSE IF ~o.again THEN Goto(p, "apply", [o EXCEPT !.k = 1, !.again = TRUE])
        ELSE Goto(p, "validate", [o EXCEPT !.k = 1])
     /\ UNCHANGED <<target, lock, private, control, claim, count>>

\* validate_set_url_effective_participants: the two repository configurations
\* are the published ones (.gitmodules is not read again).
CanValidate(p) ==
  LET j == op[p].seen
      w == op[p].wt
  IN /\ Active(p)
     /\ \A c \in Participants[w] \ {"declaration"} :
          target[File(w, c)] = IF c \in j.changed THEN After(j, c) ELSE j.before[c]
Validate(p) ==
  /\ op[p].pc = "validate"
  /\ CanValidate(p)
  /\ Goto(p, "retire", op[p])
  /\ UNCHANGED <<disk, count>>

\* Recovery of a transaction that never became ready.  The private file is
\* removed under its recorded name, beside an unchanged target only.
Recorded(p) == Changes(p) /\ Part(p) \in op[p].seen.reserved
CanDiscard(p) == Active(p) /\ (Recorded(p) => target[Here(p)].id = Before(p).id)
Discard(p) ==
  /\ op[p].pc = "discard"
  /\ CanDiscard(p)
  /\ IF Recorded(p)
       THEN private' = [private EXCEPT
              ![Here(p)] = {i \in @ : i.id # op[p].seen.tx}]
       ELSE UNCHANGED private
  /\ EachPart(p, "discard", "retire")
  /\ UNCHANGED <<target, lock, control, journal, claim, count>>

\* clear_set_url_intent renames the journal directory away, then the claim goes.
Retire(p) ==
  /\ op[p].pc = "retire"
  /\ Active(p)
  /\ journal' = [journal EXCEPT ![op[p].wt] = None]
  /\ control' = control \ {op[p].wt}
  /\ Goto(p, "unclaim", op[p])
  /\ UNCHANGED <<target, lock, private, claim, count>>

CanUnclaim(p) ==
  HasModule(op[p].wt) => claim[op[p].wt] \in {None, op[p].seen.tx}
Unclaim(p) ==
  /\ op[p].pc = "unclaim"
  /\ CanUnclaim(p)
  /\ claim' = [claim EXCEPT ![op[p].wt] = None]
  /\ IF op[p].recovering
       THEN Goto(p, "check", [Idle EXCEPT !.wt = op[p].wt, !.url = op[p].url])
       ELSE Leave(p)
  /\ UNCHANGED <<target, lock, private, control, journal, count>>

-----------------------------------------------------------------------------
(* Interruptions and the other writers *)

\* A step whose precondition has gone returns an error and leaves the journal.
Fail(p) ==
  /\ \/ op[p].pc \in {"record", "ready", "advance", "retire"} /\ ~Active(p)
     \/ op[p].pc = "claim" /\ claim[op[p].wt] # None
     \/ op[p].pc = "reserve" /\ ~CanReserve(p)
     \/ op[p].pc = "prepare" /\ ~CanPrepare(p)
     \/ op[p].pc = "apply" /\ ~CanApply(p)
     \/ op[p].pc = "swap" /\ ~CanSwap(p)
     \/ op[p].pc = "unlock" /\ ~CanUnlock(p)
     \/ op[p].pc = "validate" /\ ~CanValidate(p)
     \/ op[p].pc = "discard" /\ ~CanDiscard(p)
     \/ op[p].pc = "unclaim" /\ ~CanUnclaim(p)
  /\ Leave(p)
  /\ UNCHANGED <<disk, count>>

\* A kill, or an I/O error anywhere: the kernel drops the locks.
Crash(p) ==
  /\ op[p].pc # "idle"
  /\ crashes < MaxCrashes
  /\ crashes' = crashes + 1
  /\ Leave(p)
  /\ UNCHANGED <<disk, fresh, git, done>>

\* The caller's future is dropped while a blocking file operation runs.
Working == {"reserve", "prepare", "apply", "swap", "unlock", "discard"}
Cancel(p) ==
  /\ op[p].pc \in Working
  /\ ~op[p].detached
  /\ crashes < MaxCrashes
  /\ crashes' = crashes + 1
  /\ op' = [op EXCEPT ![p].detached = TRUE]
  /\ UNCHANGED <<disk, holder, fresh, git, done>>

\* A set-url holds the config lock of its module from planning to the end.
ModuleLeased(w) == \E p \in Procs :
  op[p].wt = w /\ op[p].pc \notin {"idle", "check", "plan"}

\* Mutant: a nested command looks for its own journals, not for a claim.
MayEditUnclaimed(f) ==
  IF f[1] = "module" THEN ~ModuleLeased(f[2]) ELSE holder = None /\ control = {}
\* Another gitana command that edits a configuration file: under the config
\* lock of the file's repository, and only when no journal of any worktree, or
\* no claim, is pending there.
MayEdit(f) ==
  IF f[1] = "module" THEN ~ModuleLeased(f[2]) /\ claim[f[2]] = None
                     ELSE holder = None /\ control = {}
Edit(f) ==
  /\ MayEdit(f)
  /\ lock[f] = None
  /\ fresh < MaxImages
  /\ fresh' = fresh + 1
  /\ target' = [target EXCEPT ![f] = [target[f] EXCEPT !.id = fresh + 1,
                                                      !.edits = @ \cup {fresh + 1}]]
  /\ done' = [done EXCEPT ![f] = @ \cup {fresh + 1}]
  /\ UNCHANGED <<lock, private, control, journal, claim, holder, op, git, crashes>>

\* Stock Git honours <file>.lock and nothing else.
GitLock(f) ==
  /\ lock[f] = None
  /\ fresh < MaxImages
  /\ Cardinality(git) < MaxGit
  /\ fresh' = fresh + 1
  /\ git' = git \cup {fresh + 1}
  /\ lock' = [lock EXCEPT ![f] = [target[f] EXCEPT !.id = fresh + 1,
                                                  !.edits = @ \cup {fresh + 1}]]
  /\ UNCHANGED <<target, private, control, journal, claim, holder, op, done, crashes>>

GitCommit(f) ==
  /\ lock[f] # None
  /\ lock[f].id \in git \ target[f].edits
  /\ target' = [target EXCEPT ![f] = lock[f]]
  /\ lock' = [lock EXCEPT ![f] = None]
  /\ done' = [done EXCEPT ![f] = @ \cup {lock[f].id}]
  /\ UNCHANGED <<private, control, journal, claim, holder, op, fresh, git, crashes>>

-----------------------------------------------------------------------------
Step(p) ==
  \/ Check(p) \/ ClearOrphan(p) \/ Plan(p)
  \/ PublishClaim(p) \/ MakeControl(p) \/ PublishIntent(p)
  \/ Reserve(p) \/ Record(p) \/ Prepare(p) \/ MarkReady(p)
  \/ Apply(p) \/ Swap(p) \/ Unlock(p) \/ Advance(p) \/ Validate(p)
  \/ Discard(p) \/ Retire(p) \/ Unclaim(p) \/ Fail(p)

Retry(w) == \E p \in Procs, u \in Urls : Start(p, w, u)

Next ==
  \/ \E p \in Procs :
       \/ Step(p) \/ Crash(p) \/ Cancel(p)
       \/ \E w \in Worktrees, u \in Urls \cup {None} : Start(p, w, u)
  \/ \E f \in Files : Edit(f) \/ GitLock(f) \/ GitCommit(f)

Spec == Init /\ [][Next]_vars

\* A running process goes on, stock Git finishes what it locked, and a user
\* whose command left a recovery behind runs set-url again.
FairSpec ==
  /\ Spec
  /\ \A p \in Procs : WF_vars(Step(p))
  /\ \A f \in Files : WF_vars(GitCommit(f))
  /\ \A w \in Worktrees : SF_vars(Retry(w))

-----------------------------------------------------------------------------
TypeOK ==
  /\ target \in [Files -> Image]
  /\ lock \in [Files -> Image \cup {None}]
  /\ private \in [Files -> SUBSET Image]
  /\ control \subseteq Worktrees
  /\ journal \in [Worktrees -> Intent \cup {None}]
  /\ claim \in [Worktrees -> Ids \cup {None}]
  /\ holder \in Procs \cup {None}
  /\ op \in [Procs -> [pc : Pcs \cup {"idle"}, wt : Worktrees \cup {None},
                       url : Urls \cup {None}, k : 1 .. 3, again : BOOLEAN,
                       recovering : BOOLEAN, detached : BOOLEAN,
                       seen : Intent \cup {None}]]
  /\ fresh \in Ids
  /\ git \subseteq Ids
  /\ done \in [Files -> SUBSET Ids]
  /\ crashes \in 0 .. MaxCrashes

\* No edit whose writer was told it succeeded is ever missing from its file:
\* neither a publication from a stale after-image nor a recovery undoes it.
NoEditLost == \A f \in Files : done[f] \subseteq target[f].edits

\* While a transaction is pending, a participant's file is the one the journal
\* names before or after, or stock Git replaced it: no other gitana command (an
\* edit of the superproject, one inside the module, a transaction of another
\* worktree, a worker outliving its caller) makes the recovery impossible.
OnlyGitOvertakes ==
  \A w \in Worktrees : journal[w] # None =>
    \A c \in Participants[w] :
      LET now == target[File(w, c)].id
      IN now = journal[w].before[c].id \/ now = journal[w].tx \/ now \in git

\* Once the journal says Ready, what is still to publish is complete and under
\* the one name recovery looks for; what is published left nothing behind but
\* the displaced file, and the claim keeps nested writers out until the end.
ReadyCanFinish ==
  \A w \in Worktrees : journal[w] # None /\ journal[w].phase >= Ready =>
    LET j == journal[w]
    IN /\ HasModule(w) => claim[w] = j.tx
       /\ \A c \in j.changed :
            LET f == File(w, c)
                staged == After(j, c) \in private[f]
                locked == lock[f] = After(j, c)
                out == j.tx \notin {i.id : i \in private[f]} /\ ~locked
            IN \/ staged /\ ~locked
               \/ locked /\ ~staged
               \/ out /\ (target[f] = After(j, c) \/ target[f].id \in git)

\* A recovery that stock Git made impossible: a file the journal names was
\* replaced while the transaction was pending.
Overtaken(w) ==
  journal[w] # None /\ \E c \in Participants[w] :
    target[File(w, c)].id \notin {journal[w].before[c].id, journal[w].tx}

Pending(w) == w \in control \/ claim[w] # None

\* Every journal and every claim a crash leaves is retired when the owner runs
\* set-url again, unless stock Git edited a participant in between.
RecoverySettles ==
  \A w \in Worktrees :
    Pending(w) ~> (~Pending(w) \/ \E v \in Worktrees : Overtaken(v))
=============================================================================
