-------------------------- MODULE RefContractProofs --------------------------
(***************************************************************************)
(* The ref-transaction protocol implements RefContract, for every number of *)
(* refs, gitana processes, stock git processes, retries and crashes.        *)
(***************************************************************************)
EXTENDS RefTransactionContract, RefTransactionProofs

\* A move publishes a value; a delete has unlinked the loose file when it turns
\* to packed-refs, and nobody makes one meanwhile.
KindOf(p) ==
    /\ pc[p] \in {"log", "write"} => CurOp(p).new # None
    /\ pc[p] \in {"unlink", "readpacked", "rewrite", "unlog"} => CurOp(p).new = None
    /\ pc[p] \in {"readpacked", "rewrite", "unlog"} => loose[cur[p]] = None

Kind == \A p \in Procs : KindOf(p)

DeleteInv == IndInv /\ Kind

-----------------------------------------------------------------------------
(***************************************************************************)
(* Kind.                                                                   *)
(***************************************************************************)

\* A loose file is made only under the lock of its ref.
MakesOwn(o) == \A n \in Refs : loose'[n] # loose[n] /\ loose'[n] # None => lock[n] = o

\* A gitana process makes a loose file only under its lock (commit_op).
LEMMA ProcessMakesOwn ==
    ASSUME IndInv, NEW p \in Procs, OpStep(p)
    PROVE  MakesOwn(p)
<1>1. CASE WriteRef(p) \/ Unlink(p)
  <2>1. cur[p] \in Refs /\ lock[cur[p]] = p
    BY <1>1, BatchLocked
       DEF WriteRef, Unlink, At, Control, ControlOf, OnOp, Committing, IndInv, Holding
  <2>2. \A n \in Refs \ {cur[p]} : loose'[n] = loose[n]
    BY <1>1 DEF WriteRef, Unlink, IndInv, TypeOK, DiskOK
  <2> QED BY <2>1, <2>2 DEF MakesOwn
<1>2. CASE ~(WriteRef(p) \/ Unlink(p))
  <2>1. UNCHANGED loose
    BY <1>2
       DEF OpStep, Transact, SetSymbolic, Submit, Crash, RemoveOrphanLocks, ProcessStep,
           AcquireLease, LeaseBackoff, LeaseTimeout, PlanLocks, AcquireLock, LockBackoff,
           LockTimeout, LockBlocked, Confirm, HeadMoved, ValidateOp, RejectOp, AllValid, BeginOp,
           LogRef, LogRefBlocked, LogHead, CommitBlocked, ReadPacked, PackedUndecodable, DropLog,
           RewritePacked, Committed, LogSwitch, SetHead, Release, PruneParents,
           DropLease, Fail, disk
  <2> QED BY <2>1 DEF MakesOwn
<1> QED BY <1>1, <1>2

\* So does stock git; pack-refs only drops files.
LEMMA GitMakesOwn ==
    ASSUME IndInv, NEW g \in Gits, GitStep(g)
    PROVE  MakesOwn(g)
<1>1. CASE GitUpdate(g) \/ GitDelete(g)
  <2>1. git[g].ref \in Refs /\ lock[git[g].ref] = g
    BY <1>1 DEF GitUpdate, GitDelete, GitHoldsOf, Control, IndInv, Holding
  <2>2. \A n \in Refs \ {git[g].ref} : loose'[n] = loose[n]
    BY <1>1 DEF GitUpdate, GitDelete, IndInv, TypeOK, DiskOK
  <2> QED BY <2>1, <2>2 DEF MakesOwn
<1>2. CASE GitPrune(g)
  BY <1>2 DEF GitPrune, MakesOwn, IndInv, TypeOK, DiskOK
<1>3. CASE ~(GitUpdate(g) \/ GitDelete(g) \/ GitPrune(g))
  <2>1. UNCHANGED loose
    BY <1>3 DEF GitStep, GitLockRef, GitLockPacked, GitAbort, GitPackLock, GitPack, GitSwitch, disk
  <2> QED BY <2>1 DEF MakesOwn
<1> QED BY <1>1, <1>2, <1>3

\* The ref a process works on is locked by it.
LEMMA CurLocked ==
    ASSUME IndInv, NEW p \in Procs, pc[p] \in OnOp
    PROVE  /\ cur[p] \in Refs /\ lock[cur[p]] = p /\ lock[PackedLock] = p
           /\ cur[p] \in todo[p] /\ cur[p] \in DOMAIN plan[p] /\ target[p] = None
           /\ CurOp(p) = plan[p][cur[p]]
BY BatchLocked DEF IndInv, Control, ControlOf, Holding, OnOp, Committing, CurOp

\* Another participant's step leaves a process's kind of op alone.
LEMMA KindKept ==
    ASSUME IndInv, NEW q \in Procs, KindOf(q), Kept(q), NEW o, o # q, MakesOwn(o)
    PROVE  KindOf(q)'
<1>1. pc'[q] = pc[q] /\ cur'[q] = cur[q] /\ CurOp(q)' = CurOp(q)
  BY DEF Kept, CurOp
<1>2. pc[q] \in {"readpacked", "rewrite", "unlog"} => cur[q] \in Refs /\ lock[cur[q]] = q
  BY CurLocked DEF OnOp, Committing
<1>3. pc[q] \in {"readpacked", "rewrite", "unlog"} => loose'[cur[q]] = None
  BY <1>2 DEF KindOf, MakesOwn
<1> QED BY <1>1, <1>3 DEF KindOf

\* A process's own step keeps it.
LEMMA KindOwn ==
    ASSUME IndInv, NEW p \in Procs, KindOf(p), OpStep(p)
    PROVE  KindOf(p)'
<1> USE DEF At
<1>1. CASE pc'[p] \notin OnOp
  BY <1>1 DEF KindOf, OnOp, Committing
<1>2. CASE BeginOp(p)
  <2>1. PICK n \in todo[p] :
          /\ cur'[p] = n /\ plan' = plan
          /\ pc'[p] = IF plan[p][n].new = None THEN "headlog" ELSE "log"
    BY <1>2 DEF BeginOp, IndInv, TypeOK, WorkOK, request
  <2> QED BY <2>1 DEF KindOf, CurOp
<1>3. CASE LogRef(p)
  <2>1. pc'[p] = "headlog"
    BY <1>3 DEF LogRef, IndInv, TypeOK, WorkOK
  <2> QED BY <2>1 DEF KindOf
<1>4. CASE LogHead(p)
  <2>1. /\ CurOp(p)' = CurOp(p)
        /\ pc'[p] = IF CurOp(p).new = None THEN "unlink" ELSE "write"
    BY <1>4 DEF LogHead, IndInv, TypeOK, WorkOK, request, work, CurOp
  <2> QED BY <2>1 DEF KindOf
<1>5. CASE Unlink(p)
  <2>1. cur[p] \in Refs
    BY <1>5, CurLocked DEF Unlink, OnOp, Committing
  <2>2. /\ CurOp(p)' = CurOp(p) /\ pc[p] = "unlink" /\ pc'[p] = "readpacked"
        /\ loose'[cur'[p]] = None
    BY <1>5, <2>1 DEF Unlink, IndInv, TypeOK, WorkOK, DiskOK, request, work, CurOp
  <2> QED BY <2>2 DEF KindOf
<1>6. CASE ReadPacked(p)
  <2>1. /\ CurOp(p)' = CurOp(p) /\ pc[p] = "readpacked" /\ pc'[p] = "rewrite"
        /\ loose'[cur'[p]] = loose[cur[p]]
    BY <1>6 DEF ReadPacked, IndInv, TypeOK, WorkOK, disk, request, CurOp
  <2> QED BY <2>1 DEF KindOf
<1>7. CASE RewritePacked(p)
  <2>1. /\ CurOp(p)' = CurOp(p) /\ pc[p] = "rewrite" /\ pc'[p] = "unlog"
        /\ loose'[cur'[p]] = loose[cur[p]]
    BY <1>7 DEF RewritePacked, IndInv, TypeOK, WorkOK, request, work, CurOp
  <2> QED BY <2>1 DEF KindOf
<1>8. CASE Crash(p)
  BY <1>8 DEF Crash, disk, request, work, KindOf, CurOp
<1>9. CASE \/ Transact(p) \/ SetSymbolic(p) \/ AcquireLease(p) \/ LeaseBackoff(p)
           \/ LeaseTimeout(p) \/ PlanLocks(p) \/ AcquireLock(p) \/ LockBackoff(p)
  <2>1. pc'[p] \in {"idle", "lease", "plan", "lock"}
    BY <1>9 DEF Transact, SetSymbolic, Submit, AcquireLease, LeaseBackoff, LeaseTimeout,
                PlanLocks, AcquireLock, LockBackoff, Locking, IndInv, TypeOK, WorkOK
  <2> QED BY <1>1, <2>1 DEF OnOp, Committing
<1>10. CASE LogSwitch(p) \/ Release(p) \/ PruneParents(p) \/ DropLease(p) \/ RemoveOrphanLocks(p)
  <2>1. pc'[p] \in {"sethead", "release", "unlease", "idle"}
    BY <1>10 DEF LogSwitch, Release, PruneParents, DropLease, RemoveOrphanLocks, Forget,
                 IndInv, TypeOK, WorkOK
  <2> QED BY <1>1, <2>1 DEF OnOp, Committing
<1>11. CASE FailStep(p)
  <2>1. pc'[p] = "release"
    BY <1>11 DEF FailStep, LockTimeout, LockBlocked, HeadMoved, RejectOp, LogRefBlocked,
                 CommitBlocked, PackedUndecodable, Committed, SetHead, Fail, IndInv, TypeOK, WorkOK
  <2> QED BY <1>1, <2>1 DEF OnOp, Committing
<1>12. CASE Confirm(p) \/ ValidateOp(p) \/ AllValid(p) \/ WriteRef(p) \/ DropLog(p)
  <2>1. pc'[p] \in {"validate", "commit"}
    BY <1>12 DEF Confirm, ValidateOp, AllValid, WriteRef, DropLog, IndInv, TypeOK, WorkOK
  <2> QED BY <1>1, <2>1 DEF OnOp, Committing
<1> QED BY <1>2, <1>3, <1>4, <1>5, <1>6, <1>7, <1>8, <1>9, <1>10, <1>11, <1>12
        DEF OpStep, ProcessStep, FailStep

\* Every step keeps Kind: an op stays a move or a delete to its end.
LEMMA KindStep ==
    ASSUME IndInv, Kind, Next
    PROVE  Kind'
<1>1. CASE \E p \in Procs : OpStep(p)
  <2> PICK p \in Procs : OpStep(p)
    BY <1>1
  <2>1. KindOf(p)'
    BY KindOwn DEF Kind
  <2>2. ASSUME NEW q \in Procs \ {p} PROVE KindOf(q)'
    BY <2>2, OtherProcessKept, ProcessMakesOwn, KindKept DEF Kind, IndInv
  <2> QED BY <2>1, <2>2 DEF Kind
<1>2. CASE \E g \in Gits : GitStep(g)
  <2> PICK g \in Gits : GitStep(g)
    BY <1>2
  <2>1. ASSUME NEW q \in Procs PROVE KindOf(q)'
    <3>1. Kept(q) /\ g # q
      BY <2>1, GitKeepsProcess, OwnerAssumption DEF IndInv
    <3> QED BY <2>1, <3>1, GitMakesOwn, KindKept DEF Kind
  <2> QED BY <2>1 DEF Kind
<1> QED BY <1>1, <1>2 DEF Next, OpStep

\* The invariant the refinement rests on holds of every reachable state.
THEOREM DeleteInvariant == Spec => []DeleteInv
<1>1. Init => Kind
  BY DEF Init, Kind, KindOf
<1>2. IndInv /\ Kind /\ [Next]_vars => Kind'
  <2>1. CASE UNCHANGED vars
    BY <2>1 DEF vars, disk, request, work, Kind, KindOf, CurOp
  <2> QED BY <2>1, KindStep
<1>3. DeleteInv /\ IndInv' /\ [Next]_vars => DeleteInv'
  BY <1>2 DEF DeleteInv
<1>4. Init /\ IndInv => DeleteInv
  BY <1>1 DEF DeleteInv
<1> QED BY <1>3, <1>4, Invariant, PTL DEF Spec

-----------------------------------------------------------------------------
(***************************************************************************)
(* What the contract sees of a state.                                      *)
(***************************************************************************)

RefValues == [n \in Refs |-> LockedValue(n)]
Phases == [p \in Procs |-> PhaseOf(p)]
BatchOf(p) == IF PhaseOf(p) = "idle" THEN NoPlan ELSE plan[p]
Batches == [p \in Procs |-> BatchOf(p)]
Rests == [p \in Procs |-> RestOf(p)]

\* Whoever is deleting a ref holds its lock, and its value is the one expected.
LEMMA Deleted ==
    ASSUME IndInv, NEW p \in Procs, NEW n, MidDelete(p, n)
    PROVE  /\ n \in Refs /\ lock[n] = p
           /\ LockedValue(n) = plan[p][n].expected
<1>1. \A q \in Procs : MidDelete(q, n) => n \in Refs /\ lock[n] = q
  BY CurLocked DEF MidDelete, OnOp, Committing
<1>2. \A q \in Procs : MidDelete(q, n) => q = p
  BY <1>1
<1> QED BY <1>1, <1>2 DEF LockedValue

\* Any other ref has the value on disk.
LEMMA NotDeleted ==
    ASSUME NEW n, \A p \in Procs : ~MidDelete(p, n)
    PROVE  LockedValue(n) = Visible(n)
BY DEF LockedValue

\* A ref that lies where it lay, with the same deletes at work, has the same value.
LEMMA SameValue ==
    ASSUME IndInv, IndInv', NEW n \in Refs, Visible(n)' = Visible(n),
           \A q \in Procs : MidDelete(q, n)' <=> MidDelete(q, n),
           \A q \in Procs : MidDelete(q, n) => plan'[q] = plan[q]
    PROVE  LockedValue(n)' = LockedValue(n)
<1>1. CASE \E q \in Procs : MidDelete(q, n)
  <2>1. PICK q \in Procs : MidDelete(q, n)
    BY <1>1
  <2>2. LockedValue(n) = plan[q][n].expected
    BY <2>1, Deleted
  <2>3. MidDelete(q, n)' /\ plan'[q] = plan[q]
    BY <2>1
  <2>4. LockedValue(n)' = plan'[q][n].expected
    <3>1. \A r \in Procs : MidDelete(r, n)' => r = q
      BY <2>1, Deleted
    <3> QED BY <2>3, <3>1 DEF LockedValue
  <2> QED BY <2>2, <2>3, <2>4
<1>2. CASE \A q \in Procs : ~MidDelete(q, n)
  <2>1. LockedValue(n) = Visible(n)
    BY <1>2, NotDeleted
  <2>2. LockedValue(n)' = Visible(n)'
    BY <1>2 DEF LockedValue
  <2> QED BY <2>1, <2>2
<1> QED BY <1>1, <1>2

\* A process that does not move has the same phase, batch and rest.
LEMMA SameProcess ==
    ASSUME NEW q \in Procs, Kept(q)
    PROVE  /\ PhaseOf(q)' = PhaseOf(q) /\ BatchOf(q)' = BatchOf(q) /\ RestOf(q)' = RestOf(q)
           /\ \A n : MidDelete(q, n)' <=> MidDelete(q, n)
           /\ plan'[q] = plan[q]
BY DEF Kept, PhaseOf, BatchOf, RestOf, MidDelete

\* The refs a batch has accepted and not applied are locked by its process, and
\* no other process is deleting one of them.
LEMMA RestLocked ==
    ASSUME IndInv, NEW q \in Procs, NEW n \in RestOf(q)
    PROVE  /\ n \in Refs /\ lock[n] = q /\ n \in DOMAIN plan[q] /\ n \in todo[q]
           /\ pc[q] \in Committing /\ target[q] = None
<1>1. pc[q] \in Committing /\ n \in todo[q] /\ target[q] = None
  BY DEF RestOf, PhaseOf
<1>2. n \in DOMAIN plan[q]
  BY <1>1 DEF IndInv, Control, ControlOf
<1> QED BY <1>1, <1>2, BatchLocked DEF IndInv, Control, Holding

\* The value of such a ref is the expected one.
LEMMA RestExpected ==
    ASSUME IndInv, NEW q \in Procs, NEW n \in RestOf(q)
    PROVE  LockedValue(n) = plan[q][n].expected
<1>1. n \in todo[q] /\ pc[q] \in Committing /\ lock[n] = q
  BY RestLocked
<1>2. Visible(n) = plan[q][n].expected \/ Deleting(q, n)
  BY <1>1 DEF IndInv, Current, CurrentOf
<1>3. CASE MidDelete(q, n)
  BY <1>3, Deleted
<1>4. CASE ~MidDelete(q, n)
  <2>1. \A r \in Procs : ~MidDelete(r, n)
    BY <1>1, <1>4, Deleted
  <2>2. ~Deleting(q, n)
    BY <1>4 DEF Deleting, MidDelete, RestOf
  <2> QED BY <1>2, <2>1, <2>2, NotDeleted
<1> QED BY <1>3, <1>4

\* Only the process that steps changes its phase, its batch and its rest.
LEMMA OneProcess ==
    ASSUME IndInv, NEW p \in Procs, OpStep(p)
    PROVE  /\ Phases' = [Phases EXCEPT ![p] = PhaseOf(p)']
           /\ Batches' = [Batches EXCEPT ![p] = BatchOf(p)']
           /\ Rests' = [Rests EXCEPT ![p] = RestOf(p)']
<1>1. ASSUME NEW q \in Procs, q # p
      PROVE  PhaseOf(q)' = PhaseOf(q) /\ BatchOf(q)' = BatchOf(q) /\ RestOf(q)' = RestOf(q)
  BY <1>1, OtherProcessKept, SameProcess DEF IndInv
<1> QED BY <1>1 DEF Phases, Batches, Rests

\* The refs a process neither writes nor deletes keep their value.
LEMMA OtherValues ==
    ASSUME IndInv, IndInv', NEW p \in Procs, OpStep(p), NEW n \in Refs,
           Visible(n)' = Visible(n), MidDelete(p, n)' <=> MidDelete(p, n),
           MidDelete(p, n) => plan'[p] = plan[p]
    PROVE  LockedValue(n)' = LockedValue(n)
<1>1. ASSUME NEW q \in Procs
      PROVE  /\ MidDelete(q, n)' <=> MidDelete(q, n)
             /\ MidDelete(q, n) => plan'[q] = plan[q]
  BY <1>1, OtherProcessKept, SameProcess DEF IndInv
<1> QED BY <1>1, SameValue

\* No ref changes its value.
LEMMA NoValueChanges ==
    ASSUME \A n \in Refs : LockedValue(n)' = LockedValue(n)
    PROVE  RefValues' = RefValues
BY DEF RefValues

\* One ref changes its value.
LEMMA OneValueChanges ==
    ASSUME NEW n \in Refs, \A m \in Refs \ {n} : LockedValue(m)' = LockedValue(m)
    PROVE  RefValues' = [RefValues EXCEPT ![n] = LockedValue(n)']
BY DEF RefValues

\* The value of a ref is an object id or absent.
LEMMA ValueType ==
    ASSUME IndInv, NEW n \in Refs
    PROVE  LockedValue(n) \in Values
<1>1. CASE \E q \in Procs : MidDelete(q, n)
  <2>1. PICK q \in Procs : MidDelete(q, n)
    BY <1>1
  <2>2. n \in DOMAIN plan[q]
    BY <2>1, CurLocked DEF MidDelete, OnOp, Committing
  <2> QED BY <2>1, <2>2, Deleted, PlanOps DEF IndInv, TypeOK
<1>2. CASE \A q \in Procs : ~MidDelete(q, n)
  BY <1>2, NotDeleted, VisibleType DEF IndInv
<1> QED BY <1>1, <1>2

-----------------------------------------------------------------------------
(***************************************************************************)
(* The steps of a gitana process, as the contract sees them.               *)
(***************************************************************************)

\* What the contract sees does not change.
Unseen == RefValues' = RefValues /\ Phases' = Phases /\ Batches' = Batches /\ Rests' = Rests

\* A process leaves: whatever it was doing, the contract sees it idle again.
Leaves(p) ==
    /\ Phases' = [Phases EXCEPT ![p] = "idle"]
    /\ Batches' = [Batches EXCEPT ![p] = NoPlan]
    /\ Rests' = [Rests EXCEPT ![p] = {}]

\* A process the contract sees idle leaves.
LEMMA IdleLeaves ==
    ASSUME IndInv, NEW p \in Procs, OpStep(p), PhaseOf(p)' = "idle"
    PROVE  Leaves(p)
<1>1. BatchOf(p)' = NoPlan /\ RestOf(p)' = {}
  BY DEF BatchOf, RestOf
<1> QED BY <1>1, OneProcess DEF Leaves

\* Nothing is seen of a process that looks as before.
LEMMA SameLook ==
    ASSUME IndInv, NEW p \in Procs, OpStep(p),
           PhaseOf(p)' = PhaseOf(p), BatchOf(p)' = BatchOf(p), RestOf(p)' = RestOf(p)
    PROVE  Phases' = Phases /\ Batches' = Batches /\ Rests' = Rests
<1>1. /\ Phases' = [Phases EXCEPT ![p] = Phases[p]]
      /\ Batches' = [Batches EXCEPT ![p] = Batches[p]]
      /\ Rests' = [Rests EXCEPT ![p] = Rests[p]]
  BY OneProcess DEF Phases, Batches, Rests
<1> QED BY <1>1 DEF Phases, Batches, Rests

\* A process that is idle in the contract and stays so is not seen.
LEMMA StaysIdle ==
    ASSUME IndInv, NEW p \in Procs, OpStep(p), PhaseOf(p) = "idle", PhaseOf(p)' = "idle"
    PROVE  Phases' = Phases /\ Batches' = Batches /\ Rests' = Rests
BY SameLook DEF BatchOf, RestOf

\* A process that writes no ref and begins or ends no delete changes no value.
LEMMA QuietValues ==
    ASSUME IndInv, IndInv', NEW p \in Procs, OpStep(p), UNCHANGED <<loose, packed>>,
           \A n : MidDelete(p, n)' <=> MidDelete(p, n), plan'[p] = plan[p] \/ \A n : ~MidDelete(p, n)
    PROVE  RefValues' = RefValues
<1>1. ASSUME NEW n \in Refs PROVE LockedValue(n)' = LockedValue(n)
  <2>1. Visible(n)' = Visible(n)
    BY DEF Visible
  <2> QED BY <2>1, OtherValues
<1> QED BY <1>1, NoValueChanges

\* Submitting a transaction opens it (transact_checked).
LEMMA OpenStep ==
    ASSUME IndInv, IndInv', NEW p \in Procs, Transact(p)
    PROVE  \E batch \in Plans :
             /\ Phases[p] = "idle" /\ Phases' = [Phases EXCEPT ![p] = "open"]
             /\ Batches' = [Batches EXCEPT ![p] = batch] /\ Rests' = Rests
             /\ RefValues' = RefValues
<1>1. PICK batch \in Plans :
        plan'[p] = batch /\ target'[p] = None /\ pc[p] = "idle" /\ pc'[p] = "lease"
  BY DEF Transact, Submit, At, IndInv, TypeOK, RequestOK, WorkOK
<1>2. OpStep(p) /\ UNCHANGED <<loose, packed>>
  BY DEF OpStep, Transact, Submit, disk
<1>3. PhaseOf(p) = "idle" /\ PhaseOf(p)' = "open" /\ BatchOf(p)' = batch
  BY <1>1 DEF PhaseOf, BatchOf, Committing
<1>4. RestOf(p) = {} /\ RestOf(p)' = {}
  BY <1>3 DEF RestOf
<1>5. Rests' = Rests
  <2>1. Rests' = [Rests EXCEPT ![p] = Rests[p]]
    BY <1>2, <1>4, OneProcess DEF Rests
  <2> QED BY <2>1 DEF Rests
<1>6. \A n : ~MidDelete(p, n) /\ ~MidDelete(p, n)'
  BY <1>1 DEF MidDelete
<1> QED BY <1>2, <1>3, <1>5, <1>6, OneProcess, QuietValues DEF Phases

\* Once all its ops are valid a transaction is accepted (validate_locked).
LEMMA AcceptStep ==
    ASSUME IndInv, IndInv', NEW p \in Procs, AllValid(p)
    PROVE  /\ Phases[p] = "open"
           /\ \A n \in DOMAIN Batches[p] : RefValues[n] = Batches[p][n].expected
           /\ \A q \in Procs \ {p} : Rests[q] \cap DOMAIN Batches[p] = {}
           /\ Phases' = [Phases EXCEPT ![p] = "accepted"]
           /\ Rests' = [Rests EXCEPT ![p] = DOMAIN Batches[p]]
           /\ Batches' = Batches /\ RefValues' = RefValues
<1>1. /\ pc[p] = "validate" /\ pc'[p] = "commit" /\ todo[p] = {} /\ todo'[p] = DOMAIN plan[p]
      /\ plan' = plan /\ target' = target /\ target[p] = None
  BY DEF AllValid, At, request, IndInv, TypeOK, WorkOK, Control, ControlOf
<1>2. OpStep(p) /\ UNCHANGED <<loose, packed>>
  BY DEF OpStep, ProcessStep, AllValid, disk
<1>3. PhaseOf(p) = "open" /\ PhaseOf(p)' = "accepted" /\ BatchOf(p) = plan[p] /\ BatchOf(p)' = plan[p]
  BY <1>1 DEF PhaseOf, BatchOf, Committing
<1>4. RestOf(p)' = DOMAIN plan[p]
  BY <1>1, <1>3 DEF RestOf
<1>5. \A n \in DOMAIN plan[p] : n \in Refs /\ lock[n] = p
  BY <1>1, BatchLocked DEF IndInv, Control, Holding
<1>6. ASSUME NEW n \in DOMAIN plan[p] PROVE RefValues[n] = plan[p][n].expected
  <2>1. Visible(n) = plan[p][n].expected
    BY <1>1, <1>6 DEF IndInv, Current, CurrentOf
  <2>2. \A q \in Procs : ~MidDelete(q, n)
    <3>1. \A q \in Procs : MidDelete(q, n) => q = p
      BY <1>5, <1>6, Deleted
    <3> QED BY <1>1, <3>1 DEF MidDelete
  <2> QED BY <1>5, <1>6, <2>1, <2>2, NotDeleted DEF RefValues
<1>7. ASSUME NEW q \in Procs \ {p} PROVE RestOf(q) \cap DOMAIN plan[p] = {}
  BY <1>5, <1>7, RestLocked
<1>8. Batches' = Batches
  <2>1. Batches' = [Batches EXCEPT ![p] = Batches[p]]
    BY <1>2, <1>3, OneProcess DEF Batches
  <2> QED BY <2>1 DEF Batches
<1>9. RefValues' = RefValues
  <2>1. \A n : ~MidDelete(p, n) /\ ~MidDelete(p, n)'
    BY <1>1 DEF MidDelete
  <2> QED BY <1>2, <2>1, QuietValues
<1>10. Phases[p] = "open" /\ Batches[p] = plan[p] /\ \A q \in Procs : Rests[q] = RestOf(q)
  BY <1>3 DEF Phases, Batches, Rests
<1> QED BY <1>2, <1>3, <1>4, <1>6, <1>7, <1>8, <1>9, <1>10, OneProcess

\* Renaming a move's file over the ref, or rewriting packed-refs without a deleted
\* one, applies an accepted op (commit_op).
LEMMA ApplyStep ==
    ASSUME IndInv, IndInv', NEW p \in Procs, KindOf(p), WriteRef(p) \/ RewritePacked(p)
    PROVE  \E n \in Rests[p] :
             /\ RefValues[n] = Batches[p][n].expected
             /\ RefValues' = [RefValues EXCEPT ![n] = Batches[p][n].new]
             /\ Rests' = [Rests EXCEPT ![p] = @ \ {n}]
             /\ Phases' = Phases /\ Batches' = Batches
<1>1. PICK n : n = cur[p]
  OBVIOUS
<1>2. OpStep(p) /\ pc[p] \in OnOp
  BY DEF OpStep, ProcessStep, WriteRef, RewritePacked, At, OnOp, Committing
<1>3. /\ n \in Refs /\ lock[n] = p /\ n \in todo[p] /\ n \in DOMAIN plan[p] /\ target[p] = None
      /\ CurOp(p) = plan[p][n]
  BY <1>1, <1>2, CurLocked
<1>4. /\ plan' = plan /\ target' = target /\ pc[p] \in {"write", "rewrite"}
      /\ pc'[p] \in {"commit", "unlog"}
  BY DEF WriteRef, RewritePacked, At, request, IndInv, TypeOK, WorkOK
<1>5. /\ PhaseOf(p) = "accepted" /\ PhaseOf(p)' = "accepted"
      /\ BatchOf(p) = plan[p] /\ BatchOf(p)' = plan[p]
  BY <1>3, <1>4 DEF PhaseOf, BatchOf, Committing
<1>6. RestOf(p) = todo[p] /\ RestOf(p)' = todo[p] \ {n}
  <2>1. CASE WriteRef(p)
    <3>1. pc'[p] = "commit" /\ todo'[p] = todo[p] \ {n}
      BY <1>1, <2>1 DEF WriteRef, IndInv, TypeOK, WorkOK
    <3> QED BY <1>4, <1>5, <3>1 DEF RestOf
  <2>2. CASE RewritePacked(p)
    <3>1. pc'[p] = "unlog" /\ todo'[p] = todo[p] /\ cur'[p] = n
      BY <1>1, <2>2 DEF RewritePacked, work, IndInv, TypeOK, WorkOK
    <3> QED BY <1>4, <1>5, <3>1 DEF RestOf
  <2> QED BY <2>1, <2>2
<1>7. LockedValue(n) = plan[p][n].expected
  BY <1>3, <1>6, RestExpected
<1>8. Visible(n)' = plan[p][n].new
  <2>1. CASE WriteRef(p)
    <3>1. plan[p][n].new # None
      BY <1>3, <2>1 DEF KindOf, WriteRef, At
    <3>2. loose'[n] = plan[p][n].new
      BY <1>1, <1>3, <2>1 DEF WriteRef, IndInv, TypeOK, DiskOK
    <3> QED BY <3>1, <3>2 DEF Visible
  <2>2. CASE RewritePacked(p)
    <3>1. plan[p][n].new = None /\ loose[n] = None /\ loose' = loose
      BY <1>1, <1>3, <2>2 DEF KindOf, RewritePacked, At
    <3>2. snap[p] = packed
      BY <2>2 DEF RewritePacked, At, IndInv, Current, CurrentOf
    <3>3. packed'[n] = None
      BY <1>1, <1>3, <2>2, <3>2 DEF RewritePacked, IndInv, TypeOK, DiskOK
    <3> QED BY <3>1, <3>3 DEF Visible
  <2> QED BY <2>1, <2>2
<1>9. LockedValue(n)' = plan[p][n].new
  <2>1. ~MidDelete(p, n)'
    BY <1>4 DEF MidDelete
  <2>2. ASSUME NEW q \in Procs \ {p} PROVE ~MidDelete(q, n)'
    BY <1>2, <1>3, <2>2, Deleted, OtherProcessKept, SameProcess DEF IndInv
  <2>3. \A q \in Procs : ~MidDelete(q, n)'
    BY <2>1, <2>2
  <2> QED BY <1>8, <2>3 DEF LockedValue
<1>10. ASSUME NEW m \in Refs, m # n PROVE LockedValue(m)' = LockedValue(m)
  <2>1. Visible(m)' = Visible(m)
    <3>1. CASE WriteRef(p)
      BY <1>1, <1>10, <3>1 DEF WriteRef, Visible, IndInv, TypeOK, DiskOK
    <3>2. CASE RewritePacked(p)
      <4>1. snap[p] = packed
        BY <3>2 DEF RewritePacked, At, IndInv, Current, CurrentOf
      <4> QED BY <1>1, <1>10, <3>2, <4>1 DEF RewritePacked, Visible, IndInv, TypeOK, DiskOK
    <3> QED BY <3>1, <3>2
  <2>2. ~MidDelete(p, m) /\ ~MidDelete(p, m)'
    BY <1>1, <1>4, <1>10 DEF MidDelete
  <2> QED BY <1>2, <1>10, <2>1, <2>2, OtherValues
<1>11. RefValues' = [RefValues EXCEPT ![n] = plan[p][n].new]
  BY <1>3, <1>9, <1>10, OneValueChanges
<1>12. Phases' = Phases /\ Batches' = Batches
  <2>1. /\ Phases' = [Phases EXCEPT ![p] = Phases[p]]
        /\ Batches' = [Batches EXCEPT ![p] = Batches[p]]
    BY <1>2, <1>5, OneProcess DEF Phases, Batches
  <2> QED BY <2>1 DEF Phases, Batches
<1>13. Rests' = [Rests EXCEPT ![p] = @ \ {n}]
  BY <1>2, <1>6, OneProcess DEF Rests
<1>14. n \in Rests[p] /\ Batches[p] = plan[p] /\ RefValues[n] = LockedValue(n)
  BY <1>3, <1>5, <1>6 DEF Rests, Batches, RefValues
<1> QED BY <1>7, <1>11, <1>12, <1>13, <1>14

\* A batch whose ops are all written is complete.
LEMMA CompleteStep ==
    ASSUME IndInv, IndInv', NEW p \in Procs, Committed(p)
    PROVE  Phases[p] = "accepted" /\ Rests[p] = {} /\ Leaves(p) /\ RefValues' = RefValues
<1>1. /\ pc[p] = "commit" /\ pc'[p] = "release" /\ todo[p] = {} /\ target[p] = None /\ plan' = plan
  BY DEF Committed, At, request, IndInv, TypeOK, WorkOK, Control, ControlOf, Committing
<1>2. OpStep(p) /\ UNCHANGED <<loose, packed>>
  BY DEF OpStep, ProcessStep, Committed, disk
<1>3. PhaseOf(p) = "accepted" /\ RestOf(p) = {} /\ PhaseOf(p)' = "idle"
  BY <1>1 DEF PhaseOf, RestOf, Committing
<1>4. \A n : ~MidDelete(p, n) /\ ~MidDelete(p, n)'
  BY <1>1 DEF MidDelete
<1> QED BY <1>1, <1>2, <1>3, <1>4, IdleLeaves, QuietValues DEF Phases, Rests

\* The steps that end a transaction before it is accepted.
Refusing(p) ==
    LeaseTimeout(p) \/ LockTimeout(p) \/ LockBlocked(p) \/ HeadMoved(p) \/ RejectOp(p)

\* A transaction that is not accepted is refused and has changed nothing; a
\* switch of HEAD that fails is not seen.
LEMMA RefuseStep ==
    ASSUME IndInv, IndInv', NEW p \in Procs, Refusing(p)
    PROVE  Unseen \/ (Phases[p] = "open" /\ Leaves(p) /\ RefValues' = RefValues)
<1>1. pc[p] \in {"lease", "lock", "validate"} /\ pc'[p] \in {"idle", "release"} /\ plan' = plan
  BY DEF Refusing, LeaseTimeout, LockTimeout, LockBlocked, HeadMoved, RejectOp, Fail, Locking,
         LocksTaken, At, request, IndInv, TypeOK, WorkOK
<1>2. OpStep(p) /\ UNCHANGED <<loose, packed>>
  BY DEF Refusing, OpStep, ProcessStep, LeaseTimeout, LockTimeout, LockBlocked, HeadMoved,
         RejectOp, Fail, disk
<1>3. PhaseOf(p)' = "idle" /\ PhaseOf(p) \in {"idle", "open"}
  BY <1>1 DEF PhaseOf, Committing
<1>4. \A n : ~MidDelete(p, n) /\ ~MidDelete(p, n)'
  BY <1>1 DEF MidDelete
<1>5. RefValues' = RefValues
  BY <1>1, <1>2, <1>4, QuietValues
<1>6. CASE PhaseOf(p) = "idle"
  BY <1>2, <1>3, <1>5, <1>6, StaysIdle DEF Unseen
<1>7. CASE PhaseOf(p) = "open"
  BY <1>2, <1>3, <1>5, <1>7, IdleLeaves DEF Phases
<1> QED BY <1>3, <1>6, <1>7

\* The steps that end a transaction in the middle of its commit, or end that of
\* a process that died.
Abandoning(p) ==
    LogRefBlocked(p) \/ CommitBlocked(p) \/ PackedUndecodable(p) \/ RemoveOrphanLocks(p)

\* They leave every ref as it is but the one being deleted, which may show an
\* older packed value.
LEMMA AbandonStep ==
    ASSUME IndInv, IndInv', NEW p \in Procs, KindOf(p), Abandoning(p)
    PROVE  \/ Unseen
           \/ /\ Phases[p] # "idle" /\ Leaves(p)
              /\ \/ RefValues' = RefValues
                 \/ \E n \in Rests[p], v \in Values :
                      Batches[p][n].new = None /\ RefValues' = [RefValues EXCEPT ![n] = v]
<1>1. pc'[p] \in {"idle", "release"}
  BY DEF Abandoning, LogRefBlocked, CommitBlocked, PackedUndecodable, RemoveOrphanLocks, Fail,
         Forget, IndInv, TypeOK, WorkOK
<1>2. OpStep(p) /\ UNCHANGED <<loose, packed>>
  BY DEF Abandoning, OpStep, ProcessStep, LogRefBlocked, CommitBlocked, PackedUndecodable,
         RemoveOrphanLocks, Fail, disk
<1>3. PhaseOf(p)' = "idle" /\ \A n : ~MidDelete(p, n)'
  BY <1>1 DEF PhaseOf, MidDelete
<1>4. \A n : Visible(n)' = Visible(n)
  BY <1>2 DEF Visible
<1>5. CASE \A n : ~MidDelete(p, n)
  <2>1. RefValues' = RefValues
    BY <1>2, <1>3, <1>5, QuietValues
  <2>2. CASE PhaseOf(p) = "idle"
    BY <1>2, <1>3, <2>1, <2>2, StaysIdle DEF Unseen
  <2>3. CASE PhaseOf(p) # "idle"
    BY <1>2, <1>3, <2>1, <2>3, IdleLeaves DEF Phases
  <2> QED BY <2>2, <2>3
<1>6. CASE \E n : MidDelete(p, n)
  <2>1. PICK n : MidDelete(p, n)
    BY <1>6
  <2>2. /\ pc[p] \in {"readpacked", "rewrite"} /\ n = cur[p] /\ n \in Refs /\ n \in todo[p]
        /\ target[p] = None /\ plan[p][n].new = None
    BY <2>1, CurLocked DEF MidDelete, OnOp, Committing, KindOf
  <2>3. PhaseOf(p) = "accepted" /\ BatchOf(p) = plan[p] /\ n \in RestOf(p)
    BY <2>2 DEF PhaseOf, BatchOf, RestOf, Committing
  <2>4. \A m \in Refs \ {n} : LockedValue(m)' = LockedValue(m)
    <3>1. \A m \in Refs \ {n} : ~MidDelete(p, m)
      BY <2>1 DEF MidDelete
    <3> QED BY <1>2, <1>3, <1>4, <3>1, OtherValues
  <2>5. RefValues' = [RefValues EXCEPT ![n] = LockedValue(n)']
    BY <2>2, <2>4, OneValueChanges
  <2>6. LockedValue(n)' \in Values
    <3>1. \A q \in Procs \ {p} : ~MidDelete(q, n)'
      BY <1>2, <2>1, Deleted, OtherProcessKept, SameProcess DEF IndInv
    <3>2. LockedValue(n)' = Visible(n)'
      BY <1>3, <3>1 DEF LockedValue
    <3> QED BY <1>4, <2>2, <3>2, VisibleType DEF IndInv
  <2>7. Phases[p] = "accepted" /\ Batches[p] = plan[p] /\ n \in Rests[p]
    BY <2>3 DEF Phases, Batches, Rests
  <2> QED BY <1>2, <1>3, <2>2, <2>5, <2>6, <2>7, IdleLeaves
<1> QED BY <1>5, <1>6

\* The steps the contract does not see.
Quiet(p) ==
    \/ SetSymbolic(p) \/ AcquireLease(p) \/ LeaseBackoff(p) \/ PlanLocks(p) \/ AcquireLock(p)
    \/ LockBackoff(p) \/ Confirm(p) \/ ValidateOp(p) \/ BeginOp(p) \/ LogRef(p) \/ LogHead(p)
    \/ Unlink(p) \/ ReadPacked(p) \/ DropLog(p) \/ LogSwitch(p) \/ SetHead(p) \/ Release(p)
    \/ PruneParents(p) \/ DropLease(p) \/ Crash(p)

\* Unlinking the loose file begins a delete: whoever would lock the ref first
\* still finds the value that is being deleted.
LEMMA UnlinkStep ==
    ASSUME IndInv, IndInv', NEW p \in Procs, Unlink(p)
    PROVE  Unseen
<1>1. PICK n : n = cur[p]
  OBVIOUS
<1>2. OpStep(p) /\ pc[p] \in OnOp
  BY DEF OpStep, ProcessStep, Unlink, At, OnOp, Committing
<1>3. /\ n \in Refs /\ lock[n] = p /\ n \in todo[p] /\ n \in DOMAIN plan[p] /\ target[p] = None
  BY <1>1, <1>2, CurLocked
<1>4. /\ plan' = plan /\ target' = target /\ todo' = todo /\ cur' = cur /\ pc[p] = "unlink"
      /\ pc'[p] = "readpacked" /\ packed' = packed /\ loose' = [loose EXCEPT ![n] = None]
  BY <1>1 DEF Unlink, At, request, work, IndInv, TypeOK, WorkOK
<1>5. PhaseOf(p)' = PhaseOf(p) /\ BatchOf(p)' = BatchOf(p) /\ RestOf(p)' = RestOf(p)
  BY <1>4 DEF PhaseOf, BatchOf, RestOf, Committing
<1>6. LockedValue(n) = plan[p][n].expected
  <2>1. n \in RestOf(p)
    BY <1>3, <1>4 DEF RestOf, PhaseOf, Committing
  <2> QED BY <2>1, RestExpected
<1>7. LockedValue(n)' = plan[p][n].expected
  <2>1. MidDelete(p, n)'
    BY <1>1, <1>4 DEF MidDelete
  <2>2. \A q \in Procs : MidDelete(q, n)' => q = p
    BY <1>2, <1>3, Deleted, OtherProcessKept, SameProcess DEF IndInv
  <2> QED BY <1>4, <2>1, <2>2 DEF LockedValue
<1>8. ASSUME NEW m \in Refs, m # n PROVE LockedValue(m)' = LockedValue(m)
  <2>1. Visible(m)' = Visible(m)
    BY <1>4, <1>8 DEF Visible, IndInv, TypeOK, DiskOK
  <2>2. ~MidDelete(p, m) /\ ~MidDelete(p, m)'
    BY <1>1, <1>4, <1>8 DEF MidDelete
  <2> QED BY <1>2, <1>8, <2>1, <2>2, OtherValues
<1>9. RefValues' = RefValues
  BY <1>6, <1>7, <1>8, NoValueChanges
<1> QED BY <1>2, <1>5, <1>9, SameLook DEF Unseen

\* Nor does it see any other of them.
LEMMA QuietStepUnseen ==
    ASSUME IndInv, IndInv', NEW p \in Procs, Quiet(p)
    PROVE  Unseen
<1> USE DEF At
<1>0. OpStep(p)
  BY DEF Quiet, OpStep, ProcessStep
<1>1. CASE Unlink(p)
  BY <1>1, UnlinkStep
<1>2. CASE \/ AcquireLease(p) \/ LeaseBackoff(p) \/ PlanLocks(p) \/ AcquireLock(p) \/ LockBackoff(p)
  <2>1. /\ pc[p] \in {"lease", "plan", "lock"} /\ pc'[p] \in {"lease", "plan", "lock"}
        /\ plan' = plan /\ target' = target /\ UNCHANGED <<loose, packed>>
    BY <1>2 DEF AcquireLease, LeaseBackoff, PlanLocks, AcquireLock, LockBackoff, Locking,
                request, disk, IndInv, TypeOK, WorkOK
  <2>2. PhaseOf(p)' = PhaseOf(p) /\ BatchOf(p)' = BatchOf(p) /\ RestOf(p)' = RestOf(p)
    BY <2>1 DEF PhaseOf, BatchOf, RestOf, Committing
  <2>3. \A n : ~MidDelete(p, n) /\ ~MidDelete(p, n)'
    BY <2>1 DEF MidDelete
  <2> QED BY <1>0, <2>1, <2>2, <2>3, SameLook, QuietValues DEF Unseen
<1>3. CASE Confirm(p) \/ ValidateOp(p)
  <2>1. /\ pc[p] \in {"lock", "validate"} /\ pc'[p] = "validate"
        /\ plan' = plan /\ target' = target /\ UNCHANGED <<loose, packed>>
    BY <1>3 DEF Confirm, ValidateOp, LocksTaken, request, disk, IndInv, TypeOK, WorkOK
  <2>2. PhaseOf(p)' = PhaseOf(p) /\ BatchOf(p)' = BatchOf(p) /\ RestOf(p)' = RestOf(p)
    BY <2>1 DEF PhaseOf, BatchOf, RestOf, Committing
  <2>3. \A n : ~MidDelete(p, n) /\ ~MidDelete(p, n)'
    BY <2>1 DEF MidDelete
  <2> QED BY <1>0, <2>1, <2>2, <2>3, SameLook, QuietValues DEF Unseen
<1>4. CASE BeginOp(p) \/ LogRef(p) \/ LogHead(p)
  <2>1. /\ pc[p] \in {"commit", "log", "headlog"}
        /\ pc'[p] \in {"log", "headlog", "write", "unlink"} /\ todo' = todo
        /\ plan' = plan /\ target' = target /\ UNCHANGED <<loose, packed>>
    BY <1>4 DEF BeginOp, LogRef, LogHead, request, work, disk, IndInv, TypeOK, WorkOK
  <2>2. PhaseOf(p)' = PhaseOf(p) /\ BatchOf(p)' = BatchOf(p) /\ RestOf(p)' = RestOf(p)
    BY <2>1 DEF PhaseOf, BatchOf, RestOf, Committing
  <2>3. \A n : ~MidDelete(p, n) /\ ~MidDelete(p, n)'
    BY <2>1 DEF MidDelete
  <2> QED BY <1>0, <2>1, <2>2, <2>3, SameLook, QuietValues DEF Unseen
<1>5. CASE ReadPacked(p)
  <2>1. /\ pc[p] = "readpacked" /\ pc'[p] = "rewrite" /\ todo' = todo /\ cur' = cur
        /\ plan' = plan /\ target' = target /\ UNCHANGED <<loose, packed>>
    BY <1>5 DEF ReadPacked, request, disk, IndInv, TypeOK, WorkOK
  <2>2. PhaseOf(p)' = PhaseOf(p) /\ BatchOf(p)' = BatchOf(p) /\ RestOf(p)' = RestOf(p)
    BY <2>1 DEF PhaseOf, BatchOf, RestOf, Committing
  <2>3. \A n : MidDelete(p, n)' <=> MidDelete(p, n)
    BY <2>1 DEF MidDelete
  <2> QED BY <1>0, <2>1, <2>2, <2>3, SameLook, QuietValues DEF Unseen
<1>6. CASE DropLog(p)
  <2>1. /\ pc[p] = "unlog" /\ pc'[p] = "commit" /\ todo'[p] = todo[p] \ {cur[p]}
        /\ plan' = plan /\ target' = target /\ UNCHANGED <<loose, packed>>
    BY <1>6 DEF DropLog, request, IndInv, TypeOK, WorkOK
  <2>2. PhaseOf(p)' = PhaseOf(p) /\ BatchOf(p)' = BatchOf(p) /\ RestOf(p)' = RestOf(p)
    BY <2>1 DEF PhaseOf, BatchOf, RestOf, Committing
  <2>3. \A n : ~MidDelete(p, n) /\ ~MidDelete(p, n)'
    BY <2>1 DEF MidDelete
  <2> QED BY <1>0, <2>1, <2>2, <2>3, SameLook, QuietValues DEF Unseen
<1>7. CASE SetSymbolic(p)
  <2>1. /\ pc[p] = "idle" /\ pc'[p] = "lease" /\ target'[p] \in Targets
        /\ UNCHANGED <<loose, packed>>
    BY <1>7 DEF SetSymbolic, Submit, disk, IndInv, TypeOK, WorkOK, RequestOK
  <2>2. PhaseOf(p) = "idle" /\ PhaseOf(p)' = "idle"
    BY <2>1, RequestAssumption, RefAssumption DEF PhaseOf
  <2>3. \A n : ~MidDelete(p, n) /\ ~MidDelete(p, n)'
    BY <2>1 DEF MidDelete
  <2> QED BY <1>0, <2>1, <2>2, <2>3, StaysIdle, QuietValues DEF Unseen
<1>8. CASE LogSwitch(p) \/ SetHead(p)
  <2>1. /\ pc[p] \in {"lock", "sethead"} /\ pc'[p] \in {"sethead", "release"}
        /\ target[p] # None /\ target' = target /\ UNCHANGED <<loose, packed>>
    BY <1>8 DEF LogSwitch, SetHead, LocksTaken, request, IndInv, TypeOK, WorkOK, Control, ControlOf
  <2>2. PhaseOf(p) = "idle" /\ PhaseOf(p)' = "idle"
    BY <2>1 DEF PhaseOf
  <2>3. \A n : ~MidDelete(p, n) /\ ~MidDelete(p, n)'
    BY <2>1 DEF MidDelete
  <2> QED BY <1>0, <2>1, <2>2, <2>3, StaysIdle, QuietValues DEF Unseen
<1>9. CASE Release(p) \/ PruneParents(p) \/ DropLease(p)
  <2>1. /\ pc[p] \in {"release", "unlease"} /\ pc'[p] \in {"release", "unlease", "idle"}
        /\ UNCHANGED <<loose, packed>>
    BY <1>9 DEF Release, PruneParents, DropLease, Forget, disk, IndInv, TypeOK, WorkOK
  <2>2. PhaseOf(p) = "idle" /\ PhaseOf(p)' = "idle"
    BY <2>1 DEF PhaseOf
  <2>3. \A n : ~MidDelete(p, n) /\ ~MidDelete(p, n)'
    BY <2>1 DEF MidDelete
  <2> QED BY <1>0, <2>1, <2>2, <2>3, StaysIdle, QuietValues DEF Unseen
<1>10. CASE Crash(p)
  <2>1. UNCHANGED <<pc, plan, target, todo, cur, loose, packed>>
    BY <1>10 DEF Crash, request, work, disk
  <2>2. PhaseOf(p)' = PhaseOf(p) /\ BatchOf(p)' = BatchOf(p) /\ RestOf(p)' = RestOf(p)
    BY <2>1 DEF PhaseOf, BatchOf, RestOf
  <2>3. \A n : MidDelete(p, n)' <=> MidDelete(p, n)
    BY <2>1 DEF MidDelete
  <2> QED BY <1>0, <2>1, <2>2, <2>3, SameLook, QuietValues DEF Unseen
<1> QED BY <1>1, <1>2, <1>3, <1>4, <1>5, <1>6, <1>7, <1>8, <1>9, <1>10 DEF Quiet

-----------------------------------------------------------------------------
(***************************************************************************)
(* The steps of stock git, and the theorem.                                *)
(***************************************************************************)

\* Stock git changes one ref that no accepted batch owns, or none: packing and
\* pruning move a value, they do not change it.
LEMMA ForeignStep ==
    ASSUME IndInv, IndInv', NEW g \in Gits, GitStep(g)
    PROVE  /\ Phases' = Phases /\ Batches' = Batches /\ Rests' = Rests
           /\ \/ RefValues' = RefValues
              \/ \E n \in Refs, v \in Values :
                   (\A p \in Procs : n \notin Rests[p]) /\ RefValues' = [RefValues EXCEPT ![n] = v]
<1>1. ASSUME NEW q \in Procs
      PROVE  /\ PhaseOf(q)' = PhaseOf(q) /\ BatchOf(q)' = BatchOf(q) /\ RestOf(q)' = RestOf(q)
             /\ (\A n : MidDelete(q, n)' <=> MidDelete(q, n)) /\ plan'[q] = plan[q]
  BY <1>1, GitKeepsProcess, SameProcess DEF IndInv
<1>2. Phases' = Phases /\ Batches' = Batches /\ Rests' = Rests
  BY <1>1 DEF Phases, Batches, Rests
<1>3. CASE \A n \in Refs : Visible(n)' = Visible(n)
  <2>1. \A n \in Refs : LockedValue(n)' = LockedValue(n)
    BY <1>1, <1>3, SameValue
  <2> QED BY <1>2, <2>1, NoValueChanges
<1>4. CASE \E n \in Refs : Visible(n)' # Visible(n)
  <2>1. PICK n \in Refs : Visible(n)' # Visible(n)
    BY <1>4
  <2>2. WritesOwn(g)
    BY GitWritesOwn DEF IndInv, Holding
  <2>3. lock[n] = g /\ \A q \in Procs : g # q
    BY <2>1, <2>2, OwnerAssumption DEF WritesOwn
  <2>4. \A q \in Procs : n \notin RestOf(q)
    BY <2>3, RestLocked
  <2>5. ASSUME NEW m \in Refs, m # n PROVE LockedValue(m)' = LockedValue(m)
    <3>1. Visible(m)' = Visible(m)
      <4>1. CASE GitUpdate(g) \/ GitDelete(g)
        <5>1. \A k \in Refs \ {git[g].ref} : Visible(k)' = Visible(k)
          BY <4>1 DEF GitUpdate, GitDelete, Visible, IndInv, TypeOK, DiskOK
        <5> QED BY <2>1, <2>5, <5>1
      <4>2. CASE GitPack(g)
        BY <2>1, <4>2 DEF GitPack, Visible
      <4>3. CASE GitPrune(g)
        <5>1. PICK k \in Refs : loose[k] = packed[k] /\ loose' = [loose EXCEPT ![k] = None]
          BY <4>3 DEF GitPrune
        <5>2. packed' = packed /\ loose'[k] = None /\ \A i \in Refs \ {k} : loose'[i] = loose[i]
          BY <4>3, <5>1 DEF GitPrune, IndInv, TypeOK, DiskOK
        <5> QED BY <2>1, <5>1, <5>2 DEF Visible
      <4>4. CASE ~(GitUpdate(g) \/ GitDelete(g) \/ GitPack(g) \/ GitPrune(g))
        BY <2>1, <4>4 DEF GitStep, GitLockRef, GitLockPacked, GitAbort, GitPackLock, GitSwitch,
                          disk, Visible
      <4> QED BY <4>1, <4>2, <4>3, <4>4
    <3> QED BY <1>1, <2>5, <3>1, SameValue
  <2>6. RefValues' = [RefValues EXCEPT ![n] = LockedValue(n)']
    BY <2>1, <2>5, OneValueChanges
  <2>7. LockedValue(n)' \in Values
    <3>1. \A q \in Procs : ~MidDelete(q, n)
      BY <2>3, Deleted
    <3>2. LockedValue(n)' = Visible(n)'
      BY <1>1, <3>1 DEF LockedValue
    <3>3. Visible(n)' \in Values
      BY <2>1 DEF IndInv, TypeOK, DiskOK, Visible
    <3> QED BY <3>2, <3>3
  <2> QED BY <1>2, <2>1, <2>4, <2>6, <2>7 DEF Rests
<1> QED BY <1>3, <1>4

\* The step lemmas speak of the contract's own variables.
LEMMA ContractStep ==
    ASSUME DeleteInv, DeleteInv', [Next]_vars
    PROVE  [Contract!Next]_<<RefValues, Phases, Batches, Rests>>
<1> USE DEF DeleteInv
<1>1. CASE \E p \in Procs : Transact(p)
  <2>1. \E p \in Procs : Contract!Open(p)
    BY <1>1, OpenStep DEF Contract!Open, RefValues, Phases, Batches, Rests, BatchOf
  <2> QED BY <2>1 DEF Contract!Next
<1>2. CASE \E p \in Procs : AllValid(p)
  <2>1. \E p \in Procs : Contract!Accept(p)
    BY <1>2, AcceptStep DEF Contract!Accept, RefValues, Phases, Batches, Rests, BatchOf
  <2> QED BY <2>1 DEF Contract!Next
<1>3. CASE \E p \in Procs : WriteRef(p) \/ RewritePacked(p)
  <2>1. \E p \in Procs : Contract!Apply(p)
    BY <1>3, ApplyStep DEF Kind, Contract!Apply, RefValues, Phases, Batches, Rests, BatchOf
  <2> QED BY <2>1 DEF Contract!Next
<1>4. CASE \E p \in Procs : Committed(p)
  <2>1. \E p \in Procs : Contract!Complete(p)
    BY <1>4, CompleteStep
       DEF Leaves, Contract!Complete, Contract!Leave, Contract!NoPlan, NoPlan,
           RefValues, Phases, Batches, Rests, BatchOf
  <2> QED BY <2>1 DEF Contract!Next
<1>5. ASSUME NEW p \in Procs, Refusing(p) PROVE Unseen \/ Contract!Refuse(p)
  BY <1>5, RefuseStep
     DEF Leaves, Contract!Refuse, Contract!Leave, Contract!NoPlan, NoPlan,
         RefValues, Phases, Batches, Rests, BatchOf
<1>6. ASSUME NEW p \in Procs, Abandoning(p) PROVE Unseen \/ Contract!Abandon(p)
  BY <1>6, AbandonStep
     DEF Kind, Leaves, Contract!Abandon, Contract!Leave, Contract!NoPlan, NoPlan,
         Contract!Values, Values, RefValues, Phases, Batches, Rests, BatchOf
<1>7. ASSUME NEW g \in Gits, GitStep(g) PROVE Unseen \/ Contract!Foreign
  BY <1>7, ForeignStep
     DEF Unseen, Contract!Foreign, Contract!Values, Values, RefValues, Phases, Batches, Rests,
         BatchOf
<1>8. CASE UNCHANGED vars
  <2>1. UNCHANGED <<loose, packed, pc, plan, target, todo, cur>>
    BY <1>8 DEF vars, disk, request, work
  <2>2. Unseen
    BY <2>1 DEF Unseen, RefValues, Phases, Batches, Rests, LockedValue, PhaseOf, BatchOf, RestOf,
                MidDelete, Visible
  <2> QED BY <2>2 DEF Unseen
<1>9. CASE \E p \in Procs : Quiet(p)
  BY <1>9, QuietStepUnseen DEF Unseen
<1> QED BY <1>1, <1>2, <1>3, <1>4, <1>5, <1>6, <1>7, <1>8, <1>9
        DEF Next, ProcessStep, Quiet, Refusing, Abandoning, Unseen, Contract!Next

\* Whatever other gitana processes and stock git do, and wherever a process dies,
\* a transaction is accepted only when every ref has the value its op expects, its
\* refs are its own until each has taken its new value once, and a transaction
\* that is refused has changed nothing (RefStore::transact).
THEOREM ImplementsTheContract == Spec => ImplementsContract
<1>1. Init => Contract!Init
  <2> SUFFICES ASSUME Init PROVE Contract!Init
    OBVIOUS
  <2>1. \A p \in Procs : pc[p] = "idle" /\ target[p] = None
    BY DEF Init
  <2>2. \A p \in Procs : PhaseOf(p) = "idle" /\ BatchOf(p) = NoPlan /\ RestOf(p) = {}
    BY <2>1 DEF PhaseOf, BatchOf, RestOf
  <2>3. ASSUME NEW n \in Refs PROVE LockedValue(n) \in Values
    <3>1. LockedValue(n) = Visible(n)
      BY <2>1 DEF LockedValue, MidDelete
    <3>2. TypeOK
      BY TypeInit
    <3> QED BY <3>1, <3>2, VisibleType
  <2> QED BY <2>2, <2>3 DEF Contract!Init, Contract!Values, Values, Contract!NoPlan, NoPlan,
                            BatchOf
<1>2. DeleteInv /\ DeleteInv' /\ [Next]_vars =>
        [Contract!Next]_<<RefValues, Phases, Batches, Rests>>
  BY ContractStep
<1> QED BY <1>1, <1>2, DeleteInvariant, PTL
        DEF Spec, ImplementsContract, Contract!Spec, RefValues, Phases, Batches, Rests, BatchOf

=============================================================================
