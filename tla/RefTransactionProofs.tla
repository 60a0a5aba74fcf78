------------------------ MODULE RefTransactionProofs ------------------------
(***************************************************************************)
(* Safety of the ref-transaction protocol for every number of refs,         *)
(* gitana processes, stock git processes, retries and crashes.              *)
(***************************************************************************)
EXTENDS RefTransaction, TLAPS

\* The steps at which a process works on one op of its batch.
OnOp == Committing \ {"commit"}

\* What a process works on belongs to its request.
ControlOf(p) ==
    /\ pc[p] \in Committing \cup {"validate"} => target[p] = None /\ todo[p] \subseteq DOMAIN plan[p]
    /\ pc[p] \in OnOp => cur[p] \in todo[p]
    /\ pc[p] = "sethead" => target[p] # None

Control ==
    /\ \A p \in Procs : ControlOf(p)
    /\ \A g \in Gits : git[g].pc \in {"ref", "both"} => git[g].ref \in Refs

\* An op of a request is about a ref and carries ref values.
LEMMA PlanOps ==
    ASSUME RequestOK, NEW p \in Procs
    PROVE  /\ DOMAIN plan[p] \subseteq Refs
           /\ \A n \in DOMAIN plan[p] :
                plan[p][n].expected \in Values /\ plan[p][n].new \in Values
                    /\ plan[p][n].log \in BOOLEAN
<1>1. CASE plan[p] \in Plans
  BY <1>1, RequestAssumption DEF Op
<1>2. CASE plan[p] = NoPlan
  BY <1>2 DEF NoPlan
<1> QED BY <1>1, <1>2 DEF RequestOK

\* A resolved ref is an object id or absent.
LEMMA VisibleType ==
    ASSUME TypeOK, NEW n \in Refs
    PROVE  Visible(n) \in Values
BY DEF TypeOK, DiskOK, Visible

\* The initial state is well typed and nobody is at work.
LEMMA TypeInit == Init => TypeOK /\ Control
<1> SUFFICES ASSUME Init PROVE TypeOK /\ Control
  OBVIOUS
<1>1. loose \in [Refs -> Values] /\ packed \in [Refs -> Values] /\ head \in Refs
  BY RequestAssumption DEF Init
<1>2. \A n \in Refs : Visible(n) \in Values
  BY <1>1 DEF Visible
<1>3. logs \in [Refs \cup {HeadLock} -> Seq([old : Values, new : Values])]
  <2> DEFINE Tip(n) == Visible(IF n = HeadLock THEN head ELSE n)
  <2>1. \A n \in Refs \cup {HeadLock} : Tip(n) \in Values
    BY <1>1, <1>2
  <2>2. \A v \in Values : <<Entry(None, v)>> \in Seq([old : Values, new : Values])
    BY DEF Entry, Values
  <2> HIDE DEF Tip
  <2>3. logs = [n \in Refs \cup {HeadLock} |->
                  IF n \in Logged /\ Tip(n) # None THEN <<Entry(None, Tip(n))>> ELSE <<>>]
    BY DEF Init, Tip
  <2>4. <<>> \in Seq([old : Values, new : Values])
    OBVIOUS
  <2>5. \A n \in Refs \cup {HeadLock} :
          (IF n \in Logged /\ Tip(n) # None THEN <<Entry(None, Tip(n))>> ELSE <<>>)
             \in Seq([old : Values, new : Values])
    BY <2>1, <2>2, <2>4
  <2> QED BY <2>3, <2>5
<1>4. \A p \in Procs : plan[p] = NoPlan /\ pc[p] = "idle"
  BY DEF Init
<1>5. TypeOK
  <2>1. dirs \subseteq Refs
    BY DEF Init
  <2>2. lock \in [Locks -> Procs \cup Gits \cup {Free}] /\ lease \in Procs \cup {Free}
    BY DEF Init
  <2>3. plan \in [Procs -> Plans \cup {NoPlan}]
    BY DEF Init
  <2>4. tries \in [Procs -> 0 .. LockAttempts - 1]
    BY ScopeAssumption DEF Init
  <2>5. snap \in [Procs -> [Refs -> Values]]
    BY DEF Init, Values
  <2>6. git \in [Gits -> [pc : {"idle", "ref", "both", "pack"}, ref : Refs \cup {None}]]
    BY DEF Init
  <2> QED BY <1>1, <1>3, <2>1, <2>2, <2>3, <2>4, <2>5, <2>6 DEF Init, TypeOK,
       DiskOK, LockOK, RequestOK, WorkOK, OutcomeOK, OthersOK
<1>6. Control
  BY <1>4 DEF Init, Control, ControlOf, Committing, OnOp
<1> QED BY <1>5, <1>6

\* Appending a step to a reflog gives a reflog.
LEMMA AppendSeq ==
    ASSUME NEW S, NEW s \in Seq(S), NEW e \in S
    PROVE  Append(s, e) \in Seq(S)
OBVIOUS

\* Appending an entry to a reflog keeps the reflogs well typed.
LEMMA AppendType ==
    ASSUME DiskOK, NEW name \in Refs \cup {HeadLock}, NEW old \in Values, NEW new \in Values,
           AppendLog(name, Entry(old, new))
    PROVE  logs' \in [Refs \cup {HeadLock} -> Seq([old : Values, new : Values])]
<1>1. Entry(old, new) \in [old : Values, new : Values]
  BY DEF Entry
<1>2. Append(logs[name], Entry(old, new)) \in Seq([old : Values, new : Values])
  <2>1. logs[name] \in Seq([old : Values, new : Values])
    BY DEF DiskOK
  <2> QED BY <1>1, <2>1, AppendSeq
<1> QED BY <1>2 DEF DiskOK, AppendLog

\* The empty log is a reflog.
LEMMA EmptyLog == <<>> \in Seq([old : Values, new : Values])
OBVIOUS

\* Every variable keeps its type: starting an operation.
LEMMA TypeStart ==
    ASSUME TypeOK, Control, NEW p \in Procs,
           Transact(p) \/ SetSymbolic(p) \/ AcquireLease(p) \/ LeaseBackoff(p)
             \/ LeaseTimeout(p)
    PROVE  TypeOK'
<1>1. CASE Transact(p)
  <2>1. RequestOK'
    BY <1>1, RequestAssumption DEF TypeOK, RequestOK, Transact, Submit, NoPlan
  <2>2. WorkOK'
    BY <1>1 DEF TypeOK, WorkOK, Transact, Submit, work
  <2>3. OutcomeOK'
    BY <1>1 DEF TypeOK, OutcomeOK, Transact, Submit
  <2>4. OthersOK'
    BY <1>1 DEF TypeOK, OthersOK, Transact, Submit, external, life
  <2> QED BY <1>1, <2>1, <2>2, <2>3, <2>4 DEF TypeOK, Transact, Submit, DiskOK, LockOK, disk
<1>2. CASE SetSymbolic(p)
  <2>1. RequestOK'
    BY <1>2, RequestAssumption DEF TypeOK, RequestOK, SetSymbolic, Submit, NoPlan
  <2>2. WorkOK'
    BY <1>2 DEF TypeOK, WorkOK, SetSymbolic, Submit, work
  <2>3. OutcomeOK'
    BY <1>2 DEF TypeOK, OutcomeOK, SetSymbolic, Submit
  <2>4. OthersOK'
    BY <1>2 DEF TypeOK, OthersOK, SetSymbolic, Submit, external, life
  <2> QED BY <1>2, <2>1, <2>2, <2>3, <2>4 DEF TypeOK, SetSymbolic, Submit, DiskOK, LockOK, disk
<1>3. CASE AcquireLease(p)
  <2>1. LockOK'
    BY <1>3 DEF TypeOK, LockOK, AcquireLease
  <2>2. WorkOK'
    BY <1>3, ScopeAssumption DEF TypeOK, WorkOK, AcquireLease, work
  <2> QED BY <1>3, <2>1, <2>2 DEF TypeOK, AcquireLease, DiskOK, RequestOK, OutcomeOK, OthersOK, disk, request, outcome, external, life
<1>4. CASE LeaseBackoff(p)
  <2>1. WorkOK'
    BY <1>4, ScopeAssumption DEF TypeOK, WorkOK, LeaseBackoff, work
  <2> QED BY <1>4, <2>1 DEF TypeOK, LeaseBackoff, DiskOK, LockOK, RequestOK, OutcomeOK, OthersOK, disk, request, outcome, external, life
<1>5. CASE LeaseTimeout(p)
  <2>1. WorkOK'
    BY <1>5, ScopeAssumption DEF TypeOK, WorkOK, LeaseTimeout, work
  <2>2. OutcomeOK'
    BY <1>5 DEF TypeOK, OutcomeOK, LeaseTimeout
  <2> QED BY <1>5, <2>1, <2>2 DEF TypeOK, LeaseTimeout, DiskOK, LockOK, RequestOK, OthersOK, disk, request, external, life
<1> QED BY <1>1, <1>2, <1>3, <1>4, <1>5

\* Every variable keeps its type: taking the path locks.
LEMMA TypeLocking ==
    ASSUME TypeOK, Control, NEW p \in Procs,
           PlanLocks(p) \/ AcquireLock(p) \/ LockBackoff(p) \/ LockTimeout(p)
             \/ LockBlocked(p)
    PROVE  TypeOK'
<1>ops. DOMAIN plan[p] \subseteq Refs
  BY PlanOps DEF TypeOK
<1>1. CASE PlanLocks(p)
  <2>1. WorkOK'
    BY <1>1, <1>ops, RequestAssumption DEF TypeOK, WorkOK, PlanLocks, CascadingOps, TransactionLocks, Locks, RequestOK, work
  <2> QED BY <1>1, <2>1 DEF TypeOK, PlanLocks, DiskOK, LockOK, RequestOK, OutcomeOK, OthersOK, disk, request, outcome, external, life
<1>2. CASE AcquireLock(p)
  <2>1. DiskOK'
    BY <1>2 DEF TypeOK, DiskOK, AcquireLock, Above
  <2>2. LockOK'
    BY <1>2 DEF TypeOK, LockOK, AcquireLock
  <2>3. WorkOK'
    BY <1>2, ScopeAssumption DEF TypeOK, WorkOK, AcquireLock, work
  <2> QED BY <1>2, <2>1, <2>2, <2>3 DEF TypeOK, AcquireLock, RequestOK, OutcomeOK, OthersOK, request, outcome, external, life
<1>3. CASE LockBackoff(p)
  <2>1. WorkOK'
    BY <1>3, ScopeAssumption DEF TypeOK, WorkOK, LockBackoff, work
  <2> QED BY <1>3, <2>1 DEF TypeOK, LockBackoff, DiskOK, LockOK, RequestOK, OutcomeOK, OthersOK, disk, request, outcome, external, life
<1>4. CASE LockTimeout(p)
  <2>1. WorkOK'
    BY <1>4 DEF TypeOK, WorkOK, LockTimeout, Fail, work
  <2>2. OutcomeOK'
    BY <1>4 DEF TypeOK, OutcomeOK, LockTimeout, Fail
  <2> QED BY <1>4, <2>1, <2>2 DEF TypeOK, LockTimeout, Fail, DiskOK, LockOK, RequestOK, OthersOK, disk, request, external, life
<1>5. CASE LockBlocked(p)
  <2>1. WorkOK'
    BY <1>5 DEF TypeOK, WorkOK, LockBlocked, Fail, work
  <2>2. OutcomeOK'
    BY <1>5 DEF TypeOK, OutcomeOK, LockBlocked, Fail
  <2> QED BY <1>5, <2>1, <2>2 DEF TypeOK, LockBlocked, Fail, DiskOK, LockOK, RequestOK, OthersOK, disk, request, external, life
<1> QED BY <1>1, <1>2, <1>3, <1>4, <1>5

\* Every variable keeps its type: validation.
LEMMA TypeValidation ==
    ASSUME TypeOK, Control, NEW p \in Procs,
           Confirm(p) \/ HeadMoved(p) \/ ValidateOp(p) \/ RejectOp(p)
             \/ AllValid(p)
    PROVE  TypeOK'
<1>ops. DOMAIN plan[p] \subseteq Refs
  BY PlanOps DEF TypeOK
<1>1. CASE Confirm(p)
  <2>1. WorkOK'
    BY <1>1, <1>ops DEF TypeOK, WorkOK, Confirm, LocksTaken, work
  <2> QED BY <1>1, <2>1 DEF TypeOK, Confirm, LocksTaken, DiskOK, LockOK, RequestOK, OutcomeOK, OthersOK, disk, request, outcome, external, life
<1>2. CASE HeadMoved(p)
  <2>1. WorkOK'
    BY <1>2 DEF TypeOK, WorkOK, HeadMoved, Fail, LocksTaken, work
  <2>2. OutcomeOK'
    BY <1>2 DEF TypeOK, OutcomeOK, HeadMoved, Fail, LocksTaken
  <2> QED BY <1>2, <2>1, <2>2 DEF TypeOK, HeadMoved, Fail, LocksTaken, DiskOK, LockOK, RequestOK, OthersOK, disk, request, external, life
<1>3. CASE ValidateOp(p)
  <2>1. WorkOK'
    BY <1>3 DEF TypeOK, WorkOK, ValidateOp, work
  <2> QED BY <1>3, <2>1 DEF TypeOK, ValidateOp, DiskOK, LockOK, RequestOK, OutcomeOK, OthersOK, disk, request, outcome, external, life
<1>4. CASE RejectOp(p)
  <2>1. WorkOK'
    BY <1>4 DEF TypeOK, WorkOK, RejectOp, Fail, work
  <2>2. OutcomeOK'
    BY <1>4 DEF TypeOK, OutcomeOK, RejectOp, Fail
  <2> QED BY <1>4, <2>1, <2>2 DEF TypeOK, RejectOp, Fail, DiskOK, LockOK, RequestOK, OthersOK, disk, request, external, life
<1>5. CASE AllValid(p)
  <2>1. WorkOK'
    BY <1>5, <1>ops DEF TypeOK, WorkOK, AllValid, work
  <2> QED BY <1>5, <2>1 DEF TypeOK, AllValid, DiskOK, LockOK, RequestOK, OutcomeOK, OthersOK, disk, request, outcome, external, life
<1> QED BY <1>1, <1>2, <1>3, <1>4, <1>5

\* Every variable keeps its type: the commit of a batch.
LEMMA TypeCommit ==
    ASSUME TypeOK, Control, NEW p \in Procs,
           BeginOp(p) \/ LogRef(p) \/ LogRefBlocked(p) \/ LogHead(p)
             \/ WriteRef(p) \/ Unlink(p) \/ CommitBlocked(p) \/ ReadPacked(p)
             \/ PackedUndecodable(p) \/ RewritePacked(p) \/ DropLog(p) \/ Committed(p)
    PROVE  TypeOK'
<1>op. pc[p] \in OnOp => cur[p] \in Refs /\ CurOp(p).new \in Values /\ CurOp(p).expected \in Values
  BY PlanOps DEF TypeOK, Control, ControlOf, OnOp, CurOp
<1>1. CASE BeginOp(p)
  <2>1. WorkOK'
    BY <1>1 DEF TypeOK, WorkOK, BeginOp, work
  <2> QED BY <1>1, <2>1 DEF TypeOK, BeginOp, DiskOK, LockOK, RequestOK, OutcomeOK, OthersOK, disk, request, outcome, external, life
<1>2. CASE LogRef(p)
  <2>op. cur[p] \in Refs /\ CurOp(p).new \in Values /\ CurOp(p).expected \in Values
    BY <1>2, <1>op DEF LogRef, At, OnOp, Committing
  <2>1. DiskOK'
    BY <1>2, <2>op, AppendType DEF TypeOK, DiskOK, LogRef
  <2>2. WorkOK'
    BY <1>2 DEF TypeOK, WorkOK, LogRef, work
  <2> QED BY <1>2, <2>1, <2>2 DEF TypeOK, LogRef, LockOK, RequestOK, OutcomeOK, OthersOK, request, outcome, external, life
<1>3. CASE LogRefBlocked(p)
  <2>1. WorkOK'
    BY <1>3 DEF TypeOK, WorkOK, LogRefBlocked, Fail, work
  <2>2. OutcomeOK'
    BY <1>3 DEF TypeOK, OutcomeOK, LogRefBlocked, Fail
  <2> QED BY <1>3, <2>1, <2>2 DEF TypeOK, LogRefBlocked, Fail, DiskOK, LockOK, RequestOK, OthersOK, disk, request, external, life
<1>4. CASE LogHead(p)
  <2>op. cur[p] \in Refs /\ CurOp(p).new \in Values /\ CurOp(p).expected \in Values
    BY <1>4, <1>op DEF LogHead, At, OnOp, Committing
  <2>1. DiskOK'
    BY <1>4, <2>op, AppendType DEF TypeOK, DiskOK, LogHead
  <2>2. WorkOK'
    BY <1>4 DEF TypeOK, WorkOK, LogHead, work
  <2> QED BY <1>4, <2>1, <2>2 DEF TypeOK, LogHead, LockOK, RequestOK, OutcomeOK, OthersOK, request, outcome, external, life
<1>5. CASE WriteRef(p)
  <2>op. cur[p] \in Refs /\ CurOp(p).new \in Values /\ CurOp(p).expected \in Values
    BY <1>5, <1>op DEF WriteRef, At, OnOp, Committing
  <2>1. DiskOK'
    BY <1>5, <2>op DEF TypeOK, DiskOK, WriteRef
  <2>2. WorkOK'
    BY <1>5 DEF TypeOK, WorkOK, WriteRef, work
  <2>3. OutcomeOK'
    BY <1>5, <2>op DEF TypeOK, OutcomeOK, WriteRef
  <2> QED BY <1>5, <2>1, <2>2, <2>3 DEF TypeOK, WriteRef, LockOK, RequestOK, OthersOK, request, external, life
<1>6. CASE Unlink(p)
  <2>op. cur[p] \in Refs /\ CurOp(p).new \in Values /\ CurOp(p).expected \in Values
    BY <1>6, <1>op DEF Unlink, At, OnOp, Committing
  <2>1. DiskOK'
    BY <1>6, <2>op DEF TypeOK, DiskOK, Unlink, Values
  <2>2. WorkOK'
    BY <1>6 DEF TypeOK, WorkOK, Unlink, work
  <2>3. OutcomeOK'
    BY <1>6, <2>op DEF TypeOK, OutcomeOK, Unlink
  <2> QED BY <1>6, <2>1, <2>2, <2>3 DEF TypeOK, Unlink, LockOK, RequestOK, OthersOK, request, external, life
<1>7. CASE CommitBlocked(p)
  <2>1. WorkOK'
    BY <1>7 DEF TypeOK, WorkOK, CommitBlocked, Fail, work
  <2>2. OutcomeOK'
    BY <1>7 DEF TypeOK, OutcomeOK, CommitBlocked, Fail
  <2> QED BY <1>7, <2>1, <2>2 DEF TypeOK, CommitBlocked, Fail, DiskOK, LockOK, RequestOK, OthersOK, disk, request, external, life
<1>8. CASE ReadPacked(p)
  <2>1. WorkOK'
    BY <1>8 DEF TypeOK, WorkOK, ReadPacked, DiskOK, work
  <2> QED BY <1>8, <2>1 DEF TypeOK, ReadPacked, DiskOK, LockOK, RequestOK, OutcomeOK, OthersOK, disk, request, outcome, external, life
<1>9. CASE PackedUndecodable(p)
  <2>1. WorkOK'
    BY <1>9 DEF TypeOK, WorkOK, PackedUndecodable, Fail, work
  <2>2. OutcomeOK'
    BY <1>9 DEF TypeOK, OutcomeOK, PackedUndecodable, Fail
  <2> QED BY <1>9, <2>1, <2>2 DEF TypeOK, PackedUndecodable, Fail, DiskOK, LockOK, RequestOK, OthersOK, disk, request, external, life
<1>10. CASE RewritePacked(p)
  <2>op. cur[p] \in Refs /\ CurOp(p).new \in Values /\ CurOp(p).expected \in Values
    BY <1>10, <1>op DEF RewritePacked, At, OnOp, Committing
  <2>1. DiskOK'
    BY <1>10, <2>op DEF TypeOK, DiskOK, RewritePacked, WorkOK, Values
  <2>2. WorkOK'
    BY <1>10 DEF TypeOK, WorkOK, RewritePacked, work
  <2>3. OutcomeOK'
    BY <1>10, <2>op DEF TypeOK, OutcomeOK, RewritePacked
  <2> QED BY <1>10, <2>1, <2>2, <2>3 DEF TypeOK, RewritePacked, LockOK, RequestOK, OthersOK, request, external, life
<1>11. CASE DropLog(p)
  <2>op. cur[p] \in Refs /\ CurOp(p).new \in Values /\ CurOp(p).expected \in Values
    BY <1>11, <1>op DEF DropLog, At, OnOp, Committing
  <2>1. DiskOK'
    BY <1>11, <2>op, EmptyLog DEF TypeOK, DiskOK, DropLog
  <2>2. WorkOK'
    BY <1>11 DEF TypeOK, WorkOK, DropLog, work
  <2> QED BY <1>11, <2>1, <2>2 DEF TypeOK, DropLog, LockOK, RequestOK, OutcomeOK, OthersOK, request, outcome, external, life
<1>12. CASE Committed(p)
  <2>1. WorkOK'
    BY <1>12 DEF TypeOK, WorkOK, Committed, work
  <2>2. OutcomeOK'
    BY <1>12 DEF TypeOK, OutcomeOK, Committed
  <2> QED BY <1>12, <2>1, <2>2 DEF TypeOK, Committed, DiskOK, LockOK, RequestOK, OthersOK, disk, request, external, life
<1> QED BY <1>1, <1>2, <1>3, <1>4, <1>5, <1>6, <1>7, <1>8, <1>9, <1>10, <1>11, <1>12

\* Every variable keeps its type: switching HEAD and ending.
LEMMA TypeEnd ==
    ASSUME TypeOK, Control, NEW p \in Procs,
           LogSwitch(p) \/ SetHead(p) \/ Release(p) \/ PruneParents(p) \/ DropLease(p)
             \/ Crash(p) \/ RemoveOrphanLocks(p)
    PROVE  TypeOK'
<1>sw. target[p] # None => target[p] \in Refs
  BY DEF TypeOK, RequestOK
<1>1. CASE LogSwitch(p)
  <2>1. DiskOK'
    BY <1>1, <1>sw, VisibleType, AppendType DEF TypeOK, DiskOK, LogSwitch, LocksTaken
  <2>2. WorkOK'
    BY <1>1 DEF TypeOK, WorkOK, LogSwitch, LocksTaken, work
  <2> QED BY <1>1, <2>1, <2>2 DEF TypeOK, LogSwitch, LocksTaken, LockOK, RequestOK, OutcomeOK, OthersOK, request, outcome, external, life
<1>2. CASE SetHead(p)
  <2>1. DiskOK'
    BY <1>2, <1>sw DEF TypeOK, DiskOK, SetHead, Control, ControlOf, RequestOK, At
  <2>2. WorkOK'
    BY <1>2 DEF TypeOK, WorkOK, SetHead, work
  <2>3. OutcomeOK'
    BY <1>2 DEF TypeOK, OutcomeOK, SetHead
  <2> QED BY <1>2, <2>1, <2>2, <2>3 DEF TypeOK, SetHead, LockOK, RequestOK, OthersOK, request, external, life
<1>3. CASE Release(p)
  <2>1. DiskOK'
    BY <1>3 DEF TypeOK, DiskOK, Release, Pruned
  <2>2. LockOK'
    BY <1>3 DEF TypeOK, LockOK, Release
  <2> QED BY <1>3, <2>1, <2>2 DEF TypeOK, Release, RequestOK, WorkOK, OutcomeOK, OthersOK, request,
                                  work, outcome, external, life
<1>4. CASE PruneParents(p)
  <2>1. DiskOK'
    BY <1>4 DEF TypeOK, DiskOK, PruneParents, Pruned
  <2>2. WorkOK'
    BY <1>4 DEF TypeOK, WorkOK, PruneParents, work
  <2> QED BY <1>4, <2>1, <2>2 DEF TypeOK, PruneParents, LockOK, RequestOK, OutcomeOK, OthersOK,
                                  request, outcome, external, life
<1>5. CASE DropLease(p)
  <2>1. LockOK'
    BY <1>5 DEF TypeOK, LockOK, DropLease, Forget
  <2>2. RequestOK'
    BY <1>5 DEF TypeOK, RequestOK, DropLease, Forget
  <2>3. WorkOK'
    BY <1>5, ScopeAssumption DEF TypeOK, WorkOK, DropLease, Forget, work, Values
  <2> QED BY <1>5, <2>1, <2>2, <2>3 DEF TypeOK, DropLease, Forget, DiskOK, OutcomeOK, OthersOK, disk, outcome, external, life
<1>6. CASE Crash(p)
  <2>1. OthersOK'
    BY <1>6 DEF TypeOK, OthersOK, Crash, external, life
  <2> QED BY <1>6, <2>1 DEF TypeOK, Crash, DiskOK, LockOK, RequestOK, WorkOK, OutcomeOK, disk, request, work, outcome
<1>7. CASE RemoveOrphanLocks(p)
  <2>1. LockOK'
    BY <1>7 DEF TypeOK, LockOK, RemoveOrphanLocks, Forget, Unlocked
  <2>2. RequestOK'
    BY <1>7 DEF TypeOK, RequestOK, RemoveOrphanLocks, Forget
  <2>3. WorkOK'
    BY <1>7, ScopeAssumption DEF TypeOK, WorkOK, RemoveOrphanLocks, Forget, work, Values
  <2>4. OthersOK'
    BY <1>7 DEF TypeOK, OthersOK, RemoveOrphanLocks, Forget, external, life
  <2> QED BY <1>7, <2>1, <2>2, <2>3, <2>4 DEF TypeOK, RemoveOrphanLocks, Forget, DiskOK, OutcomeOK, disk, outcome
<1> QED BY <1>1, <1>2, <1>3, <1>4, <1>5, <1>6, <1>7

\* Every variable keeps its type: the steps of stock git.
LEMMA TypeGit ==
    ASSUME TypeOK, Control, NEW g \in Gits, GitStep(g)
    PROVE  TypeOK'
<1>ref. git[g].pc \in {"ref", "both"} => git[g].ref \in Refs
  BY DEF Control
<1>none. None \in Values
  BY DEF Values
<1>log. \A n \in Refs, new \in Values :
          GitLog(g, n, new) \in [Refs \cup {HeadLock} -> Seq([old : Values, new : Values])]
  <2> TAKE n \in Refs, new \in Values
  <2>1. Entry(Visible(n), new) \in [old : Values, new : Values]
    BY VisibleType DEF Entry
  <2>2. \A m \in Refs \cup {HeadLock} : logs[m] \in Seq([old : Values, new : Values])
    BY DEF TypeOK, DiskOK
  <2>3. \A m \in Refs \cup {HeadLock} :
          Append(logs[m], Entry(Visible(n), new)) \in Seq([old : Values, new : Values])
    BY <2>1, <2>2, AppendSeq
  <2> QED BY <2>2, <2>3 DEF GitLog
<1>1. CASE GitLockRef(g)
  <2>1. DiskOK'
    BY <1>1 DEF TypeOK, DiskOK, GitLockRef, Above
  <2>2. LockOK'
    BY <1>1, OwnerAssumption DEF TypeOK, LockOK, GitLockRef, Locks, GitUnchanged
  <2>3. OthersOK'
    BY <1>1 DEF TypeOK, OthersOK, GitLockRef, GitAt, GitIdle, GitUnchanged, life
  <2> QED BY <1>1, <2>1, <2>2, <2>3 DEF TypeOK, GitLockRef, GitUnchanged, RequestOK, WorkOK, OutcomeOK, request, work, outcome
<1>2. CASE GitUpdate(g)
  <2>1. DiskOK'
    <3>1. loose' \in [Refs -> Values]
      BY <1>2, <1>ref DEF TypeOK, DiskOK, GitUpdate, Values
    <3>2. logs' \in [Refs \cup {HeadLock} -> Seq([old : Values, new : Values])]
      <4>1. git[g].ref \in Refs
        BY <1>2, <1>ref DEF GitUpdate
      <4>2. PICK v \in Oids : logs' = GitLog(g, git[g].ref, v)
        BY <1>2 DEF GitUpdate
      <4>3. v \in Values
        BY DEF Values
      <4> QED BY <4>1, <4>2, <4>3, <1>log
    <3> QED BY <1>2, <3>1, <3>2 DEF TypeOK, DiskOK, GitUpdate, Pruned
  <2>2. LockOK'
    BY <1>2 DEF TypeOK, LockOK, GitUpdate, Locks, GitUnchanged, Unlocked
  <2>3. OthersOK'
    BY <1>2 DEF TypeOK, OthersOK, GitUpdate, GitAt, GitIdle, GitUnchanged, life
  <2> QED BY <1>2, <2>1, <2>2, <2>3 DEF TypeOK, GitUpdate, GitUnchanged, RequestOK, WorkOK, OutcomeOK, request, work, outcome
<1>3. CASE GitLockPacked(g)
  <2>1. LockOK'
    BY <1>3 DEF TypeOK, LockOK, GitLockPacked, Locks, GitUnchanged
  <2>2. OthersOK'
    BY <1>3 DEF TypeOK, OthersOK, GitLockPacked, GitAt, GitIdle, GitUnchanged, life
  <2> QED BY <1>3, <2>1, <2>2 DEF TypeOK, GitLockPacked, GitUnchanged, DiskOK, RequestOK, WorkOK, OutcomeOK, disk, request, work, outcome
<1>4. CASE GitDelete(g)
  <2>1. DiskOK'
    BY <1>4, <1>ref, <1>log, <1>none, EmptyLog DEF TypeOK, DiskOK, GitDelete, Pruned
  <2>2. LockOK'
    BY <1>4 DEF TypeOK, LockOK, GitDelete, Locks, GitUnchanged, Unlocked
  <2>3. OthersOK'
    BY <1>4 DEF TypeOK, OthersOK, GitDelete, GitAt, GitIdle, GitUnchanged, life
  <2> QED BY <1>4, <2>1, <2>2, <2>3 DEF TypeOK, GitDelete, GitUnchanged, RequestOK, WorkOK, OutcomeOK, request, work, outcome
<1>5. CASE GitAbort(g)
  <2>1. DiskOK'
    BY <1>5 DEF TypeOK, DiskOK, GitAbort, Pruned
  <2>2. LockOK'
    BY <1>5 DEF TypeOK, LockOK, GitAbort, Locks, GitUnchanged, Unlocked
  <2>3. OthersOK'
    BY <1>5 DEF TypeOK, OthersOK, GitAbort, GitAt, GitIdle, GitUnchanged, life
  <2> QED BY <1>5, <2>1, <2>2, <2>3 DEF TypeOK, GitAbort, GitUnchanged, RequestOK, WorkOK, OutcomeOK, request, work, outcome
<1>6. CASE GitPackLock(g)
  <2>1. LockOK'
    BY <1>6 DEF TypeOK, LockOK, GitPackLock, Locks, GitUnchanged
  <2>2. OthersOK'
    BY <1>6 DEF TypeOK, OthersOK, GitPackLock, GitAt, GitIdle, GitUnchanged, life
  <2> QED BY <1>6, <2>1, <2>2 DEF TypeOK, GitPackLock, GitUnchanged, DiskOK, RequestOK, WorkOK, OutcomeOK, disk, request, work, outcome
<1>7. CASE GitPack(g)
  <2>1. DiskOK'
    BY <1>7, VisibleType DEF TypeOK, DiskOK, GitPack
  <2>2. LockOK'
    BY <1>7 DEF TypeOK, LockOK, GitPack, Locks, GitUnchanged, Unlocked
  <2>3. OthersOK'
    BY <1>7 DEF TypeOK, OthersOK, GitPack, GitAt, GitIdle, GitUnchanged, life
  <2> QED BY <1>7, <2>1, <2>2, <2>3 DEF TypeOK, GitPack, GitUnchanged, RequestOK, WorkOK, OutcomeOK, request, work, outcome
<1>8. CASE GitPrune(g)
  <2>1. DiskOK'
    BY <1>8, <1>none DEF TypeOK, DiskOK, GitPrune, Pruned
  <2>2. OthersOK'
    BY <1>8 DEF TypeOK, OthersOK, GitPrune, GitAt, GitIdle, GitUnchanged, life
  <2> QED BY <1>8, <2>1, <2>2 DEF TypeOK, GitPrune, GitUnchanged, LockOK, RequestOK, WorkOK, OutcomeOK, request, work, outcome
<1>9. CASE GitSwitch(g)
  <2>1. DiskOK'
    BY <1>9, RequestAssumption, VisibleType, AppendType DEF TypeOK, DiskOK, GitSwitch, AppendLog
  <2>2. OthersOK'
    BY <1>9 DEF TypeOK, OthersOK, GitSwitch, GitAt, GitIdle, GitUnchanged, life
  <2> QED BY <1>9, <2>1, <2>2 DEF TypeOK, GitSwitch, GitUnchanged, LockOK, RequestOK, WorkOK, OutcomeOK, request, work, outcome
<1> QED BY <1>1, <1>2, <1>3, <1>4, <1>5, <1>6, <1>7, <1>8, <1>9 DEF GitStep

(***************************************************************************)
(* The inductive invariant.                                                *)
(***************************************************************************)

\* A process holds every lock its batch needs that it does not still want;
\* packed-refs.lock is the last it takes; it holds none while it is not at work.
HoldsOf(p) ==
    /\ pc[p] \in {"idle", "lease", "plan", "unlease"} => HeldBy(p) = {}
    /\ pc[p] \in Committing \cup {"lock", "validate", "sethead"} =>
         NeededLocks(p) \ want[p] \subseteq HeldBy(p)
    /\ pc[p] \in Committing \cup {"validate", "sethead"} => want[p] = {}
    /\ pc[p] = "lock" /\ lock[PackedLock] = p => want[p] = {}

\* Stock git holds the lock of what it is about to write.
GitHoldsOf(g) ==
    /\ git[g].pc \in {"ref", "both"} => lock[git[g].ref] = g
    /\ git[g].pc \in {"both", "pack"} => lock[PackedLock] = g

Holding == (\A p \in Procs : HoldsOf(p)) /\ (\A g \in Gits : GitHoldsOf(g))

\* p is between the two halves of deleting n.
Deleting(p, n) == n = cur[p] /\ pc[p] \in {"readpacked", "rewrite", "unlog"}

\* What was validated stays valid until it is written.
CurrentOf(p) ==
    /\ pc[p] = "validate" =>
         \A n \in DOMAIN plan[p] \ todo[p] : Visible(n) = plan[p][n].expected
    /\ pc[p] \in Committing =>
         \A n \in todo[p] : Visible(n) = plan[p][n].expected \/ Deleting(p, n)
    /\ pc[p] = "rewrite" => snap[p] = packed

Current == \A p \in Procs : CurrentOf(p)

IndInv == TypeOK /\ Control /\ Holding /\ Current

-----------------------------------------------------------------------------
(***************************************************************************)
(* What a step of one participant leaves to the others.                    *)
(***************************************************************************)

\* Everything process q relies on but the refs is as it was.
Kept(q) ==
    /\ pc'[q] = pc[q] /\ plan'[q] = plan[q] /\ target'[q] = target[q]
    /\ casc'[q] = casc[q] /\ want'[q] = want[q] /\ todo'[q] = todo[q]
    /\ cur'[q] = cur[q] /\ snap'[q] = snap[q]
    /\ \A l \in Locks : lock'[l] = q <=> lock[l] = q

OpStep(p) == Transact(p) \/ SetSymbolic(p) \/ ProcessStep(p) \/ Crash(p) \/ RemoveOrphanLocks(p)

\* A step of one gitana process neither moves another nor touches its locks.
LEMMA OtherProcessKept ==
    ASSUME TypeOK, NEW p \in Procs, NEW q \in Procs \ {p}, OpStep(p)
    PROVE  Kept(q)
<1> USE DEF Kept
<1>1. CASE Transact(p) \/ SetSymbolic(p)
  BY <1>1 DEF Transact, SetSymbolic, Submit, work, TypeOK, RequestOK, WorkOK
<1>2. CASE AcquireLease(p) \/ LeaseBackoff(p) \/ LeaseTimeout(p) \/ PlanLocks(p)
  BY <1>2 DEF AcquireLease, LeaseBackoff, LeaseTimeout, PlanLocks, request, TypeOK, WorkOK
<1>3. CASE AcquireLock(p)
  BY <1>3, OwnerAssumption DEF AcquireLock, request, TypeOK, LockOK, WorkOK
<1>4. CASE LockBackoff(p) \/ LockTimeout(p) \/ LockBlocked(p)
  BY <1>4 DEF LockBackoff, LockTimeout, LockBlocked, Fail, request, work, TypeOK, WorkOK
<1>5. CASE Confirm(p) \/ HeadMoved(p) \/ ValidateOp(p) \/ RejectOp(p) \/ AllValid(p)
  BY <1>5 DEF Confirm, HeadMoved, ValidateOp, RejectOp, AllValid, Fail, request, work,
              TypeOK, WorkOK
<1>6. CASE BeginOp(p) \/ LogRef(p) \/ LogRefBlocked(p) \/ LogHead(p)
  BY <1>6 DEF BeginOp, LogRef, LogRefBlocked, LogHead, Fail, request, work, TypeOK, WorkOK
<1>7. CASE WriteRef(p) \/ Unlink(p) \/ CommitBlocked(p)
  BY <1>7 DEF WriteRef, Unlink, CommitBlocked, Fail, request, work, TypeOK, WorkOK
<1>8. CASE ReadPacked(p) \/ PackedUndecodable(p) \/ RewritePacked(p) \/ DropLog(p) \/ Committed(p)
  BY <1>8 DEF ReadPacked, PackedUndecodable, RewritePacked, DropLog, Committed, Fail,
              request, work, TypeOK, WorkOK
<1>9. CASE LogSwitch(p) \/ SetHead(p)
  BY <1>9 DEF LogSwitch, SetHead, request, work, TypeOK, WorkOK
<1>10. CASE Release(p) \/ PruneParents(p)
  BY <1>10, OwnerAssumption DEF Release, PruneParents, HeldBy, request, work, TypeOK, LockOK, WorkOK
<1>11. CASE DropLease(p) \/ Crash(p)
  BY <1>11 DEF DropLease, Crash, Forget, request, work, TypeOK, RequestOK, WorkOK
<1>12. CASE RemoveOrphanLocks(p)
  BY <1>12, OwnerAssumption DEF RemoveOrphanLocks, Forget, Unlocked, TypeOK, LockOK, RequestOK,
              WorkOK
<1> QED BY <1>1, <1>2, <1>3, <1>4, <1>5, <1>6, <1>7, <1>8, <1>9, <1>10, <1>11, <1>12
        DEF OpStep, ProcessStep

\* A step of stock git moves no gitana process and touches none of its locks.
LEMMA GitKeepsProcess ==
    ASSUME TypeOK, NEW g \in Gits, NEW q \in Procs, GitStep(g)
    PROVE  Kept(q)
<1>1. UNCHANGED <<pc, request, work>>
  BY DEF GitStep, GitLockRef, GitUpdate, GitLockPacked, GitDelete, GitAbort, GitPackLock,
         GitPack, GitPrune, GitSwitch, GitUnchanged
<1>2. g # q /\ q # Free
  BY OwnerAssumption
<1>3. ASSUME NEW l \in Locks PROVE lock'[l] = q <=> lock[l] = q
  <2>1. CASE GitLockRef(g)
    BY <1>2, <1>3, <2>1 DEF GitLockRef
  <2>2. CASE GitLockPacked(g) \/ GitPackLock(g)
    BY <1>2, <1>3, <2>2 DEF GitLockPacked, GitPackLock, TypeOK, LockOK
  <2>3. CASE GitUpdate(g) \/ GitDelete(g) \/ GitAbort(g) \/ GitPack(g)
    BY <1>2, <1>3, <2>3 DEF GitUpdate, GitDelete, GitAbort, GitPack, Unlocked
  <2>4. CASE GitPrune(g) \/ GitSwitch(g)
    BY <2>4 DEF GitPrune, GitSwitch
  <2> QED BY <2>1, <2>2, <2>3, <2>4 DEF GitStep
<1> QED BY <1>1, <1>3 DEF Kept, request, work

\* A step of a gitana process leaves stock git and its locks alone.
LEMMA ProcessLeavesGit ==
    ASSUME NEW p \in Procs, OpStep(p)
    PROVE  git' = git
BY DEF OpStep, Transact, SetSymbolic, Submit, Crash, RemoveOrphanLocks, ProcessStep,
       AcquireLease, LeaseBackoff, LeaseTimeout, PlanLocks, AcquireLock, LockBackoff,
       LockTimeout, LockBlocked, Confirm, HeadMoved, ValidateOp, RejectOp, AllValid, BeginOp,
       LogRef, LogRefBlocked, LogHead, WriteRef, Unlink, CommitBlocked, ReadPacked,
       PackedUndecodable, RewritePacked, DropLog, Committed, LogSwitch, SetHead, Release,
       PruneParents, DropLease, Fail, external

\* No step of a gitana process takes or drops a lock that stock git holds.
LEMMA ProcessKeepsGitLocks ==
    ASSUME TypeOK, NEW p \in Procs, NEW g \in Gits, OpStep(p), NEW l \in Locks
    PROVE  lock'[l] = g <=> lock[l] = g
<1>1. g # p /\ g # Free
  BY OwnerAssumption
<1>2. CASE AcquireLock(p)
  BY <1>1, <1>2 DEF AcquireLock, TypeOK, LockOK
<1>3. CASE Release(p) \/ RemoveOrphanLocks(p)
  BY <1>1, <1>3 DEF Release, RemoveOrphanLocks, Unlocked, HeldBy, TypeOK, LockOK
<1>4. CASE ~(AcquireLock(p) \/ Release(p) \/ RemoveOrphanLocks(p))
  <2>1. UNCHANGED lock
    BY <1>4
       DEF OpStep, Transact, SetSymbolic, Submit, Crash, ProcessStep, AcquireLease,
           LeaseBackoff, LeaseTimeout, PlanLocks, LockBackoff, LockTimeout, LockBlocked,
           Confirm, HeadMoved, ValidateOp, RejectOp, AllValid, BeginOp, LogRef,
           LogRefBlocked, LogHead, WriteRef, Unlink, CommitBlocked, ReadPacked,
           PackedUndecodable, RewritePacked, DropLog, Committed, LogSwitch, SetHead,
           PruneParents, DropLease, Fail
  <2> QED BY <2>1
<1> QED BY <1>2, <1>3, <1>4

-----------------------------------------------------------------------------
(***************************************************************************)
(* Control.                                                                *)
(***************************************************************************)

\* The process that takes the step still works on its own request.
LEMMA ControlOwn ==
    ASSUME TypeOK, Control, NEW p \in Procs, OpStep(p)
    PROVE  ControlOf(p)'
<1> USE DEF ControlOf, At
<1>0. ControlOf(p)
  BY DEF Control
<1>1. CASE pc'[p] \notin Committing \cup {"validate", "sethead"}
  BY <1>1 DEF OnOp
<1>2. CASE Confirm(p)
  BY <1>2 DEF Confirm, LocksTaken, OnOp, Committing, request, TypeOK, WorkOK
<1>3. CASE ValidateOp(p) \/ AllValid(p)
  BY <1>0, <1>3 DEF ValidateOp, AllValid, OnOp, Committing, request, TypeOK, WorkOK
<1>4. CASE BeginOp(p)
  BY <1>0, <1>4 DEF BeginOp, OnOp, Committing, request, TypeOK, WorkOK
<1>5. CASE LogRef(p) \/ LogHead(p)
  BY <1>0, <1>5 DEF LogRef, LogHead, OnOp, Committing, request, work, TypeOK, WorkOK
<1>6. CASE WriteRef(p) \/ DropLog(p)
  BY <1>0, <1>6 DEF WriteRef, DropLog, OnOp, Committing, request, TypeOK, WorkOK
<1>7. CASE Unlink(p) \/ ReadPacked(p) \/ RewritePacked(p)
  BY <1>0, <1>7 DEF Unlink, ReadPacked, RewritePacked, OnOp, Committing, request, work,
                    TypeOK, WorkOK
<1>8. CASE LogSwitch(p)
  BY <1>8 DEF LogSwitch, LocksTaken, OnOp, Committing, request, TypeOK, WorkOK
<1>9. CASE Crash(p)
  BY <1>0, <1>9 DEF Crash, request, work
<1>10. CASE Transact(p) \/ SetSymbolic(p) \/ AcquireLease(p) \/ LeaseTimeout(p) \/ PlanLocks(p)
  <2>1. pc'[p] \in {"idle", "lease", "plan", "lock"}
    BY <1>10 DEF Transact, SetSymbolic, Submit, AcquireLease, LeaseTimeout, PlanLocks, TypeOK,
                 WorkOK
  <2> QED BY <1>1, <2>1 DEF Committing
<1>11. CASE LeaseBackoff(p) \/ AcquireLock(p) \/ LockBackoff(p)
  <2>1. pc'[p] \in {"lease", "lock"}
    BY <1>11 DEF LeaseBackoff, AcquireLock, LockBackoff, Locking
  <2> QED BY <1>1, <2>1 DEF Committing
<1>12. CASE \/ LockTimeout(p) \/ LockBlocked(p) \/ HeadMoved(p) \/ RejectOp(p)
            \/ LogRefBlocked(p) \/ CommitBlocked(p) \/ PackedUndecodable(p)
            \/ Committed(p) \/ SetHead(p)
  <2>1. pc'[p] = "release"
    BY <1>12 DEF LockTimeout, LockBlocked, HeadMoved, RejectOp, LogRefBlocked, CommitBlocked,
                 PackedUndecodable, Committed, SetHead, Fail, TypeOK, WorkOK
  <2> QED BY <1>1, <2>1 DEF Committing
<1>13. CASE Release(p) \/ PruneParents(p) \/ DropLease(p) \/ RemoveOrphanLocks(p)
  <2>1. pc'[p] \in {"idle", "release", "unlease"}
    BY <1>13 DEF Release, PruneParents, DropLease, RemoveOrphanLocks, Forget, TypeOK, WorkOK
  <2> QED BY <1>1, <2>1 DEF Committing
<1> QED BY <1>2, <1>3, <1>4, <1>5, <1>6, <1>7, <1>8, <1>9, <1>10, <1>11, <1>12, <1>13
        DEF OpStep, ProcessStep

\* A step that leaves the phases, the queues and the pending ops alone keeps Control.
LEMMA ControlKept ==
    ASSUME NEW q \in Procs, ControlOf(q), Kept(q)
    PROVE  ControlOf(q)'
BY DEF ControlOf, Kept

\* Stock git names a ref while it holds ref locks.
LEMMA GitNamesRef ==
    ASSUME TypeOK, Control, NEW g \in Gits, GitStep(g), NEW h \in Gits,
           git'[h].pc \in {"ref", "both"}
    PROVE  git'[h].ref \in Refs
<1>1. git \in [Gits -> [pc : {"idle", "ref", "both", "pack"}, ref : Refs \cup {None}]]
  BY DEF TypeOK, OthersOK
<1>2. git[h].pc \in {"ref", "both"} => git[h].ref \in Refs
  BY DEF Control
<1>3. CASE GitLockRef(g) \/ GitLockPacked(g)
  BY <1>1, <1>2, <1>3 DEF GitLockRef, GitLockPacked, GitAt
<1>4. CASE GitUpdate(g) \/ GitDelete(g) \/ GitAbort(g) \/ GitPack(g)
  <2>1. git' = [git EXCEPT ![g] = [pc |-> "idle", ref |-> None]]
    BY <1>4 DEF GitUpdate, GitDelete, GitAbort, GitPack, GitAt
  <2> QED BY <1>1, <1>2, <2>1
<1>5. CASE GitPrune(g) \/ GitSwitch(g)
  <2>1. git' = [git EXCEPT ![g] = [pc |-> "idle", ref |-> None]]
    BY <1>5 DEF GitPrune, GitSwitch, GitAt
  <2> QED BY <1>1, <1>2, <2>1
<1>6. CASE GitPackLock(g)
  <2>1. git' = [git EXCEPT ![g] = [pc |-> "pack", ref |-> None]]
    BY <1>6 DEF GitPackLock, GitAt
  <2> QED BY <1>1, <1>2, <2>1
<1> QED BY <1>3, <1>4, <1>5, <1>6 DEF GitStep

\* Every step keeps Control: a process's phase agrees with its locks still to take, ops and lease.
LEMMA ControlStep ==
    ASSUME TypeOK, Control, Next
    PROVE  Control'
<1>1. CASE \E p \in Procs : OpStep(p)
  <2> PICK p \in Procs : OpStep(p)
    BY <1>1
  <2>1. \A q \in Procs : ControlOf(q)'
    BY ControlOwn, ControlKept, OtherProcessKept DEF Control
  <2>2. git' = git
    BY ProcessLeavesGit
  <2> QED BY <2>1, <2>2 DEF Control
<1>2. CASE \E g \in Gits : GitStep(g)
  BY <1>2, ControlKept, GitKeepsProcess, GitNamesRef DEF Control
<1> QED BY <1>1, <1>2 DEF Next, OpStep

-----------------------------------------------------------------------------
(***************************************************************************)
(* Holding.                                                                *)
(***************************************************************************)

\* What p needs and holds only depends on its request, cascade, want and locks.
LEMMA SameNeeds ==
    ASSUME NEW p \in Procs, plan'[p] = plan[p], target'[p] = target[p], casc'[p] = casc[p]
    PROVE  NeededLocks(p)' = NeededLocks(p)
BY DEF NeededLocks

\* A process that keeps its phase and its locks still holds what its phase requires.
LEMMA HoldsKept ==
    ASSUME NEW q \in Procs, HoldsOf(q), Kept(q)
    PROVE  HoldsOf(q)'
<1>1. HeldBy(q)' = HeldBy(q)
  BY DEF HeldBy, Kept
<1>2. NeededLocks(q)' = NeededLocks(q)
  BY SameNeeds DEF Kept
<1>3. PackedLock \in Locks
  BY DEF Locks
<1> QED BY <1>1, <1>2, <1>3 DEF HoldsOf, Kept

\* packed-refs.lock comes last in the lock order.
LEMMA PackedIsLast ==
    ASSUME NEW p \in Procs, IsNext(p, PackedLock)
    PROVE  want[p] = {PackedLock}
BY RefAssumption DEF IsNext, Precedes, PackedLock, HeadLock

\* The steps that take no lock, keep what p needs and stay at work.
QuietStep(p) ==
    \/ LockBackoff(p) \/ ValidateOp(p) \/ AllValid(p) \/ BeginOp(p) \/ LogRef(p) \/ LogHead(p)
    \/ WriteRef(p) \/ Unlink(p) \/ ReadPacked(p) \/ RewritePacked(p) \/ DropLog(p) \/ Crash(p)

\* The steps that end an operation or begin one.
FailStep(p) ==
    \/ LockTimeout(p) \/ LockBlocked(p) \/ HeadMoved(p) \/ RejectOp(p) \/ LogRefBlocked(p)
    \/ CommitBlocked(p) \/ PackedUndecodable(p) \/ Committed(p) \/ SetHead(p)

\* The process that takes the step still holds what it needs.
LEMMA HoldsOwn ==
    ASSUME TypeOK, Control, NEW p \in Procs, HoldsOf(p), OpStep(p)
    PROVE  HoldsOf(p)'
<1> USE DEF At
<1>0. p # Free
  BY OwnerAssumption
<1>1. CASE Transact(p) \/ SetSymbolic(p) \/ AcquireLease(p) \/ LeaseBackoff(p) \/ LeaseTimeout(p)
  <2>1. HeldBy(p) = {} /\ lock' = lock
    BY <1>1 DEF HoldsOf, Transact, SetSymbolic, Submit, AcquireLease, LeaseBackoff, LeaseTimeout
  <2>2. pc'[p] \in {"idle", "lease", "plan"}
    BY <1>1 DEF Transact, SetSymbolic, Submit, AcquireLease, LeaseBackoff, LeaseTimeout, TypeOK,
                WorkOK
  <2>3. HeldBy(p)' = {}
    BY <2>1 DEF HeldBy
  <2> QED BY <2>2, <2>3 DEF HoldsOf, Committing
<1>2. CASE PlanLocks(p)
  <2>1. HeldBy(p) = {} /\ lock' = lock /\ pc'[p] = "lock"
    BY <1>2 DEF HoldsOf, PlanLocks, TypeOK, WorkOK
  <2>2. HeldBy(p)' = {}
    BY <2>1 DEF HeldBy
  <2>3. NeededLocks(p)' \subseteq want'[p]
    BY <1>2 DEF PlanLocks, NeededLocks, TransactionLocks, request, TypeOK, WorkOK
  <2>4. lock'[PackedLock] # p
    BY <2>2 DEF HeldBy, Locks
  <2> QED BY <2>1, <2>2, <2>3, <2>4 DEF HoldsOf, Committing
<1>3. CASE AcquireLock(p)
  <2> PICK l \in Locks :
        /\ Locking(p, l)
        /\ lock' = [lock EXCEPT ![l] = p]
        /\ want' = [want EXCEPT ![p] = @ \ {l}]
    BY <1>3 DEF AcquireLock
  <2>1. /\ pc[p] = "lock" /\ pc' = pc /\ IsNext(p, l)
        /\ lock \in [Locks -> Procs \cup Gits \cup {Free}]
        /\ want \in [Procs -> SUBSET Locks]
    BY <1>3 DEF AcquireLock, Locking, TypeOK, LockOK, WorkOK
  <2>2. NeededLocks(p)' = NeededLocks(p)
    BY <1>3, SameNeeds DEF AcquireLock, request
  <2>3. HeldBy(p)' = HeldBy(p) \cup {l}
    BY <2>1 DEF HeldBy
  <2>4. NeededLocks(p)' \ want'[p] \subseteq HeldBy(p)'
    BY <2>1, <2>2, <2>3 DEF HoldsOf
  <2>5. lock'[PackedLock] = p => want'[p] = {}
    <3>1. CASE l = PackedLock
      BY <2>1, <3>1, PackedIsLast
    <3>2. CASE l # PackedLock
      <4>1. lock'[PackedLock] = lock[PackedLock] /\ want[p] # {}
        BY <2>1, <3>2 DEF IsNext, Locks
      <4> QED BY <2>1, <4>1 DEF HoldsOf
    <3> QED BY <3>1, <3>2
  <2> QED BY <2>1, <2>4, <2>5 DEF HoldsOf, Committing
<1>4. CASE FailStep(p)
  <2>1. pc'[p] = "release"
    BY <1>4 DEF FailStep, LockTimeout, LockBlocked, HeadMoved, RejectOp, LogRefBlocked,
                CommitBlocked, PackedUndecodable, Committed, SetHead, Fail, TypeOK, WorkOK
  <2> QED BY <2>1 DEF HoldsOf, Committing
<1>5. CASE Confirm(p)
  <2>1. /\ want'[p] = {} /\ pc[p] = "lock" /\ pc'[p] = "validate"
        /\ HeldBy(p)' = HeldBy(p)
    BY <1>5 DEF Confirm, LocksTaken, HeldBy, TypeOK, WorkOK
  <2>2. NeededLocks(p)' \subseteq NeededLocks(p)
    BY <1>5 DEF Confirm, NeededLocks, request, TypeOK, WorkOK
  <2>3. want[p] = {} /\ NeededLocks(p) \ want[p] \subseteq HeldBy(p)
    BY <1>5, <2>1 DEF Confirm, LocksTaken, HoldsOf
  <2> QED BY <2>1, <2>2, <2>3 DEF HoldsOf, Committing
<1>6. CASE QuietStep(p)
  <2>1. /\ lock' = lock /\ want'[p] = want[p]
        /\ plan'[p] = plan[p] /\ target'[p] = target[p] /\ casc'[p] = casc[p]
    BY <1>6 DEF QuietStep, LockBackoff, ValidateOp, AllValid, BeginOp, LogRef, LogHead, WriteRef,
                Unlink, ReadPacked, RewritePacked, DropLog, Crash, request, work
  <2>2. \/ pc'[p] = pc[p]
        \/ pc[p] \in Committing \cup {"validate"} /\ pc'[p] \in Committing
    BY <1>6 DEF QuietStep, LockBackoff, ValidateOp, AllValid, BeginOp, LogRef, LogHead, WriteRef,
                Unlink, ReadPacked, RewritePacked, DropLog, Crash, Committing, TypeOK, WorkOK
  <2>3. HeldBy(p)' = HeldBy(p) /\ NeededLocks(p)' = NeededLocks(p)
    BY <2>1, SameNeeds DEF HeldBy
  <2> QED BY <2>1, <2>2, <2>3 DEF HoldsOf, Committing
<1>7. CASE LogSwitch(p)
  <2>1. /\ want'[p] = want[p] /\ want[p] = {} /\ pc[p] = "lock" /\ pc'[p] = "sethead"
        /\ HeldBy(p)' = HeldBy(p) /\ NeededLocks(p)' = NeededLocks(p)
    BY <1>7 DEF LogSwitch, LocksTaken, HeldBy, NeededLocks, request, work, TypeOK, WorkOK
  <2> QED BY <2>1 DEF HoldsOf, Committing
<1>8. CASE Release(p)
  <2>1. pc'[p] = "release"
    BY <1>8 DEF Release
  <2> QED BY <2>1 DEF HoldsOf, Committing
<1>9. CASE PruneParents(p)
  <2>1. pc'[p] = "unlease" /\ HeldBy(p)' = {}
    BY <1>9 DEF PruneParents, HeldBy, TypeOK, WorkOK
  <2> QED BY <2>1 DEF HoldsOf, Committing
<1>10. CASE RemoveOrphanLocks(p)
  <2>1. pc'[p] = "idle" /\ HeldBy(p)' = {}
    BY <1>0, <1>10 DEF RemoveOrphanLocks, Forget, HeldBy, Unlocked, TypeOK, WorkOK
  <2> QED BY <2>1 DEF HoldsOf, Committing
<1>11. CASE DropLease(p)
  <2>1. pc'[p] = "idle" /\ HeldBy(p)' = HeldBy(p) /\ HeldBy(p) = {}
    BY <1>11 DEF DropLease, Forget, HoldsOf, HeldBy, TypeOK, WorkOK
  <2> QED BY <2>1 DEF HoldsOf, Committing
<1> QED BY <1>1, <1>2, <1>3, <1>4, <1>5, <1>6, <1>7, <1>8, <1>9, <1>10, <1>11
        DEF OpStep, ProcessStep, FailStep, QuietStep

\* A stock git process touches no lock of another.
LEMMA OtherGitKept ==
    ASSUME TypeOK, NEW g \in Gits, GitStep(g), NEW h \in Gits \ {g}
    PROVE  git'[h] = git[h] /\ \A l \in Locks : lock[l] = h => lock'[l] = h
<1>1. h # Free /\ git \in [Gits -> [pc : {"idle", "ref", "both", "pack"}, ref : Refs \cup {None}]]
  BY OwnerAssumption DEF TypeOK, OthersOK
<1>2. git'[h] = git[h]
  BY <1>1 DEF GitStep, GitLockRef, GitUpdate, GitLockPacked, GitDelete, GitAbort, GitPackLock,
              GitPack, GitPrune, GitSwitch, GitAt
<1>3. ASSUME NEW l \in Locks, lock[l] = h PROVE lock'[l] = h
  <2>1. CASE GitLockRef(g)
    BY <1>1, <1>3, <2>1 DEF GitLockRef
  <2>2. CASE GitLockPacked(g) \/ GitPackLock(g)
    BY <1>1, <1>3, <2>2 DEF GitLockPacked, GitPackLock, TypeOK, LockOK
  <2>3. CASE GitUpdate(g) \/ GitDelete(g) \/ GitAbort(g) \/ GitPack(g)
    BY <1>1, <1>3, <2>3 DEF GitUpdate, GitDelete, GitAbort, GitPack, Unlocked
  <2>4. CASE GitPrune(g) \/ GitSwitch(g)
    BY <1>3, <2>4 DEF GitPrune, GitSwitch
  <2> QED BY <2>1, <2>2, <2>3, <2>4 DEF GitStep
<1> QED BY <1>2, <1>3

\* What a git process has read it read under the lock it still holds.
LEMMA GitHoldsOwn ==
    ASSUME TypeOK, Control, NEW g \in Gits, GitHoldsOf(g), GitStep(g)
    PROVE  GitHoldsOf(g)'
<1> USE DEF GitHoldsOf
<1>1. /\ git \in [Gits -> [pc : {"idle", "ref", "both", "pack"}, ref : Refs \cup {None}]]
      /\ lock \in [Locks -> Procs \cup Gits \cup {Free}]
  BY DEF TypeOK, OthersOK, LockOK
<1>2. CASE GitLockRef(g)
  BY <1>1, <1>2 DEF GitLockRef, GitAt, Locks
<1>3. CASE GitLockPacked(g)
  <2>1. git[g].ref \in Refs /\ PackedLock \notin Refs
    BY <1>3, RefAssumption DEF GitLockPacked, Control
  <2> QED BY <1>1, <1>3, <2>1 DEF GitLockPacked, GitAt, Locks
<1>4. CASE GitPackLock(g)
  BY <1>1, <1>4 DEF GitPackLock, GitAt, Locks
<1>5. CASE GitUpdate(g) \/ GitDelete(g) \/ GitAbort(g) \/ GitPack(g)
  <2>1. git' = [git EXCEPT ![g] = [pc |-> "idle", ref |-> None]]
    BY <1>5 DEF GitUpdate, GitDelete, GitAbort, GitPack, GitAt
  <2> QED BY <1>1, <2>1
<1>6. CASE GitPrune(g) \/ GitSwitch(g)
  <2>1. git' = [git EXCEPT ![g] = [pc |-> "idle", ref |-> None]]
    BY <1>6 DEF GitPrune, GitSwitch, GitAt
  <2> QED BY <1>1, <2>1
<1> QED BY <1>2, <1>3, <1>4, <1>5, <1>6 DEF GitStep

\* Every step keeps Holding: locks are held by whom the phase says, taken in order.
LEMMA HoldingStep ==
    ASSUME TypeOK, Control, Holding, Next
    PROVE  Holding'
<1>1. CASE \E p \in Procs : OpStep(p)
  <2> PICK p \in Procs : OpStep(p)
    BY <1>1
  <2>1. \A q \in Procs : HoldsOf(q)'
    BY HoldsOwn, HoldsKept, OtherProcessKept DEF Holding
  <2>2. ASSUME NEW g \in Gits PROVE GitHoldsOf(g)'
    <3>1. git' = git /\ GitHoldsOf(g)
      BY <2>2, ProcessLeavesGit DEF Holding
    <3>2. git[g].pc \in {"ref", "both"} => git[g].ref \in Locks
      BY <2>2 DEF Control, Locks
    <3>3. \A l \in Locks : lock'[l] = g <=> lock[l] = g
      BY <2>2, ProcessKeepsGitLocks
    <3> QED BY <3>1, <3>2, <3>3 DEF GitHoldsOf, Locks
  <2> QED BY <2>1, <2>2 DEF Holding
<1>2. CASE \E g \in Gits : GitStep(g)
  <2> PICK g \in Gits : GitStep(g)
    BY <1>2
  <2>1. \A q \in Procs : HoldsOf(q)'
    BY HoldsKept, GitKeepsProcess DEF Holding
  <2>2. ASSUME NEW h \in Gits \ {g} PROVE GitHoldsOf(h)'
    <3>1. git[h].pc \in {"ref", "both"} => git[h].ref \in Locks
      BY <2>2 DEF Control, Locks
    <3> QED BY <2>2, <3>1, OtherGitKept DEF Holding, GitHoldsOf, Locks
  <2>3. GitHoldsOf(g)'
    BY GitHoldsOwn DEF Holding
  <2> QED BY <2>1, <2>2, <2>3 DEF Holding
<1> QED BY <1>1, <1>2 DEF Next, OpStep

-----------------------------------------------------------------------------
(***************************************************************************)
(* Current.                                                                *)
(***************************************************************************)

\* At work on a batch, p holds the lock of each of its refs and packed-refs.lock.
LEMMA BatchLocked ==
    ASSUME TypeOK, NEW p \in Procs, ControlOf(p), HoldsOf(p),
           pc[p] \in Committing \cup {"validate"}
    PROVE  lock[PackedLock] = p /\ \A n \in DOMAIN plan[p] : n \in Refs /\ lock[n] = p
<1>1. NeededLocks(p) \subseteq HeldBy(p) /\ target[p] = None
  BY DEF ControlOf, HoldsOf
<1>2. DOMAIN plan[p] \cup {PackedLock} \subseteq HeldBy(p)
  BY <1>1 DEF NeededLocks
<1> QED BY <1>2, PlanOps DEF HeldBy, TypeOK

\* What o changes on the shared disk it holds the lock of.
WritesOwn(o) ==
    /\ \A n \in Refs : Visible(n)' # Visible(n) => lock[n] = o
    /\ packed' # packed => lock[PackedLock] = o

\* A gitana process changes a ref or packed-refs only under its lock.
LEMMA ProcessWritesOwn ==
    ASSUME TypeOK, Control, NEW p \in Procs, HoldsOf(p), CurrentOf(p), OpStep(p)
    PROVE  WritesOwn(p)
<1>0. ControlOf(p)
  BY DEF Control
<1>1. CASE WriteRef(p) \/ Unlink(p)
  <2>1. cur[p] \in Refs /\ lock[cur[p]] = p
    BY <1>0, <1>1, BatchLocked DEF WriteRef, Unlink, At, ControlOf, OnOp, Committing
  <2>2. packed' = packed /\ \A n \in Refs \ {cur[p]} : loose'[n] = loose[n]
    BY <1>1 DEF WriteRef, Unlink, TypeOK, DiskOK
  <2> QED BY <2>1, <2>2 DEF WritesOwn, Visible
<1>2. CASE RewritePacked(p)
  <2>1. cur[p] \in Refs /\ lock[cur[p]] = p /\ lock[PackedLock] = p
    BY <1>0, <1>2, BatchLocked DEF RewritePacked, At, ControlOf, OnOp, Committing
  <2>2. snap[p] = packed
    BY <1>2 DEF RewritePacked, At, CurrentOf
  <2>3. loose' = loose /\ \A n \in Refs \ {cur[p]} : packed'[n] = packed[n]
    BY <1>2, <2>2 DEF RewritePacked, TypeOK, DiskOK
  <2> QED BY <2>1, <2>3 DEF WritesOwn, Visible
<1>3. CASE ~(WriteRef(p) \/ Unlink(p) \/ RewritePacked(p))
  <2>1. UNCHANGED <<loose, packed>>
    BY <1>3
       DEF OpStep, Transact, SetSymbolic, Submit, Crash, RemoveOrphanLocks, ProcessStep,
           AcquireLease, LeaseBackoff, LeaseTimeout, PlanLocks, AcquireLock, LockBackoff,
           LockTimeout, LockBlocked, Confirm, HeadMoved, ValidateOp, RejectOp, AllValid, BeginOp,
           LogRef, LogRefBlocked, LogHead, CommitBlocked, ReadPacked, PackedUndecodable, DropLog,
           Committed, LogSwitch, SetHead, Release, PruneParents,
           DropLease, Fail, disk
  <2> QED BY <2>1 DEF WritesOwn, Visible
<1> QED BY <1>1, <1>2, <1>3

\* So does stock git: packing moves values between the stores, it changes none.
LEMMA GitWritesOwn ==
    ASSUME TypeOK, Control, NEW g \in Gits, GitHoldsOf(g), GitStep(g)
    PROVE  WritesOwn(g)
<1>1. CASE GitUpdate(g) \/ GitDelete(g)
  <2>1. /\ git[g].ref \in Refs /\ lock[git[g].ref] = g
        /\ git[g].pc = "both" => lock[PackedLock] = g
    BY <1>1 DEF GitUpdate, GitDelete, GitHoldsOf, Control
  <2>2. \A n \in Refs \ {git[g].ref} : loose'[n] = loose[n] /\ packed'[n] = packed[n]
    BY <1>1 DEF GitUpdate, GitDelete, TypeOK, DiskOK
  <2>3. packed' # packed => git[g].pc = "both"
    BY <1>1 DEF GitUpdate, GitDelete
  <2> QED BY <2>1, <2>2, <2>3 DEF WritesOwn, Visible
<1>2. CASE GitPack(g)
  <2>1. lock[PackedLock] = g /\ loose' = loose /\ packed' = [n \in Refs |-> Visible(n)]
    BY <1>2 DEF GitPack, GitHoldsOf
  <2> QED BY <2>1 DEF WritesOwn, Visible
<1>3. CASE GitPrune(g)
  <2> PICK n \in Refs : loose[n] = packed[n] /\ loose' = [loose EXCEPT ![n] = None]
    BY <1>3 DEF GitPrune
  <2>1. packed' = packed /\ loose'[n] = None /\ \A m \in Refs \ {n} : loose'[m] = loose[m]
    BY <1>3 DEF GitPrune, TypeOK, DiskOK
  <2> QED BY <2>1 DEF WritesOwn, Visible
<1>4. CASE ~(GitUpdate(g) \/ GitDelete(g) \/ GitPack(g) \/ GitPrune(g))
  <2>1. UNCHANGED <<loose, packed>>
    BY <1>4 DEF GitStep, GitLockRef, GitLockPacked, GitAbort, GitPackLock, GitSwitch, disk
  <2> QED BY <2>1 DEF WritesOwn, Visible
<1> QED BY <1>1, <1>2, <1>3, <1>4

\* What q validated stays valid across a step of another participant.
LEMMA CurrentKept ==
    ASSUME TypeOK, NEW q \in Procs, ControlOf(q), HoldsOf(q), CurrentOf(q), Kept(q),
           NEW o, o # q, WritesOwn(o)
    PROVE  CurrentOf(q)'
<1>1. /\ pc'[q] = pc[q] /\ plan'[q] = plan[q] /\ todo'[q] = todo[q] /\ cur'[q] = cur[q]
      /\ snap'[q] = snap[q]
  BY DEF Kept
<1>2. pc[q] \in Committing \cup {"validate"} =>
        /\ packed' = packed
        /\ \A n \in DOMAIN plan[q] : Visible(n)' = Visible(n)
  BY BatchLocked DEF WritesOwn
<1>3. pc[q] \in Committing => todo[q] \subseteq DOMAIN plan[q]
  BY DEF ControlOf
<1>4. pc'[q] = "validate" => \A n \in DOMAIN plan'[q] \ todo'[q] : Visible(n)' = plan'[q][n].expected
  BY <1>1, <1>2 DEF CurrentOf
<1>5. pc'[q] \in Committing =>
        \A n \in todo'[q] : Visible(n)' = plan'[q][n].expected \/ Deleting(q, n)'
  BY <1>1, <1>2, <1>3 DEF CurrentOf, Deleting
<1>6. pc'[q] = "rewrite" => snap'[q] = packed'
  BY <1>1, <1>2 DEF CurrentOf, Committing
<1> QED BY <1>4, <1>5, <1>6 DEF CurrentOf

\* Nor does a process invalidate its own pending ops.
LEMMA CurrentOwn ==
    ASSUME TypeOK, Control, NEW p \in Procs, HoldsOf(p), CurrentOf(p), OpStep(p)
    PROVE  CurrentOf(p)'
<1> USE DEF At
<1>0. ControlOf(p) /\ todo[p] \subseteq Refs
  BY DEF Control, TypeOK, WorkOK
<1>1. CASE Confirm(p)
  <2>1. pc'[p] = "validate" /\ DOMAIN plan'[p] \ todo'[p] = {}
    BY <1>1 DEF Confirm, request, TypeOK, WorkOK
  <2> QED BY <2>1 DEF CurrentOf, Committing
<1>2. CASE ValidateOp(p)
  <2>1. PICK n \in todo[p] : Visible(n) = plan[p][n].expected /\ todo'[p] = todo[p] \ {n}
    BY <1>2 DEF ValidateOp, Valid, TypeOK, WorkOK
  <2>2. pc[p] = "validate" /\ pc'[p] = "validate" /\ plan'[p] = plan[p]
    BY <1>2 DEF ValidateOp, request
  <2>3. \A m : Visible(m)' = Visible(m)
    BY <1>2 DEF ValidateOp, disk, Visible
  <2> QED BY <2>1, <2>2, <2>3 DEF CurrentOf, Committing
<1>3. CASE AllValid(p)
  <2>1. /\ pc[p] = "validate" /\ pc'[p] = "commit" /\ plan'[p] = plan[p]
        /\ todo[p] = {} /\ todo'[p] = DOMAIN plan[p]
    BY <1>3 DEF AllValid, request, TypeOK, WorkOK
  <2>2. \A m : Visible(m)' = Visible(m)
    BY <1>3 DEF AllValid, disk, Visible
  <2> QED BY <2>1, <2>2 DEF CurrentOf
<1>4. CASE BeginOp(p) \/ LogRef(p) \/ LogHead(p)
  <2>1. /\ pc[p] \in {"commit", "log", "headlog"} /\ pc'[p] \in {"log", "headlog", "write", "unlink"}
        /\ plan'[p] = plan[p] /\ todo'[p] = todo[p]
    BY <1>4 DEF BeginOp, LogRef, LogHead, request, work, TypeOK, WorkOK
  <2>2. \A m : Visible(m)' = Visible(m)
    BY <1>4 DEF BeginOp, LogRef, LogHead, disk, Visible
  <2> QED BY <2>1, <2>2 DEF CurrentOf, Deleting, Committing
<1>5. CASE WriteRef(p)
  <2>1. /\ pc[p] = "write" /\ pc'[p] = "commit" /\ plan'[p] = plan[p]
        /\ todo'[p] = todo[p] \ {cur[p]}
    BY <1>5 DEF WriteRef, request, TypeOK, WorkOK
  <2>2. \A m \in Refs \ {cur[p]} : Visible(m)' = Visible(m)
    BY <1>5 DEF WriteRef, Visible, TypeOK, DiskOK
  <2> QED BY <1>0, <2>1, <2>2 DEF CurrentOf, Deleting, Committing
<1>6. CASE Unlink(p)
  <2>1. /\ pc[p] = "unlink" /\ pc'[p] = "readpacked" /\ plan'[p] = plan[p]
        /\ todo'[p] = todo[p] /\ cur'[p] = cur[p]
    BY <1>6 DEF Unlink, request, work, TypeOK, WorkOK
  <2>2. \A m \in Refs \ {cur[p]} : Visible(m)' = Visible(m)
    BY <1>6 DEF Unlink, Visible, TypeOK, DiskOK
  <2> QED BY <1>0, <2>1, <2>2 DEF CurrentOf, Deleting, Committing
<1>7. CASE ReadPacked(p)
  <2>1. /\ pc[p] = "readpacked" /\ pc'[p] = "rewrite" /\ plan'[p] = plan[p]
        /\ todo'[p] = todo[p] /\ cur'[p] = cur[p] /\ snap'[p] = packed'
    BY <1>7 DEF ReadPacked, request, disk, TypeOK, WorkOK
  <2>2. \A m : Visible(m)' = Visible(m)
    BY <1>7 DEF ReadPacked, disk, Visible
  <2> QED BY <2>1, <2>2 DEF CurrentOf, Deleting, Committing
<1>8. CASE RewritePacked(p)
  <2>1. /\ pc[p] = "rewrite" /\ pc'[p] = "unlog" /\ plan'[p] = plan[p]
        /\ todo'[p] = todo[p] /\ cur'[p] = cur[p] /\ snap[p] = packed
    BY <1>8 DEF RewritePacked, request, work, CurrentOf, TypeOK, WorkOK
  <2>2. \A m \in Refs \ {cur[p]} : Visible(m)' = Visible(m)
    BY <1>8, <2>1 DEF RewritePacked, Visible, TypeOK, DiskOK
  <2> QED BY <1>0, <2>1, <2>2 DEF CurrentOf, Deleting, Committing
<1>9. CASE DropLog(p)
  <2>1. /\ pc[p] = "unlog" /\ pc'[p] = "commit" /\ plan'[p] = plan[p]
        /\ todo'[p] = todo[p] \ {cur[p]}
    BY <1>9 DEF DropLog, request, TypeOK, WorkOK
  <2>2. \A m : Visible(m)' = Visible(m)
    BY <1>9 DEF DropLog, Visible
  <2> QED BY <2>1, <2>2 DEF CurrentOf, Deleting, Committing
<1>10. CASE Crash(p)
  BY <1>10 DEF Crash, disk, request, work, CurrentOf, Deleting, Visible
<1>11. CASE \/ Transact(p) \/ SetSymbolic(p) \/ AcquireLease(p) \/ LeaseBackoff(p)
            \/ LeaseTimeout(p) \/ PlanLocks(p) \/ AcquireLock(p) \/ LockBackoff(p)
  <2>1. pc'[p] \in {"idle", "lease", "plan", "lock"}
    BY <1>11 DEF Transact, SetSymbolic, Submit, AcquireLease, LeaseBackoff, LeaseTimeout,
                 PlanLocks, AcquireLock, LockBackoff, Locking, TypeOK, WorkOK
  <2> QED BY <2>1 DEF CurrentOf, Committing
<1>12. CASE LogSwitch(p) \/ Release(p) \/ PruneParents(p) \/ DropLease(p) \/ RemoveOrphanLocks(p)
  <2>1. pc'[p] \in {"sethead", "release", "unlease", "idle"}
    BY <1>12 DEF LogSwitch, Release, PruneParents, DropLease, RemoveOrphanLocks, Forget, TypeOK, WorkOK
  <2> QED BY <2>1 DEF CurrentOf, Committing
<1>13. CASE FailStep(p)
  <2>1. pc'[p] = "release"
    BY <1>13 DEF FailStep, LockTimeout, LockBlocked, HeadMoved, RejectOp, LogRefBlocked,
                 CommitBlocked, PackedUndecodable, Committed, SetHead, Fail, TypeOK, WorkOK
  <2> QED BY <2>1 DEF CurrentOf, Committing
<1> QED BY <1>1, <1>2, <1>3, <1>4, <1>5, <1>6, <1>7, <1>8, <1>9, <1>10, <1>11, <1>12, <1>13
        DEF OpStep, ProcessStep, FailStep

\* Every step keeps Current: what was validated or read under a lock still stands while the lock is held.
LEMMA CurrentStep ==
    ASSUME TypeOK, Control, Holding, Current, Next
    PROVE  Current'
<1>1. CASE \E p \in Procs : OpStep(p)
  <2> PICK p \in Procs : OpStep(p)
    BY <1>1
  <2>1. CurrentOf(p)'
    BY CurrentOwn DEF Holding, Current
  <2>2. WritesOwn(p)
    BY ProcessWritesOwn DEF Holding, Current
  <2>3. ASSUME NEW q \in Procs \ {p} PROVE CurrentOf(q)'
    <3>1. Kept(q)
      BY <2>3, OtherProcessKept
    <3> QED BY <2>2, <2>3, <3>1, CurrentKept DEF Control, Holding, Current
  <2> QED BY <2>1, <2>3 DEF Current
<1>2. CASE \E g \in Gits : GitStep(g)
  <2> PICK g \in Gits : GitStep(g)
    BY <1>2
  <2>1. WritesOwn(g)
    BY GitWritesOwn DEF Holding
  <2>2. ASSUME NEW q \in Procs PROVE CurrentOf(q)'
    <3>1. Kept(q) /\ g # q
      BY <2>2, GitKeepsProcess, OwnerAssumption
    <3> QED BY <2>1, <2>2, <3>1, CurrentKept DEF Control, Holding, Current
  <2> QED BY <2>2 DEF Current
<1> QED BY <1>1, <1>2 DEF Next, OpStep
-----------------------------------------------------------------------------
(***************************************************************************)
(* The theorems.                                                           *)
(***************************************************************************)

\* Every step keeps the types.
LEMMA TypeNext ==
    ASSUME TypeOK, Control, Next
    PROVE  TypeOK'
<1>1. ASSUME NEW p \in Procs, OpStep(p) PROVE TypeOK'
  BY <1>1, TypeStart, TypeLocking, TypeValidation, TypeCommit, TypeEnd DEF OpStep, ProcessStep
<1> QED BY <1>1, TypeGit DEF Next, OpStep

\* The initial states satisfy the inductive invariant.
LEMMA IndInit == Init => IndInv
<1> SUFFICES ASSUME Init PROVE IndInv
  OBVIOUS
<1>1. TypeOK /\ Control
  BY TypeInit
<1>2. \A p \in Procs : pc[p] = "idle" /\ HeldBy(p) = {}
  BY OwnerAssumption DEF Init, HeldBy
<1>3. \A g \in Gits : git[g].pc = "idle"
  BY DEF Init
<1>4. Holding /\ Current
  BY <1>2, <1>3 DEF Holding, HoldsOf, GitHoldsOf, Current, CurrentOf, Committing
<1> QED BY <1>1, <1>4 DEF IndInv

\* Every step, stuttering included, keeps the inductive invariant.
LEMMA IndStep == IndInv /\ [Next]_vars => IndInv'
<1> SUFFICES ASSUME IndInv, [Next]_vars PROVE IndInv'
  OBVIOUS
<1>1. CASE Next
  BY <1>1, TypeNext, ControlStep, HoldingStep, CurrentStep DEF IndInv
<1>2. CASE UNCHANGED vars
  <2>1. TypeOK'
    BY <1>2 DEF IndInv, vars, disk, request, work, outcome, external, life, TypeOK, DiskOK,
                LockOK, RequestOK, WorkOK, OutcomeOK, OthersOK
  <2>2. Control'
    BY <1>2 DEF IndInv, vars, request, work, external, Control, ControlOf
  <2>3. Holding'
    BY <1>2 DEF IndInv, vars, request, work, external, Holding, HoldsOf, GitHoldsOf, HeldBy,
                NeededLocks
  <2>4. Current'
    BY <1>2 DEF IndInv, vars, disk, request, work, Current, CurrentOf, Deleting, Visible
  <2> QED BY <2>1, <2>2, <2>3, <2>4 DEF IndInv
<1> QED BY <1>1, <1>2

\* The invariant holds of every reachable state.
THEOREM Invariant == Spec => []IndInv
BY IndInit, IndStep, PTL DEF Spec

\* Every variable keeps its type (the record of a transaction in
\* transact_inline always names refs, values and locks of the repository).
THEOREM TypeCorrect == Spec => []TypeOK
<1>1. IndInv => TypeOK
  BY DEF IndInv
<1> QED BY <1>1, Invariant, PTL

\* Nothing is validated, logged to logs/HEAD or written without its path lock,
\* for any number of processes and crashes (transact_inline, lock_all).
THEOREM LockDiscipline == Spec => []LocksCoverCommit
<1>1. IndInv => LocksCoverCommit
  BY DEF IndInv, Holding, HoldsOf, LocksCoverCommit
<1> QED BY <1>1, Invariant, PTL

\* The compare-and-set holds to the moment of the write: no update of another
\* process or of stock git is lost (validate_locked, commit_op).
THEOREM NoLostUpdate == Spec => []PendingStillExpected
<1>1. IndInv => PendingStillExpected
  BY DEF IndInv, Current, CurrentOf, Deleting, PendingStillExpected
<1> QED BY <1>1, Invariant, PTL

\* No packed-refs rewrite drops an entry another writer added
\* (remove_packed_matching_locked).
THEOREM NoLostPackedEntry == Spec => []PackedRewriteIsCurrent
<1>1. IndInv => PackedRewriteIsCurrent
  BY DEF IndInv, Current, CurrentOf, PackedRewriteIsCurrent
<1> QED BY <1>1, Invariant, PTL

\* gitana and stock git never wait for each other's locks in a circle
\* (lock_all's order, packed-refs.lock last).
THEOREM NoCircularWait == Spec => []NoLockCycle
<1>1. IndInv => NoLockCycle
  BY DEF IndInv, Holding, HoldsOf, NoLockCycle, Locking, IsNext, At
<1> QED BY <1>1, Invariant, PTL
=============================================================================
