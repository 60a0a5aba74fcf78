------------------------- MODULE LinkedWorktreeProofs -------------------------
(***************************************************************************)
(* What create, remove and move keep, proved for every repository, every    *)
(* set of requests and every bound.  The argument is what the running call   *)
(* may rely on at each of its points: worktrees.lock keeps the other calls   *)
(* out, so only a prune, a switch and the user can come between its steps.   *)
(***************************************************************************)
EXTENDS LinkedWorktree, FiniteSetTheorems, TLAPS

(* Types *)

Inspection ==
  [kind : {"absent", "checkout", "empty", "unrelated"}, admin : Admins \cup {None},
   present : BOOLEAN, head : Branches \cup {None}, object : 0..MaxTip, tip : 0..MaxTip,
   occupied : BOOLEAN, conflict : BOOLEAN]
RemovalAction == [what : {"full", "partial", "nothing"}, admin : Admins \cup {None}]
Call ==
  [pc : Pc, req : Request \cup {None}, admin : Admins \cup {None},
   seen : Inspection \cup RemovalAction \cup (SUBSET Admins) \cup {None}, tip : 0..MaxTip]
Command ==
  [pc : {"idle", "switch", "prune"}, branch : Branches \cup {None}, admin : Admins \cup {None}]
Counters == [calls : Nat, gta : Nat, edits : Nat, kills : Nat]

Typed ==
  /\ admins \in [Admins -> Admin] /\ checkouts \in [Dests -> Checkout]
  /\ tips \in [Branches -> 0..MaxTip] /\ mainHead \in Branches
  /\ regLock \in Procs \cup {Free, Stale} /\ lease \in Procs \cup {Free, Stale}
  /\ calls \in [Procs -> Call] /\ gta \in Command /\ cnt \in Counters
  /\ gta.pc = "switch" => gta.branch \in Branches
  /\ gta.pc = "prune" => gta.admin \in Admins
  /\ astray \subseteq Dests /\ late \subseteq Dests /\ overtaken \subseteq Admins

-----------------------------------------------------------------------------
(* What is on disk, whoever runs *)

\* An admin is written from its directory inwards, a checkout has a directory.
AdminsWhole ==
  \A a \in Admins : /\ ~admins[a].dir => admins[a] = NoAdmin
                    /\ admins[a].gitdir # None => admins[a].common
CheckoutsWhole ==
  \A d \in Dests : ~checkouts[d].dir => checkouts[d].git = None /\ checkouts[d].files = {}

\* No two admins name one destination.
OneEach ==
  \A a, b \in Admins : admins[a].gitdir = admins[b].gitdir /\ admins[a].gitdir # None => a = b

Disk == AdminsWhole /\ CheckoutsWhole /\ OneEach /\ NoOrphanCheckout /\ LiveIsComplete

-----------------------------------------------------------------------------
(* What the running call relies on *)

\* Pruned under the call, which goes on to fail or to leave an orphan.
Lost(a) == admins[a] = NoAdmin /\ a \in overtaken

\* Nothing names the destination yet.
Unregistered == {"resolve", "branch", "lease", "admin", "dest", "commondir", "gitdir"}
\* The admin is this call's own.
Unnamed == {"branch", "lease", "admin", "dest", "commondir", "gitdir"}
Named == {"head", "files", "index", "gitfile", "content"}
Writing == Unnamed \cup Named
Recovering == {"recheck", "sweep", "discard"}
Creating == {"create", "cleared", "verify", "done"} \cup Unregistered \cup Named \cup Recovering
Removing == {"again", "delete", "deregister"}
Moving == {"rename", "stale", "backlink", "relink"}

\* The admin a decision named has not been taken by another destination.
StillMine(a, d) == a \in Admins /\ admins[a].gitdir \in {d, None}

\* create and recovery.
CreateOK(p, c) ==
  LET d == c.req.dest
      a == c.admin
  IN
  /\ c.pc \in Creating => c.req.op = "create" /\ c.req.branch # None
  /\ c.pc \in Recovering => StillMine(c.seen.admin, d)
  /\ c.pc = "discard" => checkouts[d].git = None
  /\ c.pc \in Unregistered => \A x \in Admins : admins[x].gitdir # d
  /\ c.pc \in Unregistered \cup (Named \ {"content"}) => checkouts[d].git = None
  /\ c.pc = "content" => checkouts[d].git \in {None, Torn}
  /\ c.pc \in Writing => a \in Admins /\ c.tip # 0
  /\ c.pc \in Unnamed => admins[a].gitdir = None
  /\ c.pc \in {"branch", "lease", "admin"} => admins[a] = NoAdmin
  /\ c.pc = "gitdir" => admins[a] = NoAdmin \/ admins[a].common
  /\ c.pc \in Named => admins[a].gitdir = d \/ Lost(a)
  /\ c.pc \in {"files", "index", "gitfile", "content"} => Lost(a) \/ admins[a].head # None
  /\ c.pc \in {"gitfile", "content"} => Lost(a) \/ admins[a].index # 0
  /\ c.pc = "done" => ~InUse(c.req.branch, d)

\* remove: what the user wrote after the last look is noted.
RemoveOK(c) ==
  LET d == c.req.dest IN
  /\ c.pc \in Removing => StillMine(c.seen.admin, d)
  /\ c.pc = "delete" /\ c.seen.what = "full" /\ "user" \in checkouts[d].files => d \in late

\* The worktree that is being moved is complete and registered at d.
Held(a, d) ==
  \/ admins[a].gitdir = d /\ admins[a].head # None /\ admins[a].index # 0
  \/ Lost(a)

\* move.
MoveOK(c) ==
  LET d == c.req.dest
      to == c.req.to
      a == c.admin
  IN
  /\ c.pc \in Moving => a \in Admins /\ to # d
  /\ c.pc \in {"rename", "stale"} =>
       /\ c.seen \subseteq Admins /\ a \notin c.seen
       /\ \A x \in Admins : admins[x].gitdir = to => x \in c.seen
       /\ \A x \in c.seen : admins[x].gitdir \in {to, None}
  /\ c.pc = "rename" => checkouts[d].git \in {None, a}
  /\ c.pc \in {"stale", "backlink", "relink"} => checkouts[to].git \in {None, a}
  /\ c.pc \in {"stale", "backlink"} => checkouts[d].git = None
  /\ c.pc = "backlink" => \A x \in Admins : admins[x].gitdir # to
  /\ c.pc \in {"rename", "stale", "backlink"} => Held(a, d)
  /\ c.pc = "relink" => Held(a, to)

\* A call past its start holds worktrees.lock, and a create past its branch
\* the history lease.
Locked(p, c) ==
  /\ c.pc # "idle" => c.req \in Request /\ regLock = p
  /\ c.pc \in {"admin", "dest", "commondir", "gitdir", "verify", "done"} \cup Named => lease = p

CallOK(p, c) == Locked(p, c) /\ CreateOK(p, c) /\ RemoveOK(c) /\ MoveOK(c)
Calls == \A p \in Procs : CallOK(p, calls[p])

IndInv == Typed /\ Disk /\ Calls

-----------------------------------------------------------------------------
(* What the decisions read off the disk *)

\* None and Torn name nothing.
LEMMA Nothing ==
  /\ None \notin Dests /\ None \notin Branches /\ None \notin Admins
  /\ Torn \notin Admins /\ None # Torn
BY NameAssumption

\* The value of classify_destination says what is there.
LEMMA KindIs ==
  ASSUME CheckoutsWhole, NEW d \in Dests
  PROVE  /\ Kind(d) \in {"absent", "checkout", "empty", "unrelated"}
         /\ Kind(d) \in {"absent", "empty"} =>
              checkouts[d].git = None /\ checkouts[d].files = {}
         /\ Kind(d) = "absent" => ~checkouts[d].dir
BY Nothing DEF Kind, CheckoutsWhole

\* A registration is unique: what inspect finds is all there is.
LEMMA RegisteredIs ==
  ASSUME OneEach, NEW d \in Dests
  PROVE  /\ Registered(d) \subseteq Admins /\ IsFiniteSet(Registered(d))
         /\ Cardinality(Registered(d)) \in Nat /\ Cardinality(Registered(d)) <= 1
         /\ Registered(d) # {} => Cardinality(Registered(d)) = 1
<1>1. IsFiniteSet(Admins)
  BY FS_Interval, BoundAssumption DEF Admins
<1>2. Registered(d) \subseteq Admins /\ IsFiniteSet(Registered(d))
  BY <1>1, FS_Subset DEF Registered
<1>3. ASSUME NEW a \in Registered(d)
      PROVE  Registered(d) = {a}
  BY Nothing DEF Registered, OneEach
<1>4. CASE Registered(d) = {}
  BY <1>2, <1>4, FS_EmptySet
<1>5. CASE Registered(d) # {}
  <2>1. PICK a : a \in Registered(d)
    BY <1>5
  <2>2. Registered(d) = {a}
    BY <2>1, <1>3
  <2>3. Cardinality({a}) = 1
    BY FS_Singleton
  <2> QED
    BY <1>2, <1>5, <2>2, <2>3
<1> QED
  BY <1>4, <1>5

\* Exactly the registered admin is what inspect reports.
LEMMA InspectIs ==
  ASSUME Typed, CheckoutsWhole, OneEach, NEW d \in Dests, NEW b \in Branches \cup {None},
         NEW i, i = Inspect(d, b)
  PROVE  /\ i \in Inspection
         /\ i.kind = Kind(d)
         /\ i.admin # None => i.admin \in Admins /\ admins[i.admin].gitdir = d /\ admins[i.admin].common
         /\ i.admin = None => Registered(d) = {}
         /\ i.present => i.admin # None /\ checkouts[d].git = i.admin
         /\ i.admin # None => i.head = admins[i.admin].head
         /\ b # None /\ ~i.occupied => ~InUse(b, d)
<1> DEFINE regs == Registered(d)
           reg == IF Cardinality(regs) = 1 THEN CHOOSE a \in regs : TRUE ELSE None
           claim == checkouts[d].git
           owned == claim \in Admins /\ admins[claim].common
           owner == IF reg # None THEN reg ELSE IF owned THEN claim ELSE None
           head == IF owner = None THEN None ELSE admins[owner].head
           here == reg # None /\ claim = reg
           occupied == b # None /\ InUse(b, d)
           conflict == \/ Cardinality(regs) > 1
                       \/ claim \in Admins /\ ~owned
                       \/ owned /\ admins[claim].gitdir # d
                       \/ b # None /\ reg # None /\ head # b
<1>1. i = [kind |-> Kind(d), admin |-> reg, present |-> here, head |-> head,
           object |-> IF head = None THEN 0 ELSE tips[head],
           tip |-> IF b = None THEN 0 ELSE tips[b], occupied |-> occupied, conflict |-> conflict]
  BY DEF Inspect
<1>2. regs \subseteq Admins /\ (regs # {} => Cardinality(regs) = 1) /\ (Cardinality(regs) = 1 => regs # {})
  <2>1. regs = {} => Cardinality(regs) = 0
    BY FS_EmptySet
  <2> QED
    BY <2>1, RegisteredIs
<1>3. reg # None => reg \in regs /\ reg \in Admins
  BY <1>2
<1>4. reg = None => regs = {}
  BY <1>2, Nothing
<1>5. reg # None => admins[reg].gitdir = d /\ admins[reg].common
  BY <1>3 DEF Registered
<1>6. owner \in Admins \cup {None} /\ head \in Branches \cup {None}
  BY <1>3, Nothing DEF Typed, Admin
<1>7. reg # None => head = admins[reg].head
  OBVIOUS
<1>8. (IF head = None THEN 0 ELSE tips[head]) \in 0..MaxTip
  <2> HIDE DEF head
  <2>1. 0 \in 0..MaxTip
    BY BoundAssumption
  <2> QED
    BY <1>6, <2>1 DEF Typed
<1>9. (IF b = None THEN 0 ELSE tips[b]) \in 0..MaxTip
  BY BoundAssumption DEF Typed
<1>10. Kind(d) \in {"absent", "checkout", "empty", "unrelated"}
  BY KindIs
<1>11. conflict \in BOOLEAN /\ occupied \in BOOLEAN /\ here \in BOOLEAN
  OBVIOUS
<1>12. reg \in Admins \cup {None}
  BY <1>3
<1> HIDE DEF reg, claim, owned, owner, head, here, occupied, conflict, regs
<1>13. i \in Inspection
  BY <1>1, <1>6, <1>8, <1>9, <1>10, <1>11, <1>12 DEF Inspection
<1>14. i.kind = Kind(d) /\ i.admin = reg /\ i.head = head
  BY <1>1
<1>15. i.present => here
  <2>1. CASE ~here
    <3>1. here = FALSE
      BY <1>11, <2>1
    <3> QED
      BY <1>1, <3>1
  <2> QED
    BY <2>1
<1>16. occupied => i.occupied
  <2>1. CASE occupied
    <3>1. occupied = TRUE
      BY <1>11, <2>1
    <3> QED
      BY <1>1, <3>1
  <2> QED
    BY <2>1
<1> QED
  BY <1>3, <1>4, <1>5, <1>7, <1>13, <1>14, <1>15, <1>16 DEF regs, claim, here, occupied

\* A create is only decided where nothing is registered and there is no .git.
LEMMA WritesIs ==
  ASSUME Typed, CheckoutsWhole, OneEach, AdminsWhole, NEW r \in Request, Writes(Look(r), r)
  PROVE  /\ \A x \in Admins : admins[x].gitdir # r.dest
         /\ checkouts[r.dest].git = None
<1>1. PICK i : i = Look(r)
  OBVIOUS
<1>2. r.dest \in Dests /\ r.branch \in Branches \cup {None} /\ i = Inspect(r.dest, r.branch)
  BY <1>1 DEF Look, Request
<1>3. i.kind = Kind(r.dest) /\ (i.admin = None => Registered(r.dest) = {})
  BY <1>2, InspectIs
<1>4. i.admin = None /\ i.kind \in {"absent", "empty"}
  BY <1>1 DEF Writes
<1>5. Registered(r.dest) = {}
  BY <1>3, <1>4
<1>6. \A x \in Admins : admins[x].gitdir # r.dest
  BY <1>2, <1>5, Nothing DEF Registered, AdminsWhole
<1>7. checkouts[r.dest].git = None
  BY <1>2, <1>3, <1>4, KindIs
<1> QED
  BY <1>6, <1>7

\* A recovery discards an admin registered at the destination.
LEMMA PreparedPartialIs ==
  ASSUME Typed, CheckoutsWhole, OneEach, NEW r \in Request, PreparedPartial(Look(r), r)
  PROVE  Look(r) \in Inspection /\ StillMine(Look(r).admin, r.dest)
<1>1. PICK i : i = Look(r)
  OBVIOUS
<1>2. r.dest \in Dests /\ r.branch \in Branches \cup {None} /\ i = Inspect(r.dest, r.branch)
  BY <1>1 DEF Look, Request
<1>3. i \in Inspection /\ (i.admin # None => i.admin \in Admins /\ admins[i.admin].gitdir = r.dest)
  BY <1>2, InspectIs
<1>4. i.admin # None
  BY <1>1 DEF PreparedPartial
<1> QED
  BY <1>1, <1>3, <1>4 DEF StillMine

\* What is to be removed is registered at the destination; all of it goes only
\* where there is nothing of the user's.
LEMMA RemovalIs ==
  ASSUME Typed, CheckoutsWhole, OneEach, NEW d \in Dests, NEW b \in Branches \cup {None},
         NEW x, x = Removal(d, b)
  PROVE  /\ x \in RemovalAction
         /\ x.what # "nothing" => StillMine(x.admin, d)
         /\ x.what = "full" => "user" \notin checkouts[d].files
<1>1. PICK i : i = Inspect(d, b)
  OBVIOUS
<1>2. /\ i.admin # None => i.admin \in Admins /\ admins[i.admin].gitdir = d
      /\ i.present => i.admin # None
  BY <1>1, InspectIs
<1>3. x = CASE i.present /\ ~i.conflict /\ Clean(d, i) -> [what |-> "full", admin |-> i.admin]
            [] Partial(i) /\ admins[i.admin].index \in {0, i.object} ->
                 [what |-> "partial", admin |-> i.admin]
            [] OTHER -> [what |-> "nothing", admin |-> None]
  BY <1>1 DEF Removal
<1>4. \/ i.present /\ Clean(d, i) /\ x = [what |-> "full", admin |-> i.admin]
      \/ Partial(i) /\ x = [what |-> "partial", admin |-> i.admin]
      \/ x = [what |-> "nothing", admin |-> None]
  BY <1>3
<1>5. CASE i.present /\ Clean(d, i) /\ x = [what |-> "full", admin |-> i.admin]
  BY <1>2, <1>5 DEF Clean, StillMine, RemovalAction
<1>6. CASE Partial(i) /\ x = [what |-> "partial", admin |-> i.admin]
  BY <1>2, <1>6 DEF Partial, StillMine, RemovalAction
<1>7. CASE x = [what |-> "nothing", admin |-> None]
  BY <1>7 DEF RemovalAction
<1> QED
  BY <1>4, <1>5, <1>6, <1>7

\* Only a complete worktree is moved, to where there is no .git.
LEMMA MovableIs ==
  ASSUME Typed, Disk, NEW r \in Request, Movable(r), NEW a, a = Look(r).admin
  PROVE  /\ a \in Admins /\ r.to # r.dest /\ checkouts[r.to].git = None
         /\ checkouts[r.dest].git = a /\ admins[a].gitdir = r.dest
         /\ admins[a].head # None /\ admins[a].index # 0
<1>1. PICK i : i = Look(r)
  OBVIOUS
<1>2. r.dest \in Dests /\ r.to \in Dests /\ r.branch \in Branches \cup {None}
      /\ i = Inspect(r.dest, r.branch)
  BY <1>1 DEF Look, Request
<1>3. i.present /\ i.head # None /\ r.to # r.dest /\ Kind(r.to) \in {"absent", "empty"}
  BY <1>1 DEF Movable
<1>4. i.admin \in Admins /\ admins[i.admin].gitdir = r.dest /\ checkouts[r.dest].git = i.admin
  BY <1>2, <1>3, InspectIs DEF Disk
<1>5. checkouts[r.to].git = None
  BY <1>2, <1>3, KindIs DEF Disk
<1>6. admins[i.admin].head # None /\ admins[i.admin].index # 0
  BY <1>2, <1>4 DEF Disk, LiveIsComplete
<1> QED
  BY <1>1, <1>3, <1>4, <1>5, <1>6

-----------------------------------------------------------------------------
(* What a step leaves as it was *)

\* worktrees.lock keeps the other calls out.
LEMMA OthersIdle ==
  ASSUME IndInv, NEW p \in Procs, calls[p].pc # "idle"
  PROVE  /\ \A q \in Procs : q # p => calls[q].pc = "idle"
         /\ regLock = p /\ calls[p] \in Call /\ calls[p].req \in Request
BY DEF IndInv, Typed, Calls, CallOK, Locked

\* An idle call relies on nothing.
LEMMA NothingAsked ==
  ASSUME NEW p, NEW c, c.pc = "idle"
  PROVE  CallOK(p, c)'
BY DEF CallOK, Locked, CreateOK, RemoveOK, MoveOK, Creating, Recovering, Unregistered, Named,
       Unnamed, Writing, Removing, Moving

\* What a call relies on is about what it is.
LEMMA SameCall ==
  ASSUME NEW q, NEW c, CallOK(q, c)', calls'[q] = c
  PROVE  CallOK(q, calls[q])'
<1>1. Locked(q, calls[q])'
  BY DEF CallOK, Locked
<1>2. CreateOK(q, calls[q])'
  BY DEF CallOK, CreateOK
<1>3. RemoveOK(calls[q])'
  BY DEF CallOK, RemoveOK
<1>4. MoveOK(calls[q])'
  BY DEF CallOK, MoveOK
<1> QED
  BY <1>1, <1>2, <1>3, <1>4 DEF CallOK

\* A step of one call is right for all of them if it is right for that one.
LEMMA CallStep ==
  ASSUME IndInv, NEW p \in Procs, \A q \in Procs : q # p => calls[q].pc = "idle",
         NEW n \in Call, calls' = [calls EXCEPT ![p] = n], CallOK(p, n)'
  PROVE  Calls' /\ calls' \in [Procs -> Call]
<1>1. calls \in [Procs -> Call]
  BY DEF IndInv, Typed
<1>2. calls' \in [Procs -> Call] /\ calls'[p] = n /\ \A q \in Procs : q # p => calls'[q] = calls[q]
  BY <1>1
<1>3. ASSUME NEW q \in Procs
      PROVE  CallOK(q, calls[q])'
  <2>1. CASE q = p
    BY <1>2, <2>1, SameCall
  <2>2. CASE q # p
    <3>1. PICK c : c = calls[q]
      OBVIOUS
    <3>2. c.pc = "idle" /\ calls'[q] = c
      BY <1>2, <2>2, <3>1
    <3>3. CallOK(q, c)'
      BY <3>2, NothingAsked
    <3> QED
      BY <3>2, <3>3, SameCall
  <2> QED
    BY <2>1, <2>2
<1> QED
  BY <1>2, <1>3 DEF Calls

\* The move that is changing a checkout still runs.
InMotion(d) == \E p \in Procs : calls[p].pc \in {"stale", "backlink"} /\ Req(p).to = d
MotionGoesOn == \A d \in Dests : InMotion(d) => InMotion(d)' \/ d \in astray'

\* A call that moves nothing leaves nothing in motion.
LEMMA NothingMoves ==
  ASSUME IndInv, NEW p \in Procs, calls[p].pc \notin {"idle", "stale", "backlink"}
  PROVE  MotionGoesOn
BY OthersIdle DEF MotionGoesOn, InMotion

\* The disk is right while nobody writes to it.
LEMMA DiskStays ==
  ASSUME Disk, UNCHANGED <<admins, checkouts, overtaken>>, astray \subseteq astray', MotionGoesOn
  PROVE  Disk'
<1>1. AdminsWhole' /\ CheckoutsWhole' /\ OneEach' /\ LiveIsComplete'
  BY DEF Disk, AdminsWhole, CheckoutsWhole, OneEach, LiveIsComplete
<1>2. NoOrphanCheckout'
  BY DEF Disk, NoOrphanCheckout, MotionGoesOn, InMotion, Req
<1> QED
  BY <1>1, <1>2 DEF Disk

\* Nor does what a call relies on change while nobody writes.
LEMMA CallStays ==
  ASSUME NEW p, NEW c, CallOK(p, c),
         UNCHANGED <<admins, checkouts, mainHead, regLock, lease, overtaken>>, late \subseteq late'
  PROVE  CallOK(p, c)'
<1>1. Locked(p, c)'
  BY DEF CallOK, Locked
<1>2. CreateOK(p, c)'
  BY DEF CallOK, CreateOK, StillMine, Lost, InUse, Listed
<1>3. RemoveOK(c)'
  BY DEF CallOK, RemoveOK, StillMine
<1>4. MoveOK(c)'
  BY DEF CallOK, MoveOK, Held, Lost
<1> QED
  BY <1>1, <1>2, <1>3, <1>4 DEF CallOK

\* The same of all calls.
LEMMA CallsStay ==
  ASSUME IndInv, calls' = calls, \A p \in Procs : CallOK(p, calls[p]) => CallOK(p, calls[p])'
  PROVE  Calls'
BY DEF IndInv, Calls

\* A call that returns or dies relies on nothing more.
LEMMA Returned ==
  ASSUME IndInv, NEW p \in Procs, calls[p].pc # "idle",
         NEW w \in {Free, Stale}, calls' = [calls EXCEPT ![p] = Idle], Unlock(p, w)
  PROVE  /\ Calls' /\ calls' \in [Procs -> Call]
         /\ regLock' \in Procs \cup {Free, Stale} /\ lease' \in Procs \cup {Free, Stale}
<1>1. Idle \in Call /\ Idle.pc = "idle"
  BY BoundAssumption DEF Idle, Call, Pc
<1>2. CallOK(p, Idle)'
  BY <1>1, NothingAsked
<1>3. regLock' \in Procs \cup {Free, Stale} /\ lease' \in Procs \cup {Free, Stale}
  BY DEF Unlock, IndInv, Typed
<1> QED
  BY <1>1, <1>2, <1>3, OthersIdle, CallStep

\* A call that only looked.
LEMMA Looked ==
  ASSUME IndInv, NEW p \in Procs, calls[p].pc \notin {"idle", "stale", "backlink"},
         NEW n \in Call, calls' = [calls EXCEPT ![p] = n], CallOK(p, n),
         UNCHANGED <<disk, locks, gta, ghosts, cnt>>
  PROVE  IndInv'
<1>1. CallOK(p, n)'
  BY CallStays DEF disk, locks, ghosts
<1>2. Calls' /\ calls' \in [Procs -> Call]
  BY <1>1, OthersIdle, CallStep
<1>3. Disk'
  BY NothingMoves, DiskStays DEF IndInv, disk, ghosts
<1>4. Typed'
  BY <1>2 DEF IndInv, Typed, disk, locks, ghosts
<1> QED
  BY <1>2, <1>3, <1>4 DEF IndInv

\* A call that gave up without writing.
LEMMA GaveUp ==
  ASSUME IndInv, NEW p \in Procs, calls[p].pc \notin {"idle", "stale", "backlink"}, Return(p),
         UNCHANGED <<disk, gta, ghosts, cnt>>
  PROVE  IndInv'
<1>1. /\ Calls' /\ calls' \in [Procs -> Call]
      /\ regLock' \in Procs \cup {Free, Stale} /\ lease' \in Procs \cup {Free, Stale}
  BY Returned DEF Return
<1>2. Disk'
  BY NothingMoves, DiskStays DEF IndInv, disk, ghosts
<1>3. Typed'
  BY <1>1 DEF IndInv, Typed, disk, ghosts
<1> QED
  BY <1>1, <1>2, <1>3 DEF IndInv

-----------------------------------------------------------------------------
(* Steps that only look *)

USE DEF Creating, Recovering, Unregistered, Named, Unnamed, Writing, Removing, Moving

Same(n, c) == n.req = c.req /\ n.admin = c.admin /\ n.seen = c.seen /\ n.tip = c.tip

\* A call goes on to its next point with what it has.
LEMMA GoneOn ==
  ASSUME IndInv, NEW p \in Procs, NEW next \in Pc, Goto(p, next), NEW c, c = calls[p]
  PROVE  \E n \in Call : calls' = [calls EXCEPT ![p] = n] /\ n.pc = next /\ Same(n, c)
<1>1. calls \in [Procs -> Call] /\ c \in Call
  BY DEF IndInv, Typed
<1>2. PICK n : n = [c EXCEPT !.pc = next]
  OBVIOUS
<1>3. n \in Call /\ n.pc = next /\ Same(n, c)
  BY <1>1, <1>2 DEF Call, Same
<1>4. calls' = [calls EXCEPT ![p] = n]
  BY <1>1, <1>2 DEF Goto
<1> QED
  BY <1>3, <1>4

\* What is known of a running call.
LEMMA Stands ==
  ASSUME IndInv, NEW p \in Procs, NEW c, c = calls[p], c.pc # "idle"
  PROVE  /\ c \in Call /\ c.req \in Request /\ CallOK(p, c) /\ regLock = p
         /\ c.req.dest \in Dests /\ c.req.to \in Dests /\ c.req.branch \in Branches \cup {None}
         /\ calls \in [Procs -> Call]
BY DEF IndInv, Typed, Calls, CallOK, Locked, Request

\* create_inner decides to recover, to write or to return.
LEMMA CreateLookKeeps == ASSUME IndInv, NEW p \in Procs, CreateLook(p) PROVE IndInv'
<1>1. PICK c : c = calls[p]
  OBVIOUS
<1>2. c.pc = "create" /\ c.req = Req(p) /\ UNCHANGED <<disk, gta, ghosts, cnt>>
  BY <1>1 DEF CreateLook, At, Req
<1>3. /\ c \in Call /\ c.req \in Request /\ CallOK(p, c) /\ regLock = p
      /\ c.req.dest \in Dests /\ calls \in [Procs -> Call]
  BY <1>1, <1>2, Stands
<1>4. Typed /\ CheckoutsWhole /\ OneEach /\ AdminsWhole
  BY DEF IndInv, Disk
<1>5. c.req.op = "create" /\ c.req.branch # None
  BY <1>2, <1>3 DEF CallOK, CreateOK
<1>6. CASE PreparedPartial(Look(c.req), c.req)
           /\ calls' = [calls EXCEPT ![p].pc = "recheck", ![p].seen = Look(c.req)] /\ UNCHANGED locks
  <2>1. PICK i : i = Look(c.req)
    OBVIOUS
  <2>2. i \in Inspection /\ StillMine(i.admin, c.req.dest)
    BY <1>3, <1>4, <1>6, <2>1, PreparedPartialIs
  <2>3. PICK n : n = [c EXCEPT !.pc = "recheck", !.seen = i]
    OBVIOUS
  <2>4. n \in Call /\ n.pc = "recheck" /\ n.req = c.req /\ n.seen = i
    BY <1>3, <2>2, <2>3 DEF Call, Pc
  <2>5. calls' = [calls EXCEPT ![p] = n]
    BY <1>1, <1>3, <1>6, <2>1, <2>3
  <2>6. CallOK(p, n)
    BY <1>3, <1>5, <2>2, <2>4 DEF CallOK, Locked, CreateOK, RemoveOK, MoveOK
  <2> QED
    BY <1>1, <1>2, <1>6, <2>4, <2>5, <2>6, Looked
<1>7. CASE Writes(Look(c.req), c.req) /\ Goto(p, "resolve") /\ UNCHANGED locks
  <2>1. /\ \A x \in Admins : admins[x].gitdir # c.req.dest
        /\ checkouts[c.req.dest].git = None
    BY <1>3, <1>4, <1>7, WritesIs
  <2>2. PICK n \in Call : calls' = [calls EXCEPT ![p] = n] /\ n.pc = "resolve" /\ Same(n, c)
    BY <1>1, <1>7, GoneOn DEF Pc
  <2>3. CallOK(p, n)
    BY <1>3, <1>5, <2>1, <2>2 DEF Same, CallOK, Locked, CreateOK, RemoveOK, MoveOK
  <2> QED
    BY <1>1, <1>2, <1>7, <2>2, <2>3, Looked
<1>8. CASE Return(p)
  BY <1>1, <1>2, <1>8, GaveUp
<1> QED
  BY <1>2, <1>6, <1>7, <1>8 DEF CreateLook

\* A recovery that finds what it saw goes on.
LEMMA RecoverRecheckKeeps == ASSUME IndInv, NEW p \in Procs, RecoverRecheck(p) PROVE IndInv'
<1>1. PICK c : c = calls[p]
  OBVIOUS
<1>2. c.pc = "recheck" /\ UNCHANGED <<disk, gta, ghosts, cnt>>
  BY <1>1 DEF RecoverRecheck, At
<1>3. CallOK(p, c) /\ c.req \in Request /\ regLock = p
  BY <1>1, <1>2, Stands
<1>4. CASE Goto(p, "sweep") /\ UNCHANGED locks
  <2>1. PICK n \in Call : calls' = [calls EXCEPT ![p] = n] /\ n.pc = "sweep" /\ Same(n, c)
    BY <1>1, <1>4, GoneOn DEF Pc
  <2>2. CallOK(p, n)
    BY <1>2, <1>3, <2>1 DEF Same, CallOK, Locked, CreateOK, RemoveOK, MoveOK
  <2> QED
    BY <1>1, <1>2, <1>4, <2>1, <2>2, Looked
<1>5. CASE Return(p)
  BY <1>1, <1>2, <1>5, GaveUp
<1> QED
  BY <1>4, <1>5 DEF RecoverRecheck

\* The destination is clear: create decides.
LEMMA RecoverClearedKeeps == ASSUME IndInv, NEW p \in Procs, RecoverCleared(p) PROVE IndInv'
<1>1. PICK c : c = calls[p]
  OBVIOUS
<1>2. c.pc = "cleared" /\ c.req = Req(p) /\ UNCHANGED <<disk, gta, ghosts, cnt>>
  BY <1>1 DEF RecoverCleared, At, Req
<1>3. CallOK(p, c) /\ c.req \in Request /\ regLock = p
  BY <1>1, <1>2, Stands
<1>4. CASE Writes(Look(c.req), c.req) /\ Goto(p, "resolve") /\ UNCHANGED locks
  <2>1. /\ \A x \in Admins : admins[x].gitdir # c.req.dest
        /\ checkouts[c.req.dest].git = None
    BY <1>3, <1>4, WritesIs DEF IndInv, Disk
  <2>2. PICK n \in Call : calls' = [calls EXCEPT ![p] = n] /\ n.pc = "resolve" /\ Same(n, c)
    BY <1>1, <1>4, GoneOn DEF Pc
  <2>3. CallOK(p, n)
    BY <1>2, <1>3, <2>1, <2>2 DEF Same, CallOK, Locked, CreateOK, RemoveOK, MoveOK
  <2> QED
    BY <1>1, <1>2, <1>4, <2>2, <2>3, Looked
<1>5. CASE Return(p)
  BY <1>1, <1>2, <1>5, GaveUp
<1> QED
  BY <1>2, <1>4, <1>5 DEF RecoverCleared

\* The first free admin name has no files.
LEMMA CreateResolveKeeps == ASSUME IndInv, NEW p \in Procs, CreateResolve(p) PROVE IndInv'
<1>1. PICK c : c = calls[p]
  OBVIOUS
<1>2. PICK tip : tip = IF c.req.mode = "existing" THEN tips[c.req.branch] ELSE c.req.start
  OBVIOUS
<1>3. PICK next : next = IF c.req.mode = "existing" THEN "lease" ELSE "branch"
  OBVIOUS
<1>4. PICK first \in Admins :
        /\ ~admins[first].dir
        /\ \/ /\ tip # 0
              /\ calls' = [calls EXCEPT ![p].pc = next, ![p].tip = tip, ![p].admin = first]
              /\ UNCHANGED locks
           \/ Return(p)
  BY <1>1, <1>2, <1>3 DEF CreateResolve, Req
<1>5. c.pc = "resolve" /\ UNCHANGED <<disk, gta, ghosts, cnt>>
  BY <1>1 DEF CreateResolve, At
<1>6. /\ c \in Call /\ CallOK(p, c) /\ c.req \in Request /\ regLock = p /\ calls \in [Procs -> Call]
      /\ c.req.branch \in Branches \cup {None}
  BY <1>1, <1>5, Stands
<1>7. CASE /\ tip # 0
           /\ calls' = [calls EXCEPT ![p].pc = next, ![p].tip = tip, ![p].admin = first]
           /\ UNCHANGED locks
  <2>1. admins[first] = NoAdmin /\ admins[first].gitdir = None
    <3>1. admins[first] = NoAdmin
      BY <1>4 DEF IndInv, Disk, AdminsWhole
    <3> QED
      BY <3>1 DEF NoAdmin
  <2>2. tip \in 0..MaxTip
    BY <1>2, <1>5, <1>6 DEF IndInv, Typed, Request, CallOK, CreateOK
  <2>3. PICK n : n = [c EXCEPT !.pc = next, !.tip = tip, !.admin = first]
    OBVIOUS
  <2>4. /\ n \in Call /\ n.pc = next /\ n.req = c.req /\ n.tip = tip /\ n.admin = first
    BY <1>3, <1>4, <1>6, <2>2, <2>3 DEF Call, Pc
  <2>5. calls' = [calls EXCEPT ![p] = n]
    BY <1>1, <1>6, <1>7, <2>3
  <2>6. CallOK(p, n)
    BY <1>3, <1>5, <1>6, <1>7, <2>1, <2>4 DEF CallOK, Locked, CreateOK, RemoveOK, MoveOK
  <2> QED
    BY <1>1, <1>5, <1>7, <2>4, <2>5, <2>6, Looked
<1>8. CASE Return(p)
  BY <1>1, <1>5, <1>8, GaveUp
<1> QED
  BY <1>4, <1>7, <1>8

\* A success is reported for a branch nobody else has checked out.
LEMMA CreateVerifyKeeps == ASSUME IndInv, NEW p \in Procs, CreateVerify(p) PROVE IndInv'
<1>1. PICK c : c = calls[p]
  OBVIOUS
<1>2. c.pc = "verify" /\ c.req = Req(p) /\ UNCHANGED <<disk, gta, ghosts, cnt>>
  BY <1>1 DEF CreateVerify, At, Req
<1>3. /\ CallOK(p, c) /\ c.req \in Request /\ regLock = p
      /\ c.req.dest \in Dests /\ c.req.branch \in Branches \cup {None}
  BY <1>1, <1>2, Stands
<1>4. CASE AlreadyThere(Look(c.req), c.req) /\ Goto(p, "done") /\ UNCHANGED locks
  <2>1. ~InUse(c.req.branch, c.req.dest)
    <3>1. c.req.branch # None
      BY <1>2, <1>3 DEF CallOK, CreateOK
    <3>2. PICK i : i = Look(c.req)
      OBVIOUS
    <3>3. i = Inspect(c.req.dest, c.req.branch) /\ ~i.occupied
      BY <1>4, <3>2 DEF AlreadyThere, Look
    <3> QED
      BY <1>3, <3>1, <3>3, InspectIs DEF IndInv, Disk
  <2>2. PICK n \in Call : calls' = [calls EXCEPT ![p] = n] /\ n.pc = "done" /\ Same(n, c)
    BY <1>1, <1>4, GoneOn DEF Pc
  <2>3. CallOK(p, n)
    BY <1>2, <1>3, <2>1, <2>2 DEF Same, CallOK, Locked, CreateOK, RemoveOK, MoveOK
  <2> QED
    BY <1>1, <1>2, <1>4, <2>2, <2>3, Looked
<1>5. CASE Return(p)
  BY <1>1, <1>2, <1>5, GaveUp
<1> QED
  BY <1>2, <1>4, <1>5 DEF CreateVerify

\* The result is handed to the caller.
LEMMA CreateDoneKeeps == ASSUME IndInv, NEW p \in Procs, CreateDone(p) PROVE IndInv'
BY GaveUp DEF CreateDone, At

\* A removal finds what to remove.
LEMMA RemoveLookKeeps == ASSUME IndInv, NEW p \in Procs, RemoveLook(p) PROVE IndInv'
<1>1. PICK c : c = calls[p]
  OBVIOUS
<1>2. PICK x : x = Removal(c.req.dest, c.req.branch)
  OBVIOUS
<1>3. c.pc = "remove" /\ UNCHANGED <<disk, gta, ghosts, cnt>>
  BY <1>1 DEF RemoveLook, At
<1>4. /\ c \in Call /\ CallOK(p, c) /\ c.req \in Request /\ regLock = p /\ calls \in [Procs -> Call]
      /\ c.req.dest \in Dests /\ c.req.branch \in Branches \cup {None}
  BY <1>1, <1>3, Stands
<1>5. CASE x.what # "nothing" /\ calls' = [calls EXCEPT ![p].pc = "again", ![p].seen = x] /\ UNCHANGED locks
  <2>1. x \in RemovalAction /\ StillMine(x.admin, c.req.dest)
    BY <1>2, <1>4, <1>5, RemovalIs DEF IndInv, Disk
  <2>2. PICK n : n = [c EXCEPT !.pc = "again", !.seen = x]
    OBVIOUS
  <2>3. n \in Call /\ n.pc = "again" /\ n.req = c.req /\ n.seen = x
    BY <1>4, <2>1, <2>2 DEF Call, Pc
  <2>4. calls' = [calls EXCEPT ![p] = n]
    BY <1>1, <1>4, <1>5, <2>2
  <2>5. CallOK(p, n)
    BY <1>4, <2>1, <2>3 DEF CallOK, Locked, CreateOK, RemoveOK, MoveOK
  <2> QED
    BY <1>1, <1>3, <1>5, <2>3, <2>4, <2>5, Looked
<1>6. CASE Return(p)
  BY <1>1, <1>3, <1>6, GaveUp
<1> QED
  BY <1>1, <1>2, <1>5, <1>6 DEF RemoveLook, Req

\* It deletes only what it finds a second time.
LEMMA RemoveRecheckKeeps == ASSUME IndInv, NEW p \in Procs, RemoveRecheck(p) PROVE IndInv'
<1>1. PICK c : c = calls[p]
  OBVIOUS
<1>2. PICK x : x = Removal(c.req.dest, c.req.branch)
  OBVIOUS
<1>3. c.pc = "again" /\ UNCHANGED <<disk, gta, ghosts, cnt>>
  BY <1>1 DEF RemoveRecheck, At
<1>4. /\ CallOK(p, c) /\ c.req \in Request /\ regLock = p
      /\ c.req.dest \in Dests /\ c.req.branch \in Branches \cup {None}
  BY <1>1, <1>3, Stands
<1>5. CASE x = c.seen /\ Goto(p, "delete") /\ UNCHANGED locks
  <2>1. x.what = "full" => "user" \notin checkouts[c.req.dest].files
    BY <1>2, <1>4, RemovalIs DEF IndInv, Disk
  <2>2. PICK n \in Call : calls' = [calls EXCEPT ![p] = n] /\ n.pc = "delete" /\ Same(n, c)
    BY <1>1, <1>5, GoneOn DEF Pc
  <2>3. CallOK(p, n)
    BY <1>3, <1>4, <1>5, <2>1, <2>2 DEF Same, CallOK, Locked, CreateOK, RemoveOK, MoveOK
  <2> QED
    BY <1>1, <1>3, <1>5, <2>2, <2>3, Looked
<1>6. CASE Return(p)
  BY <1>1, <1>3, <1>6, GaveUp
<1> QED
  BY <1>1, <1>2, <1>5, <1>6 DEF RemoveRecheck, Req

\* A move looks at both sides.
LEMMA MoveLookKeeps == ASSUME IndInv, NEW p \in Procs, MoveLook(p) PROVE IndInv'
<1>1. PICK c : c = calls[p]
  OBVIOUS
<1>2. PICK a : a = Look(c.req).admin
  OBVIOUS
<1>3. c.pc = "move" /\ c.req = Req(p) /\ UNCHANGED <<disk, gta, ghosts, cnt>>
  BY <1>1 DEF MoveLook, At, Req
<1>4. c \in Call /\ CallOK(p, c) /\ c.req \in Request /\ regLock = p /\ calls \in [Procs -> Call]
  BY <1>1, <1>3, Stands
<1>5. CASE Movable(c.req) /\ calls' = [calls EXCEPT ![p].pc = "confirm", ![p].admin = a]
           /\ UNCHANGED locks
  <2>1. a \in Admins
    BY <1>2, <1>4, <1>5, MovableIs DEF IndInv
  <2>2. PICK n : n = [c EXCEPT !.pc = "confirm", !.admin = a]
    OBVIOUS
  <2>3. n \in Call /\ n.pc = "confirm" /\ n.req = c.req
    BY <1>4, <2>1, <2>2 DEF Call, Pc
  <2>4. calls' = [calls EXCEPT ![p] = n]
    BY <1>1, <1>4, <1>5, <2>2
  <2>5. CallOK(p, n)
    BY <1>4, <2>3 DEF CallOK, Locked, CreateOK, RemoveOK, MoveOK
  <2> QED
    BY <1>1, <1>3, <1>5, <2>3, <2>4, <2>5, Looked
<1>6. CASE Return(p)
  BY <1>1, <1>3, <1>6, GaveUp
<1> QED
  BY <1>2, <1>3, <1>5, <1>6 DEF MoveLook

\* The second look is what the rename relies on.
LEMMA MoveRecheckKeeps == ASSUME IndInv, NEW p \in Procs, MoveRecheck(p) PROVE IndInv'
<1>1. PICK c : c = calls[p]
  OBVIOUS
<1>2. PICK stale : stale = {x \in Admins : admins[x].gitdir = c.req.to}
  OBVIOUS
<1>3. c.pc = "confirm" /\ c.req = Req(p) /\ UNCHANGED <<disk, gta, ghosts, cnt>>
  BY <1>1 DEF MoveRecheck, At, Req
<1>4. c \in Call /\ CallOK(p, c) /\ c.req \in Request /\ regLock = p /\ calls \in [Procs -> Call]
  BY <1>1, <1>3, Stands
<1>5. CASE /\ Movable(c.req) /\ Look(c.req).admin = c.admin
           /\ calls' = [calls EXCEPT ![p].pc = "rename", ![p].seen = stale]
           /\ UNCHANGED locks
  <2>1. /\ c.admin \in Admins /\ c.req.to # c.req.dest
        /\ checkouts[c.req.dest].git = c.admin /\ admins[c.admin].gitdir = c.req.dest
        /\ admins[c.admin].head # None /\ admins[c.admin].index # 0
    BY <1>4, <1>5, MovableIs DEF IndInv
  <2>2. PICK n : n = [c EXCEPT !.pc = "rename", !.seen = stale]
    OBVIOUS
  <2>3. /\ n \in Call /\ n.pc = "rename" /\ n.req = c.req /\ n.admin = c.admin
        /\ n.seen = stale /\ stale \subseteq Admins
    BY <1>2, <1>4, <2>2 DEF Call, Pc
  <2>4. calls' = [calls EXCEPT ![p] = n]
    BY <1>1, <1>4, <1>5, <2>2
  <2>5. c.admin \notin stale /\ \A x \in Admins : x \in stale <=> admins[x].gitdir = c.req.to
    BY <1>2, <2>1
  <2>6. CallOK(p, n)
    BY <1>4, <2>1, <2>3, <2>5 DEF CallOK, Locked, CreateOK, RemoveOK, MoveOK, Held
  <2> QED
    BY <1>1, <1>3, <1>5, <2>3, <2>4, <2>6, Looked
<1>6. CASE Return(p)
  BY <1>1, <1>3, <1>6, GaveUp
<1> QED
  BY <1>1, <1>2, <1>3, <1>5, <1>6 DEF MoveRecheck

-----------------------------------------------------------------------------
(* Branches and the history lease *)

\* The disk and what a call relies on say nothing of where branches are.
LEMMA BranchMoved ==
  ASSUME IndInv, NEW p \in Procs, calls[p].pc \notin {"idle", "stale", "backlink"},
         NEW n \in Call, calls' = [calls EXCEPT ![p] = n], CallOK(p, n)',
         tips' \in [Branches -> 0..MaxTip], lease' \in Procs \cup {Free, Stale},
         UNCHANGED <<admins, checkouts, mainHead, regLock, gta, ghosts, cnt>>
  PROVE  IndInv'
<1>1. Calls' /\ calls' \in [Procs -> Call]
  BY OthersIdle, CallStep
<1>2. Disk'
  BY NothingMoves, DiskStays DEF IndInv, ghosts
<1>3. Typed'
  BY <1>1 DEF IndInv, Typed, ghosts
<1> QED
  BY <1>1, <1>2, <1>3 DEF IndInv

\* The branch of a new worktree.
LEMMA CreateBranchKeeps == ASSUME IndInv, NEW p \in Procs, CreateBranch(p) PROVE IndInv'
<1>1. PICK c : c = calls[p]
  OBVIOUS
<1>2. c.pc = "branch" /\ c.req = Req(p) /\ UNCHANGED <<admins, checkouts, mainHead, gta, ghosts, cnt>>
  BY <1>1 DEF CreateBranch, At, Req
<1>3. /\ CallOK(p, c) /\ c.req \in Request /\ regLock = p
  BY <1>1, <1>2, Stands
<1>4. CASE /\ tips' = [tips EXCEPT ![c.req.branch] = c.req.start]
           /\ Goto(p, "lease") /\ UNCHANGED locks
  <2>1. PICK n \in Call : calls' = [calls EXCEPT ![p] = n] /\ n.pc = "lease" /\ Same(n, c)
    BY <1>1, <1>4, GoneOn DEF Pc
  <2>2. CallOK(p, n)
    BY <1>2, <1>3, <2>1 DEF Same, CallOK, Locked, CreateOK, RemoveOK, MoveOK
  <2>3. CallOK(p, n)'
    BY <1>2, <1>4, <2>2, CallStays DEF locks, ghosts
  <2>4. tips' \in [Branches -> 0..MaxTip] /\ lease' \in Procs \cup {Free, Stale}
    BY <1>3, <1>4 DEF IndInv, Typed, Request, locks
  <2> QED
    BY <1>1, <1>2, <1>4, <2>1, <2>3, <2>4, BranchMoved DEF locks
<1>5. CASE Return(p) /\ UNCHANGED tips
  BY <1>1, <1>2, <1>5, GaveUp DEF disk
<1> QED
  BY <1>1, <1>2, <1>4, <1>5 DEF CreateBranch

\* The lease is held from here on.
LEMMA CreateLeaseKeeps == ASSUME IndInv, NEW p \in Procs, CreateLease(p) PROVE IndInv'
<1>1. PICK c : c = calls[p]
  OBVIOUS
<1>2. c.pc = "lease" /\ UNCHANGED <<disk, gta, ghosts, cnt>>
  BY <1>1 DEF CreateLease, At
<1>3. CallOK(p, c) /\ c.req \in Request /\ regLock = p
  BY <1>1, <1>2, Stands
<1>4. CASE lease' = p /\ Goto(p, "admin") /\ UNCHANGED regLock
  <2>1. PICK n \in Call : calls' = [calls EXCEPT ![p] = n] /\ n.pc = "admin" /\ Same(n, c)
    BY <1>1, <1>4, GoneOn DEF Pc
  <2>2. CallOK(p, n)'
    BY <1>2, <1>3, <1>4, <2>1 DEF Same, CallOK, Locked, CreateOK, RemoveOK, MoveOK, disk
  <2>3. tips' \in [Branches -> 0..MaxTip] /\ lease' \in Procs \cup {Free, Stale}
    BY <1>2, <1>4 DEF IndInv, Typed, disk
  <2> QED
    BY <1>1, <1>2, <1>4, <2>1, <2>2, <2>3, BranchMoved DEF disk
<1>5. CASE Return(p)
  BY <1>1, <1>2, <1>5, GaveUp
<1> QED
  BY <1>4, <1>5 DEF CreateLease

-----------------------------------------------------------------------------
(* Steps that write the admin of a new worktree *)

\* An admin gets one more file, or a gitdir nobody else has.
Grows(old, new) ==
  /\ new \in Admin /\ new.dir
  /\ new.gitdir # None => new.common
  /\ old.common => new.common
  /\ old.head # None => new.head # None
  /\ old.index # 0 => new.index # 0
  /\ \/ new.gitdir = old.gitdir
     \/ /\ old.gitdir = None /\ checkouts[new.gitdir].git = None
        /\ \A x \in Admins : admins[x].gitdir # new.gitdir

\* The disk stays right then.
LEMMA AdminGrows ==
  ASSUME IndInv, NEW a \in Admins, NEW new, Grows(admins[a], new),
         admins' = [admins EXCEPT ![a] = new],
         UNCHANGED <<checkouts, overtaken, astray>>, MotionGoesOn
  PROVE  Disk' /\ admins' \in [Admins -> Admin]
<1>1. /\ admins' \in [Admins -> Admin] /\ admins'[a] = new
      /\ \A x \in Admins : x # a => admins'[x] = admins[x]
  <2>1. new \in Admin /\ admins \in [Admins -> Admin]
    BY DEF IndInv, Typed, Grows
  <2> QED
    BY <2>1
<1>2. AdminsWhole'
  <2>1. new.dir /\ (new.gitdir # None => new.common)
    BY DEF Grows
  <2> QED
    BY <1>1, <2>1 DEF IndInv, Disk, AdminsWhole
<1>3. CheckoutsWhole'
  BY DEF IndInv, Disk, CheckoutsWhole
<1>4. OneEach'
  BY <1>1 DEF IndInv, Disk, OneEach, Grows
<1>5. NoOrphanCheckout'
  <2> SUFFICES ASSUME NEW d \in Dests, checkouts[d].git \in Admins
               PROVE  LET x == checkouts[d].git IN
                      \/ admins'[x].common /\ admins'[x].gitdir = d
                      \/ d \in astray' \/ x \in overtaken' \/ InMotion(d)'
    BY DEF NoOrphanCheckout, InMotion, Req
  <2>1. PICK x \in Admins : x = checkouts[d].git
    OBVIOUS
  <2>2. \/ admins[x].common /\ admins[x].gitdir = d
        \/ d \in astray \/ x \in overtaken \/ InMotion(d)
    BY <2>1 DEF IndInv, Disk, NoOrphanCheckout, InMotion
  <2>3. CASE admins[x].common /\ admins[x].gitdir = d
    <3>1. admins'[x].common /\ admins'[x].gitdir = d
      BY <1>1, <2>3, Nothing DEF Grows
    <3> QED
      BY <2>1, <3>1
  <2> QED
    BY <2>1, <2>2, <2>3 DEF MotionGoesOn
<1>6. LiveIsComplete'
  <2> SUFFICES ASSUME NEW d \in Dests, NEW x \in Admins, x = checkouts[d].git, admins'[x].gitdir = d
               PROVE  admins'[x].index # 0 /\ admins'[x].head # None
    BY DEF LiveIsComplete
  <2>1. CASE admins[x].gitdir = d
    <3>1. admins[x].index # 0 /\ admins[x].head # None
      BY <2>1 DEF IndInv, Disk, LiveIsComplete
    <3> QED
      BY <1>1, <3>1 DEF Grows
  <2>2. CASE admins[x].gitdir # d
    BY <1>1, <2>2, Nothing DEF Grows
  <2> QED
    BY <2>1, <2>2
<1> QED
  BY <1>1, <1>2, <1>3, <1>4, <1>5, <1>6 DEF Disk

\* A create that wrote a file of its admin.
LEMMA AdminWritten ==
  ASSUME IndInv, NEW p \in Procs, NEW c, c = calls[p], c.pc \in Writing,
         NEW n \in Call, calls' = [calls EXCEPT ![p] = n], CallOK(p, n)',
         NEW new, Grows(admins[c.admin], new), admins' = [admins EXCEPT ![c.admin] = new],
         UNCHANGED <<checkouts, tips, mainHead, locks, gta, ghosts, cnt>>
  PROVE  IndInv'
<1>1. CallOK(p, c) /\ c.admin \in Admins
  BY Stands DEF CallOK, CreateOK
<1>2. Calls' /\ calls' \in [Procs -> Call]
  BY OthersIdle, CallStep
<1>3. Disk' /\ admins' \in [Admins -> Admin]
  BY <1>1, NothingMoves, AdminGrows DEF ghosts
<1>4. Typed'
  BY <1>2, <1>3 DEF IndInv, Typed, locks, ghosts
<1> QED
  BY <1>2, <1>3, <1>4 DEF IndInv

\* The directory of the admin.
LEMMA CreateAdminKeeps == ASSUME IndInv, NEW p \in Procs, CreateAdmin(p) PROVE IndInv'
<1>1. PICK c : c = calls[p]
  OBVIOUS
<1>2. /\ c.pc = "admin" /\ Goto(p, "dest") /\ admins' = [admins EXCEPT ![c.admin].dir = TRUE]
      /\ UNCHANGED <<checkouts, tips, mainHead, locks, gta, ghosts, cnt>>
  BY <1>1 DEF CreateAdmin, At
<1>3. CallOK(p, c) /\ c.req \in Request /\ regLock = p
  BY <1>1, <1>2, Stands
<1>4. /\ c.admin \in Admins /\ admins[c.admin] = NoAdmin
      /\ admins \in [Admins -> Admin]
  BY <1>2, <1>3 DEF CallOK, CreateOK, IndInv, Typed
<1>5. PICK new : new = [admins[c.admin] EXCEPT !.dir = TRUE]
  OBVIOUS
<1>6. /\ new \in Admin /\ new.dir /\ new.gitdir = admins[c.admin].gitdir
      /\ admins[c.admin].common => new.common
      /\ new.head = admins[c.admin].head /\ new.index = admins[c.admin].index
  BY <1>4, <1>5 DEF Admin
<1>10. admins[c.admin].gitdir = None
  BY <1>4 DEF NoAdmin
<1>11. admins' = [admins EXCEPT ![c.admin] = new]
  BY <1>2, <1>4, <1>5
<1>7. PICK n \in Call : calls' = [calls EXCEPT ![p] = n] /\ n.pc = "dest" /\ Same(n, c)
  BY <1>1, <1>2, GoneOn DEF Pc
<1>8. \A x \in Admins : admins'[x].gitdir = admins[x].gitdir
  BY <1>4, <1>6, <1>11
<1>9. CallOK(p, n)'
  BY <1>2, <1>3, <1>4, <1>7, <1>8, <1>10
     DEF Same, CallOK, Locked, CreateOK, RemoveOK, MoveOK, locks
<1>12. Grows(admins[c.admin], new)
  BY <1>6, <1>10 DEF Grows
<1>13. c.pc \in Writing
  BY <1>2
<1> QED
  BY <1>1, <1>2, <1>7, <1>9, <1>11, <1>12, <1>13, AdminWritten

\* commondir.
LEMMA CreateCommondirKeeps == ASSUME IndInv, NEW p \in Procs, CreateCommondir(p) PROVE IndInv'
<1>1. PICK c : c = calls[p]
  OBVIOUS
<1>2. PICK new : new = [admins[c.admin] EXCEPT !.common = TRUE]
  OBVIOUS
<1>3. /\ c.pc = "commondir" /\ UNCHANGED <<checkouts, tips, mainHead, gta, ghosts, cnt>>
      /\ \/ /\ admins[c.admin].dir /\ Goto(p, "gitdir") /\ UNCHANGED locks
            /\ admins' = [admins EXCEPT ![c.admin] = new]
         \/ Return(p) /\ UNCHANGED admins
  BY <1>1, <1>2 DEF CreateCommondir, AdminFile, At
<1>4. CallOK(p, c) /\ c.req \in Request /\ regLock = p
  BY <1>1, <1>3, Stands
<1>5. CASE /\ admins[c.admin].dir /\ Goto(p, "gitdir") /\ UNCHANGED locks
           /\ admins' = [admins EXCEPT ![c.admin] = new]
  <2>1. /\ c.admin \in Admins /\ admins \in [Admins -> Admin] /\ admins[c.admin].gitdir = None
    BY <1>3, <1>4 DEF CallOK, CreateOK, IndInv, Typed
  <2>2. /\ new \in Admin /\ new.dir /\ new.common /\ new.gitdir = None
        /\ new.head = admins[c.admin].head /\ new.index = admins[c.admin].index
    BY <1>2, <1>5, <2>1 DEF Admin
  <2>3. PICK n \in Call : calls' = [calls EXCEPT ![p] = n] /\ n.pc = "gitdir" /\ Same(n, c)
    BY <1>1, <1>5, GoneOn DEF Pc
  <2>4. admins'[c.admin] = new /\ \A x \in Admins : admins'[x].gitdir = admins[x].gitdir
    BY <1>5, <2>1, <2>2
  <2>5. CallOK(p, n)'
    BY <1>3, <1>4, <1>5, <2>1, <2>2, <2>3, <2>4
       DEF Same, CallOK, Locked, CreateOK, RemoveOK, MoveOK, locks
  <2>6. Grows(admins[c.admin], new) /\ c.pc \in Writing
    BY <1>3, <2>1, <2>2 DEF Grows
  <2> QED
    BY <1>1, <1>3, <1>5, <2>3, <2>5, <2>6, AdminWritten
<1>6. CASE Return(p) /\ UNCHANGED admins
  BY <1>1, <1>3, <1>6, GaveUp DEF disk
<1> QED
  BY <1>3, <1>5, <1>6

\* gitdir, where no other admin names the destination.
LEMMA CreateGitdirKeeps == ASSUME IndInv, NEW p \in Procs, CreateGitdir(p) PROVE IndInv'
<1>1. PICK c : c = calls[p]
  OBVIOUS
<1>2. PICK new : new = [admins[c.admin] EXCEPT !.gitdir = c.req.dest]
  OBVIOUS
<1>3. /\ c.pc = "gitdir" /\ UNCHANGED <<checkouts, tips, mainHead, gta, ghosts, cnt>>
      /\ \/ /\ admins[c.admin].dir /\ Goto(p, "head") /\ UNCHANGED locks
            /\ admins' = [admins EXCEPT ![c.admin] = new]
         \/ Return(p) /\ UNCHANGED admins
  BY <1>1, <1>2 DEF CreateGitdir, AdminFile, At, Req
<1>4. CallOK(p, c) /\ c.req \in Request /\ regLock = p /\ c.req.dest \in Dests
  BY <1>1, <1>3, Stands
<1>5. CASE /\ admins[c.admin].dir /\ Goto(p, "head") /\ UNCHANGED locks
           /\ admins' = [admins EXCEPT ![c.admin] = new]
  <2>1. /\ c.admin \in Admins /\ admins \in [Admins -> Admin] /\ admins[c.admin].gitdir = None
        /\ checkouts[c.req.dest].git = None /\ \A x \in Admins : admins[x].gitdir # c.req.dest
    BY <1>3, <1>4 DEF CallOK, CreateOK, IndInv, Typed
  <2>2. admins[c.admin].common
    BY <1>3, <1>4, <1>5 DEF CallOK, CreateOK, NoAdmin
  <2>3. /\ new \in Admin /\ new.dir /\ new.common /\ new.gitdir = c.req.dest
        /\ new.head = admins[c.admin].head /\ new.index = admins[c.admin].index
    BY <1>2, <1>4, <1>5, <2>1, <2>2 DEF Admin
  <2>4. PICK n \in Call : calls' = [calls EXCEPT ![p] = n] /\ n.pc = "head" /\ Same(n, c)
    BY <1>1, <1>5, GoneOn DEF Pc
  <2>5. admins'[c.admin] = new
    BY <1>5, <2>1
  <2>6. CallOK(p, n)'
    BY <1>3, <1>4, <1>5, <2>1, <2>3, <2>4, <2>5
       DEF Same, CallOK, Locked, CreateOK, RemoveOK, MoveOK, locks
  <2>7. Grows(admins[c.admin], new) /\ c.pc \in Writing
    BY <1>3, <2>1, <2>3 DEF Grows
  <2> QED
    BY <1>1, <1>3, <1>5, <2>4, <2>6, <2>7, AdminWritten
<1>6. CASE Return(p) /\ UNCHANGED admins
  BY <1>1, <1>3, <1>6, GaveUp DEF disk
<1> QED
  BY <1>3, <1>5, <1>6

\* HEAD.
LEMMA CreateHeadKeeps == ASSUME IndInv, NEW p \in Procs, CreateHead(p) PROVE IndInv'
<1>1. PICK c : c = calls[p]
  OBVIOUS
<1>2. PICK new : new = [admins[c.admin] EXCEPT !.head = c.req.branch]
  OBVIOUS
<1>3. /\ c.pc = "head" /\ UNCHANGED <<checkouts, tips, mainHead, gta, ghosts, cnt>>
      /\ \/ /\ admins[c.admin].dir /\ Goto(p, "files") /\ UNCHANGED locks
            /\ admins' = [admins EXCEPT ![c.admin] = new]
         \/ Return(p) /\ UNCHANGED admins
  BY <1>1, <1>2 DEF CreateHead, AdminFile, At, Req
<1>4. /\ CallOK(p, c) /\ c.req \in Request /\ regLock = p
      /\ c.req.branch \in Branches \cup {None} /\ c.req.branch # None
  BY <1>1, <1>3, Stands DEF CallOK, CreateOK
<1>5. CASE /\ admins[c.admin].dir /\ Goto(p, "files") /\ UNCHANGED locks
           /\ admins' = [admins EXCEPT ![c.admin] = new]
  <2>1. /\ c.admin \in Admins /\ admins \in [Admins -> Admin]
        /\ admins[c.admin].gitdir # None => admins[c.admin].common
    BY <1>3, <1>4 DEF CallOK, CreateOK, IndInv, Typed, Disk, AdminsWhole
  <2>2. admins[c.admin].gitdir = c.req.dest
    BY <1>3, <1>4, <1>5 DEF CallOK, CreateOK, Lost, NoAdmin
  <2>3. /\ new \in Admin /\ new.dir /\ new.gitdir = admins[c.admin].gitdir /\ new.head # None
        /\ (admins[c.admin].common => new.common) /\ new.index = admins[c.admin].index
    BY <1>2, <1>4, <1>5, <2>1 DEF Admin
  <2>4. PICK n \in Call : calls' = [calls EXCEPT ![p] = n] /\ n.pc = "files" /\ Same(n, c)
    BY <1>1, <1>5, GoneOn DEF Pc
  <2>5. admins'[c.admin] = new
    BY <1>5, <2>1
  <2>6. CallOK(p, n)'
    BY <1>3, <1>4, <1>5, <2>1, <2>2, <2>3, <2>4, <2>5
       DEF Same, CallOK, Locked, CreateOK, RemoveOK, MoveOK, locks
  <2>7. Grows(admins[c.admin], new) /\ c.pc \in Writing
    BY <1>3, <2>1, <2>3 DEF Grows
  <2> QED
    BY <1>1, <1>3, <1>5, <2>4, <2>6, <2>7, AdminWritten
<1>6. CASE Return(p) /\ UNCHANGED admins
  BY <1>1, <1>3, <1>6, GaveUp DEF disk
<1> QED
  BY <1>3, <1>5, <1>6

\* The index.
LEMMA CreateIndexKeeps == ASSUME IndInv, NEW p \in Procs, CreateIndex(p) PROVE IndInv'
<1>1. PICK c : c = calls[p]
  OBVIOUS
<1>2. PICK new : new = [admins[c.admin] EXCEPT !.index = c.tip]
  OBVIOUS
<1>3. /\ c.pc = "index" /\ UNCHANGED <<checkouts, tips, mainHead, gta, ghosts, cnt>>
      /\ \/ /\ admins[c.admin].dir /\ Goto(p, "gitfile") /\ UNCHANGED locks
            /\ admins' = [admins EXCEPT ![c.admin] = new]
         \/ Return(p) /\ UNCHANGED admins
  BY <1>1, <1>2 DEF CreateIndex, AdminFile, At
<1>4. CallOK(p, c) /\ c.req \in Request /\ regLock = p /\ c \in Call
  BY <1>1, <1>3, Stands
<1>5. CASE /\ admins[c.admin].dir /\ Goto(p, "gitfile") /\ UNCHANGED locks
           /\ admins' = [admins EXCEPT ![c.admin] = new]
  <2>1. /\ c.admin \in Admins /\ admins \in [Admins -> Admin] /\ c.tip # 0 /\ c.tip \in 0..MaxTip
        /\ admins[c.admin].gitdir # None => admins[c.admin].common
    BY <1>3, <1>4 DEF CallOK, CreateOK, IndInv, Typed, Disk, AdminsWhole, Call
  <2>2. admins[c.admin].gitdir = c.req.dest /\ admins[c.admin].head # None
    BY <1>3, <1>4, <1>5 DEF CallOK, CreateOK, Lost, NoAdmin
  <2>3. /\ new \in Admin /\ new.dir /\ new.gitdir = admins[c.admin].gitdir /\ new.index # 0
        /\ (admins[c.admin].common => new.common) /\ new.head = admins[c.admin].head
    BY <1>2, <1>5, <2>1 DEF Admin
  <2>4. PICK n \in Call : calls' = [calls EXCEPT ![p] = n] /\ n.pc = "gitfile" /\ Same(n, c)
    BY <1>1, <1>5, GoneOn DEF Pc
  <2>5. admins'[c.admin] = new
    BY <1>5, <2>1
  <2>6. CallOK(p, n)'
    BY <1>3, <1>4, <1>5, <2>1, <2>2, <2>3, <2>4, <2>5
       DEF Same, CallOK, Locked, CreateOK, RemoveOK, MoveOK, locks
  <2>7. Grows(admins[c.admin], new) /\ c.pc \in Writing
    BY <1>3, <2>1, <2>3 DEF Grows
  <2> QED
    BY <1>1, <1>3, <1>5, <2>4, <2>6, <2>7, AdminWritten
<1>6. CASE Return(p) /\ UNCHANGED admins
  BY <1>1, <1>3, <1>6, GaveUp DEF disk
<1> QED
  BY <1>3, <1>5, <1>6

-----------------------------------------------------------------------------
(* Steps that write the checkout *)

\* A checkout's .git is taken away, made, or made to name its own admin.
Fits(d, old, new) ==
  /\ new \in Checkout
  /\ ~new.dir => new.git = None /\ new.files = {}
  /\ \/ new.git \in {old.git, None, Torn}
     \/ /\ new.git \in Admins
        /\ \/ admins[new.git].common /\ Held(new.git, d)
           \/ Lost(new.git)

\* The disk stays right then.
LEMMA CheckoutFits ==
  ASSUME IndInv, NEW d \in Dests, NEW new, Fits(d, checkouts[d], new),
         checkouts' = [checkouts EXCEPT ![d] = new],
         UNCHANGED <<admins, overtaken, astray>>, MotionGoesOn
  PROVE  Disk' /\ checkouts' \in [Dests -> Checkout]
<1>1. /\ checkouts' \in [Dests -> Checkout] /\ checkouts'[d] = new
      /\ \A e \in Dests : e # d => checkouts'[e] = checkouts[e]
  <2>1. new \in Checkout /\ checkouts \in [Dests -> Checkout]
    BY DEF IndInv, Typed, Fits
  <2> QED
    BY <2>1
<1>2. AdminsWhole' /\ OneEach'
  BY DEF IndInv, Disk, AdminsWhole, OneEach
<1>3. CheckoutsWhole'
  <2>1. ~new.dir => new.git = None /\ new.files = {}
    BY DEF Fits
  <2> QED
    BY <1>1, <2>1 DEF IndInv, Disk, CheckoutsWhole
<1>4. ASSUME NEW e \in Dests, checkouts'[e].git \in Admins
      PROVE  \/ checkouts'[e].git = checkouts[e].git
             \/ /\ admins[checkouts'[e].git].common /\ admins[checkouts'[e].git].gitdir = e
                /\ admins[checkouts'[e].git].head # None /\ admins[checkouts'[e].git].index # 0
             \/ /\ checkouts'[e].git \in overtaken /\ admins[checkouts'[e].git].gitdir # e
  <2>1. CASE e # d
    BY <1>1, <2>1
  <2>2. CASE e = d
    <3>1. PICK g : g = new.git
      OBVIOUS
    <3>2. checkouts'[e].git = g /\ g \in Admins
      BY <1>1, <1>4, <2>2, <3>1
    <3>3. g = checkouts[d].git \/ (admins[g].common /\ Held(g, d)) \/ Lost(g)
      BY <3>1, <3>2, Nothing DEF Fits
    <3>4. Lost(g) => g \in overtaken /\ admins[g].gitdir # d
      BY Nothing DEF Lost, NoAdmin
    <3>5. admins[g].common /\ Held(g, d) =>
            \/ /\ admins[g].common /\ admins[g].gitdir = d
               /\ admins[g].head # None /\ admins[g].index # 0
            \/ Lost(g)
      BY DEF Held
    <3> QED
      BY <2>2, <3>2, <3>3, <3>4, <3>5
  <2> QED
    BY <2>1, <2>2
<1>5. NoOrphanCheckout'
  <2> SUFFICES ASSUME NEW e \in Dests, NEW x \in Admins, x = checkouts'[e].git
               PROVE  \/ admins'[x].common /\ admins'[x].gitdir = e
                      \/ e \in astray' \/ x \in overtaken' \/ InMotion(e)'
    BY DEF NoOrphanCheckout, InMotion, Req
  <2>1. CASE checkouts'[e].git = checkouts[e].git
    <3>1. \/ admins[x].common /\ admins[x].gitdir = e
          \/ e \in astray \/ x \in overtaken \/ InMotion(e)
      BY <2>1 DEF IndInv, Disk, NoOrphanCheckout, InMotion
    <3> QED
      BY <3>1 DEF MotionGoesOn
  <2>2. CASE checkouts'[e].git # checkouts[e].git
    BY <1>4, <2>2
  <2> QED
    BY <2>1, <2>2
<1>6. LiveIsComplete'
  <2> SUFFICES ASSUME NEW e \in Dests, NEW x \in Admins, x = checkouts'[e].git, admins'[x].gitdir = e
               PROVE  admins'[x].index # 0 /\ admins'[x].head # None
    BY DEF LiveIsComplete
  <2>1. CASE checkouts'[e].git = checkouts[e].git
    BY <2>1 DEF IndInv, Disk, LiveIsComplete
  <2>2. CASE checkouts'[e].git # checkouts[e].git
    BY <1>4, <2>2
  <2> QED
    BY <2>1, <2>2
<1> QED
  BY <1>1, <1>2, <1>3, <1>5, <1>6 DEF Disk

\* A call that wrote to the checkout and goes on.
LEMMA CheckoutWritten ==
  ASSUME IndInv, NEW p \in Procs, calls[p].pc \notin {"idle", "stale", "backlink"},
         NEW n \in Call, calls' = [calls EXCEPT ![p] = n], CallOK(p, n)',
         NEW d \in Dests, NEW new, Fits(d, checkouts[d], new),
         checkouts' = [checkouts EXCEPT ![d] = new], late' \subseteq Dests,
         UNCHANGED <<admins, tips, mainHead, locks, gta, astray, overtaken, cnt>>
  PROVE  IndInv'
<1>1. Calls' /\ calls' \in [Procs -> Call]
  BY OthersIdle, CallStep
<1>2. Disk' /\ checkouts' \in [Dests -> Checkout]
  BY NothingMoves, CheckoutFits
<1>3. Typed'
  BY <1>1, <1>2 DEF IndInv, Typed, locks
<1> QED
  BY <1>1, <1>2, <1>3 DEF IndInv

\* The directory of the checkout.
LEMMA CreateDestKeeps == ASSUME IndInv, NEW p \in Procs, CreateDest(p) PROVE IndInv'
<1>1. PICK c : c = calls[p]
  OBVIOUS
<1>2. /\ c.pc = "dest" /\ Goto(p, "commondir")
      /\ checkouts' = [checkouts EXCEPT ![c.req.dest].dir = TRUE]
      /\ UNCHANGED <<admins, tips, mainHead, locks, gta, ghosts, cnt>>
  BY <1>1 DEF CreateDest, At, Req
<1>3. CallOK(p, c) /\ c.req \in Request /\ regLock = p /\ c.req.dest \in Dests
  BY <1>1, <1>2, Stands
<1>4. PICK new : new = [checkouts[c.req.dest] EXCEPT !.dir = TRUE]
  OBVIOUS
<1>5. checkouts \in [Dests -> Checkout] /\ late \subseteq Dests
  BY DEF IndInv, Typed
<1>6. new \in Checkout /\ new.dir /\ new.git = checkouts[c.req.dest].git
  BY <1>3, <1>4, <1>5 DEF Checkout
<1>11. checkouts' = [checkouts EXCEPT ![c.req.dest] = new]
  BY <1>2, <1>3, <1>4, <1>5
<1>7. Fits(c.req.dest, checkouts[c.req.dest], new)
  BY <1>6 DEF Fits
<1>8. PICK n \in Call : calls' = [calls EXCEPT ![p] = n] /\ n.pc = "commondir" /\ Same(n, c)
  BY <1>1, <1>2, GoneOn DEF Pc
<1>9. checkouts'[c.req.dest].git = checkouts[c.req.dest].git
  BY <1>3, <1>5, <1>6, <1>11
<1>10. CallOK(p, n)'
  BY <1>2, <1>3, <1>8, <1>9 DEF Same, CallOK, Locked, CreateOK, RemoveOK, MoveOK, locks
<1> QED
  BY <1>1, <1>2, <1>3, <1>5, <1>7, <1>8, <1>10, <1>11, CheckoutWritten DEF ghosts

\* The files.
LEMMA CreateFilesKeeps == ASSUME IndInv, NEW p \in Procs, CreateFiles(p) PROVE IndInv'
<1>1. PICK c : c = calls[p]
  OBVIOUS
<1>2. PICK new : new = [checkouts[c.req.dest] EXCEPT !.files = checkouts[c.req.dest].files \cup {"tracked"}]
  OBVIOUS
<1>3. /\ c.pc = "files" /\ UNCHANGED <<admins, tips, mainHead, gta, ghosts, cnt>>
      /\ \/ /\ checkouts[c.req.dest].dir /\ Goto(p, "index") /\ UNCHANGED locks
            /\ checkouts' = [checkouts EXCEPT ![c.req.dest].files = checkouts[c.req.dest].files \cup {"tracked"}]
         \/ Return(p) /\ UNCHANGED checkouts
  BY <1>1 DEF CreateFiles, At, Req
<1>4. CallOK(p, c) /\ c.req \in Request /\ regLock = p /\ c.req.dest \in Dests
  BY <1>1, <1>3, Stands
<1>5. CASE /\ checkouts[c.req.dest].dir /\ Goto(p, "index") /\ UNCHANGED locks
           /\ checkouts' = [checkouts EXCEPT ![c.req.dest].files = checkouts[c.req.dest].files \cup {"tracked"}]
  <2>1. checkouts \in [Dests -> Checkout] /\ late \subseteq Dests
    BY DEF IndInv, Typed
  <2>2. new \in Checkout /\ new.dir /\ new.git = checkouts[c.req.dest].git
    BY <1>2, <1>4, <1>5, <2>1 DEF Checkout
  <2>3. checkouts' = [checkouts EXCEPT ![c.req.dest] = new]
    BY <1>2, <1>4, <1>5, <2>1
  <2>4. Fits(c.req.dest, checkouts[c.req.dest], new)
    BY <2>2 DEF Fits
  <2>5. PICK n \in Call : calls' = [calls EXCEPT ![p] = n] /\ n.pc = "index" /\ Same(n, c)
    BY <1>1, <1>5, GoneOn DEF Pc
  <2>6. checkouts'[c.req.dest].git = checkouts[c.req.dest].git
    BY <1>4, <2>1, <2>2, <2>3
  <2>7. CallOK(p, n)'
    BY <1>3, <1>4, <1>5, <2>5, <2>6
       DEF Same, CallOK, Locked, CreateOK, RemoveOK, MoveOK, Lost, locks, ghosts
  <2> QED
    BY <1>1, <1>3, <1>4, <1>5, <2>1, <2>3, <2>4, <2>5, <2>7, CheckoutWritten DEF ghosts
<1>6. CASE Return(p) /\ UNCHANGED checkouts
  BY <1>1, <1>3, <1>6, GaveUp DEF disk
<1> QED
  BY <1>3, <1>5, <1>6

\* .git is made where there is none.
LEMMA CreateGitfileKeeps == ASSUME IndInv, NEW p \in Procs, CreateGitfile(p) PROVE IndInv'
<1>1. PICK c : c = calls[p]
  OBVIOUS
<1>2. PICK new : new = [checkouts[c.req.dest] EXCEPT !.git = Torn]
  OBVIOUS
<1>3. /\ c.pc = "gitfile" /\ UNCHANGED <<admins, tips, mainHead, gta, ghosts, cnt>>
      /\ \/ /\ checkouts[c.req.dest].dir /\ Goto(p, "content") /\ UNCHANGED locks
            /\ checkouts' = [checkouts EXCEPT ![c.req.dest].git = Torn]
         \/ Return(p) /\ UNCHANGED checkouts
  BY <1>1 DEF CreateGitfile, At, Req
<1>4. CallOK(p, c) /\ c.req \in Request /\ regLock = p /\ c.req.dest \in Dests
  BY <1>1, <1>3, Stands
<1>5. CASE /\ checkouts[c.req.dest].dir /\ Goto(p, "content") /\ UNCHANGED locks
           /\ checkouts' = [checkouts EXCEPT ![c.req.dest].git = Torn]
  <2>1. checkouts \in [Dests -> Checkout] /\ late \subseteq Dests
    BY DEF IndInv, Typed
  <2>2. new \in Checkout /\ new.dir /\ new.git = Torn
    BY <1>2, <1>4, <1>5, <2>1 DEF Checkout
  <2>3. checkouts' = [checkouts EXCEPT ![c.req.dest] = new]
    BY <1>2, <1>4, <1>5, <2>1
  <2>4. Fits(c.req.dest, checkouts[c.req.dest], new)
    BY <2>2 DEF Fits
  <2>5. PICK n \in Call : calls' = [calls EXCEPT ![p] = n] /\ n.pc = "content" /\ Same(n, c)
    BY <1>1, <1>5, GoneOn DEF Pc
  <2>6. checkouts'[c.req.dest].git = Torn
    BY <1>4, <2>1, <2>2, <2>3
  <2>7. CallOK(p, n)'
    BY <1>3, <1>4, <1>5, <2>5, <2>6
       DEF Same, CallOK, Locked, CreateOK, RemoveOK, MoveOK, Lost, locks, ghosts
  <2> QED
    BY <1>1, <1>3, <1>4, <1>5, <2>1, <2>3, <2>4, <2>5, <2>7, CheckoutWritten DEF ghosts
<1>6. CASE Return(p) /\ UNCHANGED checkouts
  BY <1>1, <1>3, <1>6, GaveUp DEF disk
<1> QED
  BY <1>3, <1>5, <1>6

\* It is made to name the admin only when that is complete.
LEMMA CreateContentKeeps == ASSUME IndInv, NEW p \in Procs, CreateContent(p) PROVE IndInv'
<1>1. PICK c : c = calls[p]
  OBVIOUS
<1>2. PICK d : d = c.req.dest
  OBVIOUS
<1>3. /\ c.pc = "content" /\ Goto(p, "verify")
      /\ UNCHANGED <<admins, tips, mainHead, locks, gta, ghosts, cnt>>
      /\ checkouts' = IF checkouts[d].git = Torn
                      THEN [checkouts EXCEPT ![d].git = c.admin] ELSE checkouts
  BY <1>1, <1>2 DEF CreateContent, At, Req
<1>4. CallOK(p, c) /\ c.req \in Request /\ regLock = p /\ d \in Dests
  BY <1>1, <1>2, <1>3, Stands
<1>5. PICK n \in Call : calls' = [calls EXCEPT ![p] = n] /\ n.pc = "verify" /\ Same(n, c)
  BY <1>1, <1>3, GoneOn DEF Pc
<1>6. CallOK(p, n)'
  BY <1>3, <1>4, <1>5 DEF Same, CallOK, Locked, CreateOK, RemoveOK, MoveOK, locks
<1>7. checkouts \in [Dests -> Checkout] /\ late \subseteq Dests
  BY DEF IndInv, Typed
<1>8. CASE checkouts[d].git = Torn
  <2>1. PICK new : new = [checkouts[d] EXCEPT !.git = c.admin]
    OBVIOUS
  <2>2. c.admin \in Admins /\ (admins[c.admin].gitdir = d \/ Lost(c.admin))
    BY <1>2, <1>3, <1>4 DEF CallOK, CreateOK
  <2>3. Lost(c.admin) \/ (admins[c.admin].common /\ Held(c.admin, d))
    BY <1>3, <1>4, <2>2, Nothing DEF CallOK, CreateOK, Held, IndInv, Disk, AdminsWhole
  <2>4. checkouts[d].dir
    BY <1>4, <1>8, Nothing DEF IndInv, Disk, CheckoutsWhole
  <2>5. new \in Checkout /\ new.dir /\ new.git = c.admin
    BY <1>4, <1>7, <2>1, <2>2, <2>4 DEF Checkout
  <2>6. checkouts' = [checkouts EXCEPT ![d] = new]
    BY <1>3, <1>4, <1>7, <1>8, <2>1
  <2>7. Fits(d, checkouts[d], new)
    BY <2>2, <2>3, <2>5 DEF Fits
  <2> QED
    BY <1>1, <1>3, <1>4, <1>5, <1>6, <1>7, <2>6, <2>7, CheckoutWritten DEF ghosts
<1>9. CASE checkouts[d].git # Torn
  <2>1. CallOK(p, n)
    BY <1>3, <1>4, <1>5 DEF Same, CallOK, Locked, CreateOK, RemoveOK, MoveOK
  <2> QED
    BY <1>1, <1>3, <1>5, <1>9, <2>1, Looked DEF disk
<1> QED
  BY <1>8, <1>9

\* A recovery takes the destination away in one rename.
LEMMA RecoverSweepKeeps == ASSUME IndInv, NEW p \in Procs, RecoverSweep(p) PROVE IndInv'
<1>1. PICK c : c = calls[p]
  OBVIOUS
<1>2. /\ c.pc = "sweep" /\ UNCHANGED <<admins, tips, mainHead, gta, astray, overtaken, cnt>>
      /\ \/ Return(p) /\ UNCHANGED <<checkouts, late>>
         \/ /\ checkouts' = [checkouts EXCEPT ![c.req.dest] = NoCheckout]
            /\ late' = late \ {c.req.dest} /\ Goto(p, "discard") /\ UNCHANGED locks
  BY <1>1 DEF RecoverSweep, At, Req
<1>3. CallOK(p, c) /\ c.req \in Request /\ regLock = p /\ c.req.dest \in Dests
  BY <1>1, <1>2, Stands
<1>4. CASE /\ checkouts' = [checkouts EXCEPT ![c.req.dest] = NoCheckout]
           /\ late' = late \ {c.req.dest} /\ Goto(p, "discard") /\ UNCHANGED locks
  <2>1. checkouts \in [Dests -> Checkout] /\ late' \subseteq Dests
    BY <1>4 DEF IndInv, Typed
  <2>2. NoCheckout.git = None /\ NoCheckout.files = {} /\ NoCheckout \in Checkout
    BY DEF NoCheckout, Checkout
  <2>3. Fits(c.req.dest, checkouts[c.req.dest], NoCheckout)
    BY <2>2 DEF Fits
  <2>4. checkouts'[c.req.dest].git = None
    BY <1>3, <1>4, <2>1, <2>2
  <2>5. PICK n \in Call : calls' = [calls EXCEPT ![p] = n] /\ n.pc = "discard" /\ Same(n, c)
    BY <1>1, <1>4, GoneOn DEF Pc
  <2>6. CallOK(p, n)'
    BY <1>2, <1>3, <1>4, <2>4, <2>5
       DEF Same, CallOK, Locked, CreateOK, RemoveOK, MoveOK, StillMine, locks
  <2> QED
    BY <1>1, <1>2, <1>3, <1>4, <2>1, <2>3, <2>5, <2>6, CheckoutWritten
<1>5. CASE Return(p) /\ UNCHANGED <<checkouts, late>>
  BY <1>1, <1>2, <1>5, GaveUp DEF disk, ghosts
<1> QED
  BY <1>2, <1>4, <1>5

\* A removal deletes an entry of the checkout.
LEMMA RemoveEntryKeeps == ASSUME IndInv, NEW p \in Procs, RemoveEntry(p) PROVE IndInv'
<1>1. PICK c : c = calls[p]
  OBVIOUS
<1>2. PICK d : d = c.req.dest
  OBVIOUS
<1>3. /\ c.pc = "delete"
      /\ UNCHANGED <<admins, tips, mainHead, locks, calls, gta, ghosts, cnt>>
      /\ \/ \E f \in checkouts[d].files :
              checkouts' = [checkouts EXCEPT ![d].files = checkouts[d].files \ {f}]
         \/ checkouts' = [checkouts EXCEPT ![d].git = None]
  BY <1>1, <1>2 DEF RemoveEntry, At, Req
<1>4. /\ c \in Call /\ CallOK(p, c) /\ c.req \in Request /\ regLock = p /\ d \in Dests
      /\ calls \in [Procs -> Call]
  BY <1>1, <1>2, <1>3, Stands
<1>5. checkouts \in [Dests -> Checkout] /\ late \subseteq Dests /\ checkouts[d] \in Checkout
  BY <1>4 DEF IndInv, Typed
<1>6. \E new \in Checkout :
        /\ new.dir = checkouts[d].dir /\ new.git \in {checkouts[d].git, None}
        /\ new.files \subseteq checkouts[d].files /\ checkouts' = [checkouts EXCEPT ![d] = new]
  <2>1. ASSUME NEW f \in checkouts[d].files,
               checkouts' = [checkouts EXCEPT ![d].files = checkouts[d].files \ {f}]
        PROVE  \E new \in Checkout :
                 /\ new.dir = checkouts[d].dir /\ new.git \in {checkouts[d].git, None}
                 /\ new.files \subseteq checkouts[d].files
                 /\ checkouts' = [checkouts EXCEPT ![d] = new]
    <3>1. PICK new : new = [checkouts[d] EXCEPT !.files = checkouts[d].files \ {f}]
      OBVIOUS
    <3>2. /\ new \in Checkout /\ new.dir = checkouts[d].dir /\ new.git = checkouts[d].git
          /\ new.files \subseteq checkouts[d].files
      BY <1>5, <3>1 DEF Checkout
    <3>3. checkouts' = [checkouts EXCEPT ![d] = new]
      BY <1>4, <1>5, <2>1, <3>1
    <3> QED
      BY <3>2, <3>3
  <2>2. CASE checkouts' = [checkouts EXCEPT ![d].git = None]
    <3>1. PICK new : new = [checkouts[d] EXCEPT !.git = None]
      OBVIOUS
    <3>2. /\ new \in Checkout /\ new.dir = checkouts[d].dir /\ new.git = None
          /\ new.files \subseteq checkouts[d].files
      BY <1>5, <3>1 DEF Checkout
    <3>3. checkouts' = [checkouts EXCEPT ![d] = new]
      BY <1>4, <1>5, <2>2, <3>1
    <3> QED
      BY <3>2, <3>3
  <2> QED
    BY <1>3, <2>1, <2>2
<1>7. PICK new \in Checkout :
        /\ new.dir = checkouts[d].dir /\ new.git \in {checkouts[d].git, None}
        /\ new.files \subseteq checkouts[d].files /\ checkouts' = [checkouts EXCEPT ![d] = new]
  BY <1>6
<1>8. Fits(d, checkouts[d], new)
  BY <1>4, <1>7 DEF Fits, IndInv, Disk, CheckoutsWhole
<1>9. calls' = [calls EXCEPT ![p] = c]
  BY <1>1, <1>3, <1>4
<1>10. checkouts'[d].files \subseteq checkouts[d].files
  BY <1>4, <1>5, <1>7
<1>11. CallOK(p, c)'
  BY <1>2, <1>3, <1>4, <1>10
     DEF CallOK, Locked, CreateOK, RemoveOK, MoveOK, StillMine, locks, ghosts
<1> QED
  BY <1>1, <1>3, <1>4, <1>5, <1>7, <1>8, <1>9, <1>11, CheckoutWritten DEF ghosts

\* It deletes the directory when that is empty.
LEMMA RemoveDirectoryKeeps == ASSUME IndInv, NEW p \in Procs, RemoveDirectory(p) PROVE IndInv'
<1>1. PICK c : c = calls[p]
  OBVIOUS
<1>2. /\ c.pc = "delete" /\ Goto(p, "deregister")
      /\ UNCHANGED <<admins, tips, mainHead, locks, gta, ghosts, cnt>>
      /\ \/ checkouts' = [checkouts EXCEPT ![c.req.dest] = NoCheckout]
         \/ checkouts' = checkouts
  BY <1>1 DEF RemoveDirectory, At, Req
<1>3. CallOK(p, c) /\ c.req \in Request /\ regLock = p /\ c.req.dest \in Dests
  BY <1>1, <1>2, Stands
<1>4. PICK n \in Call : calls' = [calls EXCEPT ![p] = n] /\ n.pc = "deregister" /\ Same(n, c)
  BY <1>1, <1>2, GoneOn DEF Pc
<1>5. CallOK(p, n)'
  BY <1>2, <1>3, <1>4 DEF Same, CallOK, Locked, CreateOK, RemoveOK, MoveOK, StillMine, locks
<1>6. CASE checkouts' = [checkouts EXCEPT ![c.req.dest] = NoCheckout]
  <2>1. late' \subseteq Dests
    BY <1>2 DEF IndInv, Typed, ghosts
  <2>2. NoCheckout.git = None /\ NoCheckout.files = {} /\ NoCheckout \in Checkout
    BY DEF NoCheckout, Checkout
  <2>3. Fits(c.req.dest, checkouts[c.req.dest], NoCheckout)
    BY <2>2 DEF Fits
  <2> QED
    BY <1>1, <1>2, <1>3, <1>4, <1>5, <1>6, <2>1, <2>3, CheckoutWritten DEF ghosts
<1>7. CASE checkouts' = checkouts
  <2>1. CallOK(p, n)
    BY <1>2, <1>3, <1>4 DEF Same, CallOK, Locked, CreateOK, RemoveOK, MoveOK
  <2> QED
    BY <1>1, <1>2, <1>4, <1>7, <2>1, Looked DEF disk
<1> QED
  BY <1>2, <1>6, <1>7

-----------------------------------------------------------------------------
(* Steps that drop an admin *)

\* Nothing is orphaned when no checkout names what is dropped, or when what
\* does is excepted.
LEMMA AdminsDropped ==
  ASSUME IndInv, NEW S \in SUBSET Admins,
         admins' = [a \in Admins |-> IF a \in S THEN NoAdmin ELSE admins[a]],
         checkouts' = checkouts, astray' = astray, overtaken \subseteq overtaken', MotionGoesOn,
         \A d \in Dests : checkouts[d].git \in S =>
           d \in astray \/ checkouts[d].git \in overtaken' \/ InMotion(d)
  PROVE  Disk' /\ admins' \in [Admins -> Admin]
<1>1. NoAdmin \in Admin /\ NoAdmin.gitdir = None
  BY BoundAssumption DEF NoAdmin, Admin
<1>2. /\ admins' \in [Admins -> Admin]
      /\ \A x \in Admins : x \in S => admins'[x] = NoAdmin
      /\ \A x \in Admins : x \notin S => admins'[x] = admins[x]
  BY <1>1 DEF IndInv, Typed
<1>3. \A x \in Admins : admins'[x] = admins[x] \/ admins'[x] = NoAdmin
  BY <1>2
<1>4. AdminsWhole'
  BY <1>1, <1>3 DEF IndInv, Disk, AdminsWhole
<1>5. CheckoutsWhole'
  BY DEF IndInv, Disk, CheckoutsWhole
<1>6. OneEach'
  BY <1>1, <1>3 DEF IndInv, Disk, OneEach
<1>7. NoOrphanCheckout'
  <2> SUFFICES ASSUME NEW d \in Dests, NEW x \in Admins, x = checkouts[d].git
               PROVE  \/ admins'[x].common /\ admins'[x].gitdir = d
                      \/ d \in astray' \/ x \in overtaken' \/ InMotion(d)'
    BY DEF NoOrphanCheckout, InMotion, Req
  <2>1. \/ admins[x].common /\ admins[x].gitdir = d
        \/ d \in astray \/ x \in overtaken \/ InMotion(d)
    BY DEF IndInv, Disk, NoOrphanCheckout, InMotion
  <2>2. x \in S => d \in astray \/ x \in overtaken' \/ InMotion(d)
    OBVIOUS
  <2> QED
    BY <1>2, <2>1, <2>2 DEF MotionGoesOn
<1>8. LiveIsComplete'
  <2> SUFFICES ASSUME NEW d \in Dests, NEW x \in Admins, x = checkouts[d].git, admins'[x].gitdir = d
               PROVE  admins'[x].index # 0 /\ admins'[x].head # None
    BY DEF LiveIsComplete
  <2>1. admins'[x] = admins[x]
    BY <1>1, <1>3, Nothing
  <2> QED
    BY <2>1 DEF IndInv, Disk, LiveIsComplete
<1> QED
  BY <1>2, <1>4, <1>5, <1>6, <1>7, <1>8 DEF Disk

\* A call drops the admin it decided on; its checkout is gone.
LEMMA AdminDropped ==
  ASSUME IndInv, NEW p \in Procs, calls[p].pc \notin {"idle", "stale", "backlink"},
         NEW d \in Dests, checkouts[d].git = None, NEW a, StillMine(a, d),
         admins' = [admins EXCEPT ![a] = NoAdmin],
         checkouts' = checkouts, astray' = astray, overtaken' = overtaken
  PROVE  Disk' /\ admins' \in [Admins -> Admin]
<1>1. a \in Admins /\ admins[a].gitdir \in {d, None} /\ admins \in [Admins -> Admin]
  BY DEF StillMine, IndInv, Typed
<1>2. admins' = [x \in Admins |-> IF x \in {a} THEN NoAdmin ELSE admins[x]]
  BY <1>1
<1>3. ASSUME NEW e \in Dests, checkouts[e].git \in {a}
      PROVE  e \in astray \/ checkouts[e].git \in overtaken' \/ InMotion(e)
  <2>1. \/ admins[a].common /\ admins[a].gitdir = e
        \/ e \in astray \/ a \in overtaken \/ InMotion(e)
    BY <1>1, <1>3 DEF IndInv, Disk, NoOrphanCheckout, InMotion
  <2>2. e # d
    BY <1>1, <1>3, Nothing
  <2>3. admins[a].gitdir # e
    BY <1>1, <2>2, Nothing
  <2> QED
    BY <1>3, <2>1, <2>3
<1> QED
  BY <1>1, <1>2, <1>3, NothingMoves, AdminsDropped

\* A recovery drops the admin once the destination is gone.
LEMMA RecoverDiscardKeeps == ASSUME IndInv, NEW p \in Procs, RecoverDiscard(p) PROVE IndInv'
<1>1. PICK c : c = calls[p]
  OBVIOUS
<1>2. /\ c.pc = "discard" /\ admins' = [admins EXCEPT ![c.seen.admin] = NoAdmin]
      /\ calls' = [calls EXCEPT ![p].pc = "cleared", ![p].seen = None]
      /\ UNCHANGED <<checkouts, tips, mainHead, locks, gta, ghosts, cnt>>
  BY <1>1 DEF RecoverDiscard, At
<1>3. /\ c \in Call /\ CallOK(p, c) /\ c.req \in Request /\ regLock = p /\ calls \in [Procs -> Call]
      /\ c.req.dest \in Dests
  BY <1>1, <1>2, Stands
<1>4. StillMine(c.seen.admin, c.req.dest) /\ checkouts[c.req.dest].git = None
  BY <1>2, <1>3 DEF CallOK, CreateOK
<1>5. Disk' /\ admins' \in [Admins -> Admin]
  BY <1>1, <1>2, <1>3, <1>4, AdminDropped DEF ghosts
<1>6. PICK n : n = [c EXCEPT !.pc = "cleared", !.seen = None]
  OBVIOUS
<1>7. n \in Call /\ n.pc = "cleared" /\ n.req = c.req
  BY <1>3, <1>6 DEF Call, Pc
<1>8. calls' = [calls EXCEPT ![p] = n]
  BY <1>1, <1>2, <1>3, <1>6
<1>9. CallOK(p, n)'
  BY <1>2, <1>3, <1>7 DEF CallOK, Locked, CreateOK, RemoveOK, MoveOK, locks
<1>10. Calls' /\ calls' \in [Procs -> Call]
  BY <1>1, <1>2, <1>7, <1>8, <1>9, OthersIdle, CallStep
<1>11. Typed'
  BY <1>2, <1>5, <1>10 DEF IndInv, Typed, locks, ghosts
<1> QED
  BY <1>5, <1>10, <1>11 DEF IndInv

\* A removal drops the admin once the checkout is gone.
LEMMA RemoveDeregisterKeeps == ASSUME IndInv, NEW p \in Procs, RemoveDeregister(p) PROVE IndInv'
<1>1. PICK c : c = calls[p]
  OBVIOUS
<1>2. /\ c.pc = "deregister" /\ Return(p)
      /\ admins' = IF checkouts[c.req.dest].dir THEN admins
                   ELSE [admins EXCEPT ![c.seen.admin] = NoAdmin]
      /\ UNCHANGED <<checkouts, tips, mainHead, gta, ghosts, cnt>>
  BY <1>1 DEF RemoveDeregister, At, Req
<1>3. CallOK(p, c) /\ c.req \in Request /\ regLock = p /\ c.req.dest \in Dests
  BY <1>1, <1>2, Stands
<1>4. CASE checkouts[c.req.dest].dir
  BY <1>1, <1>2, <1>4, GaveUp DEF disk
<1>5. CASE ~checkouts[c.req.dest].dir
  <2>1. StillMine(c.seen.admin, c.req.dest) /\ checkouts[c.req.dest].git = None
    BY <1>2, <1>3, <1>5 DEF CallOK, RemoveOK, IndInv, Disk, CheckoutsWhole
  <2>2. Disk' /\ admins' \in [Admins -> Admin]
    BY <1>1, <1>2, <1>3, <1>5, <2>1, AdminDropped DEF ghosts
  <2>3. /\ Calls' /\ calls' \in [Procs -> Call]
        /\ regLock' \in Procs \cup {Free, Stale} /\ lease' \in Procs \cup {Free, Stale}
    BY <1>1, <1>2, Returned DEF Return
  <2>4. Typed'
    BY <1>2, <2>2, <2>3 DEF IndInv, Typed, ghosts
  <2> QED
    BY <2>2, <2>3, <2>4 DEF IndInv
<1> QED
  BY <1>4, <1>5

-----------------------------------------------------------------------------
(* Steps of a move *)

\* The checkout goes to where there was none, with the .git that names its admin.
LEMMA MoveRenameKeeps == ASSUME IndInv, NEW p \in Procs, MoveRename(p) PROVE IndInv'
<1>1. PICK c : c = calls[p]
  OBVIOUS
<1>2. PICK d : d = c.req.dest
  OBVIOUS
<1>3. PICK to : to = c.req.to
  OBVIOUS
<1>4. /\ c.pc = "rename" /\ UNCHANGED <<admins, tips, mainHead, gta, astray, overtaken, cnt>>
      /\ \/ /\ checkouts[d].dir /\ Kind(to) \in {"absent", "empty"}
            /\ checkouts' = [checkouts EXCEPT ![to] = checkouts[d], ![d] = NoCheckout]
            /\ late' = IF d \in late THEN (late \ {d}) \cup {to} ELSE late
            /\ Goto(p, "stale") /\ UNCHANGED locks
         \/ Return(p) /\ UNCHANGED <<checkouts, late>>
  BY <1>1, <1>2, <1>3 DEF MoveRename, At, Req
<1>5. /\ CallOK(p, c) /\ c.req \in Request /\ regLock = p /\ d \in Dests /\ to \in Dests
  BY <1>1, <1>2, <1>3, <1>4, Stands
<1>6. CASE /\ checkouts[d].dir /\ Kind(to) \in {"absent", "empty"}
           /\ checkouts' = [checkouts EXCEPT ![to] = checkouts[d], ![d] = NoCheckout]
           /\ late' = IF d \in late THEN (late \ {d}) \cup {to} ELSE late
           /\ Goto(p, "stale") /\ UNCHANGED locks
  <2>1. checkouts \in [Dests -> Checkout] /\ late' \subseteq Dests
    BY <1>5, <1>6 DEF IndInv, Typed
  <2>2. NoCheckout.git = None /\ NoCheckout.files = {} /\ NoCheckout \in Checkout
    BY DEF NoCheckout, Checkout
  <2>3. to # d /\ checkouts[d].git \in {None, c.admin} /\ Held(c.admin, d)
    BY <1>2, <1>3, <1>4, <1>5 DEF CallOK, MoveOK
  <2>4. /\ checkouts' \in [Dests -> Checkout]
        /\ checkouts'[to] = checkouts[d] /\ checkouts'[d] = NoCheckout
        /\ \A e \in Dests : e # d /\ e # to => checkouts'[e] = checkouts[e]
    BY <1>5, <1>6, <2>1, <2>2, <2>3
  <2>5. PICK n \in Call : calls' = [calls EXCEPT ![p] = n] /\ n.pc = "stale" /\ Same(n, c)
    BY <1>1, <1>6, GoneOn DEF Pc
  <2>6. CallOK(p, n)'
    BY <1>2, <1>3, <1>4, <1>5, <1>6, <2>2, <2>3, <2>4, <2>5
       DEF Same, CallOK, Locked, CreateOK, RemoveOK, MoveOK, Held, Lost, locks
  <2>7. Calls' /\ calls' \in [Procs -> Call]
    BY <1>1, <1>4, <2>5, <2>6, OthersIdle, CallStep
  <2>8. calls'[p] = n
    BY <2>5 DEF IndInv, Typed
  <2>9. InMotion(to)'
    BY <1>3, <2>5, <2>8 DEF InMotion, Req, Same
  <2>10. AdminsWhole' /\ OneEach'
    BY <1>4 DEF IndInv, Disk, AdminsWhole, OneEach
  <2>11. CheckoutsWhole'
    BY <2>2, <2>4, <1>5 DEF IndInv, Disk, CheckoutsWhole
  <2>12. NoOrphanCheckout'
    <3> SUFFICES ASSUME NEW e \in Dests, NEW x \in Admins, x = checkouts'[e].git
                 PROVE  \/ admins'[x].common /\ admins'[x].gitdir = e
                        \/ e \in astray' \/ x \in overtaken' \/ InMotion(e)'
      BY DEF NoOrphanCheckout, InMotion, Req
    <3>1. CASE e = to
      BY <2>9, <3>1
    <3>2. CASE e = d
      BY <2>2, <2>4, <3>2, Nothing
    <3>3. CASE e # to /\ e # d
      <4>1. \/ admins[x].common /\ admins[x].gitdir = e
            \/ e \in astray \/ x \in overtaken \/ InMotion(e)
        BY <2>4, <3>3 DEF IndInv, Disk, NoOrphanCheckout, InMotion
      <4>2. MotionGoesOn
        BY <1>1, <1>4, NothingMoves
      <4> QED
        BY <1>4, <4>1, <4>2 DEF MotionGoesOn
    <3> QED
      BY <3>1, <3>2, <3>3
  <2>13. LiveIsComplete'
    <3> SUFFICES ASSUME NEW e \in Dests, NEW x \in Admins, x = checkouts'[e].git, admins'[x].gitdir = e
                 PROVE  admins'[x].index # 0 /\ admins'[x].head # None
      BY DEF LiveIsComplete
    <3>1. CASE e = to
      <4>1. x = c.admin
        BY <2>3, <2>4, <3>1, Nothing
      <4>2. admins[x].gitdir = to
        BY <1>4, <3>1
      <4>3. ~Lost(x)
        BY <1>5, <4>2, Nothing DEF Lost, NoAdmin
      <4> QED
        BY <1>4, <2>3, <4>1, <4>3 DEF Held
    <3>2. CASE e = d
      BY <2>2, <2>4, <3>2, Nothing
    <3>3. CASE e # to /\ e # d
      BY <1>4, <2>4, <3>3 DEF IndInv, Disk, LiveIsComplete
    <3> QED
      BY <3>1, <3>2, <3>3
  <2>14. Typed'
    BY <1>4, <1>6, <2>1, <2>4, <2>7 DEF IndInv, Typed, locks
  <2> QED
    BY <2>7, <2>10, <2>11, <2>12, <2>13, <2>14 DEF IndInv, Disk
<1>7. CASE Return(p) /\ UNCHANGED <<checkouts, late>>
  BY <1>1, <1>4, <1>7, GaveUp DEF disk, ghosts
<1> QED
  BY <1>4, <1>6, <1>7

\* What was registered at the target is dropped: no checkout names it.
LEMMA MoveDropStaleKeeps == ASSUME IndInv, NEW p \in Procs, MoveDropStale(p) PROVE IndInv'
<1>1. PICK c : c = calls[p]
  OBVIOUS
<1>2. PICK d : d = c.req.dest
  OBVIOUS
<1>3. PICK to : to = c.req.to
  OBVIOUS
<1>4. /\ c.pc = "stale" /\ Goto(p, "backlink")
      /\ admins' = [a \in Admins |-> IF a \in c.seen THEN NoAdmin ELSE admins[a]]
      /\ UNCHANGED <<checkouts, tips, mainHead, locks, gta, ghosts, cnt>>
  BY <1>1 DEF MoveDropStale, At
<1>5. /\ CallOK(p, c) /\ c.req \in Request /\ regLock = p /\ d \in Dests /\ to \in Dests
      /\ calls \in [Procs -> Call]
  BY <1>1, <1>2, <1>3, <1>4, Stands
<1>6. /\ c.seen \subseteq Admins /\ c.admin \notin c.seen /\ c.admin \in Admins /\ to # d
      /\ \A x \in Admins : admins[x].gitdir = to => x \in c.seen
      /\ \A x \in c.seen : admins[x].gitdir \in {to, None}
      /\ checkouts[to].git \in {None, c.admin} /\ checkouts[d].git = None /\ Held(c.admin, d)
  BY <1>2, <1>3, <1>4, <1>5 DEF CallOK, MoveOK
<1>7. PICK n \in Call : calls' = [calls EXCEPT ![p] = n] /\ n.pc = "backlink" /\ Same(n, c)
  BY <1>1, <1>4, GoneOn DEF Pc
<1>8. calls'[p] = n /\ \A q \in Procs : q # p => calls'[q] = calls[q]
  BY <1>5, <1>7
<1>9. MotionGoesOn
  <2> SUFFICES ASSUME NEW e \in Dests, NEW q \in Procs,
                      calls[q].pc \in {"stale", "backlink"}, calls[q].req.to = e
               PROVE  calls'[q].pc \in {"stale", "backlink"} /\ calls'[q].req.to = e
    BY DEF MotionGoesOn, InMotion, Req
  <2>1. q = p
    BY <1>1, <1>4, OthersIdle
  <2> QED
    BY <1>1, <1>7, <1>8, <2>1 DEF Same
<1>10. ASSUME NEW e \in Dests, checkouts[e].git \in c.seen
       PROVE  e \in astray \/ checkouts[e].git \in overtaken' \/ InMotion(e)
  <2>1. PICK x \in Admins : x = checkouts[e].git /\ x \in c.seen
    BY <1>6, <1>10
  <2>2. e # to
    BY <1>6, <2>1, Nothing
  <2>3. admins[x].gitdir # e
    BY <1>6, <2>1, <2>2, Nothing
  <2> QED
    BY <1>4, <2>1, <2>3 DEF IndInv, Disk, NoOrphanCheckout, InMotion, ghosts
<1>11. Disk' /\ admins' \in [Admins -> Admin]
  BY <1>4, <1>6, <1>9, <1>10, AdminsDropped DEF ghosts
<1>12. NoAdmin.gitdir = None
  BY DEF NoAdmin
<1>13. admins'[c.admin] = admins[c.admin] /\ \A x \in Admins : admins'[x].gitdir # to
  BY <1>4, <1>5, <1>6, <1>12, Nothing
<1>14. CallOK(p, n)'
  BY <1>2, <1>3, <1>4, <1>5, <1>6, <1>7, <1>13
     DEF Same, CallOK, Locked, CreateOK, RemoveOK, MoveOK, Held, Lost, locks, ghosts
<1>15. Calls' /\ calls' \in [Procs -> Call]
  BY <1>1, <1>4, <1>7, <1>14, OthersIdle, CallStep
<1>16. Typed'
  BY <1>4, <1>11, <1>15 DEF IndInv, Typed, locks, ghosts
<1> QED
  BY <1>11, <1>15, <1>16 DEF IndInv

\* The admin follows its checkout, unless it was pruned.
LEMMA MoveBacklinkKeeps == ASSUME IndInv, NEW p \in Procs, MoveBacklink(p) PROVE IndInv'
<1>1. PICK c : c = calls[p]
  OBVIOUS
<1>2. PICK d : d = c.req.dest
  OBVIOUS
<1>3. PICK to : to = c.req.to
  OBVIOUS
<1>4. PICK a : a = c.admin
  OBVIOUS
<1>5. /\ c.pc = "backlink" /\ UNCHANGED <<checkouts, tips, mainHead, gta, ghosts, cnt>>
      /\ \/ /\ admins[a].gitdir # None /\ admins' = [admins EXCEPT ![a].gitdir = to]
            /\ Goto(p, "relink") /\ UNCHANGED locks
         \/ admins[a].gitdir = None /\ Return(p) /\ UNCHANGED admins
  BY <1>1, <1>3, <1>4 DEF MoveBacklink, At, Req
<1>6. /\ CallOK(p, c) /\ c.req \in Request /\ regLock = p /\ d \in Dests /\ to \in Dests
      /\ calls \in [Procs -> Call]
  BY <1>1, <1>2, <1>3, <1>5, Stands
<1>7. /\ a \in Admins /\ to # d /\ \A x \in Admins : admins[x].gitdir # to
      /\ checkouts[to].git \in {None, a} /\ checkouts[d].git = None /\ Held(a, d)
  BY <1>2, <1>3, <1>4, <1>5, <1>6 DEF CallOK, MoveOK
<1>8. \A e \in Dests : InMotion(e) => e = to
  BY <1>1, <1>3, <1>5, OthersIdle DEF InMotion, Req
<1>9. checkouts \in [Dests -> Checkout] /\ admins \in [Admins -> Admin] /\ late \subseteq Dests
  BY DEF IndInv, Typed
<1>10. ASSUME NEW e \in Dests, e # to, NEW x \in Admins, x = checkouts[e].git
       PROVE  \/ admins[x].common /\ admins[x].gitdir = e /\ x # a
              \/ e \in astray \/ x \in overtaken
  <2>1. \/ admins[x].common /\ admins[x].gitdir = e
        \/ e \in astray \/ x \in overtaken
    BY <1>8, <1>10 DEF IndInv, Disk, NoOrphanCheckout, InMotion
  <2>2. e # d
    BY <1>7, <1>10, Nothing
  <2>3. admins[x].gitdir = e => x # a
    BY <1>7, <2>2, Nothing DEF Held, Lost, NoAdmin
  <2> QED
    BY <2>1, <2>3
<1>11. CASE /\ admins[a].gitdir # None /\ admins' = [admins EXCEPT ![a].gitdir = to]
            /\ Goto(p, "relink") /\ UNCHANGED locks
  <2>1. admins[a].gitdir = d /\ admins[a].head # None /\ admins[a].index # 0
    BY <1>7, <1>11 DEF Held, Lost, NoAdmin
  <2>2. admins[a].common /\ admins[a].dir
    BY <1>7, <1>11 DEF IndInv, Disk, AdminsWhole, NoAdmin
  <2>3. PICK new : new = [admins[a] EXCEPT !.gitdir = to]
    OBVIOUS
  <2>4. new \in Admin /\ new.gitdir = to /\ new.head # None /\ new.index # 0 /\ new.common /\ new.dir
    BY <1>6, <1>7, <1>9, <2>1, <2>2, <2>3 DEF Admin
  <2>5. /\ admins' \in [Admins -> Admin] /\ admins'[a] = new
        /\ \A x \in Admins : x # a => admins'[x] = admins[x]
    BY <1>7, <1>9, <1>11, <2>3, <2>4
  <2>6. AdminsWhole' /\ CheckoutsWhole'
    BY <1>5, <2>4, <2>5 DEF IndInv, Disk, AdminsWhole, CheckoutsWhole
  <2>7. OneEach'
    BY <1>7, <2>4, <2>5 DEF IndInv, Disk, OneEach
  <2>8. NoOrphanCheckout'
    <3> SUFFICES ASSUME NEW e \in Dests, NEW x \in Admins, x = checkouts[e].git
                 PROVE  \/ admins'[x].common /\ admins'[x].gitdir = e
                        \/ e \in astray' \/ x \in overtaken'
      BY <1>5 DEF NoOrphanCheckout
    <3>1. CASE e = to
      BY <1>7, <2>4, <2>5, <3>1, Nothing
    <3>2. CASE e # to
      BY <1>5, <1>10, <2>5, <3>2 DEF ghosts
    <3> QED
      BY <3>1, <3>2
  <2>9. LiveIsComplete'
    <3> SUFFICES ASSUME NEW e \in Dests, NEW x \in Admins, x = checkouts[e].git, admins'[x].gitdir = e
                 PROVE  admins'[x].index # 0 /\ admins'[x].head # None
      BY <1>5 DEF LiveIsComplete
    <3>1. CASE x = a
      BY <2>4, <2>5, <3>1
    <3>2. CASE x # a
      BY <2>5, <3>2 DEF IndInv, Disk, LiveIsComplete
    <3> QED
      BY <3>1, <3>2
  <2>10. PICK n \in Call : calls' = [calls EXCEPT ![p] = n] /\ n.pc = "relink" /\ Same(n, c)
    BY <1>1, <1>11, GoneOn DEF Pc
  <2>11. CallOK(p, n)'
    BY <1>2, <1>3, <1>4, <1>5, <1>6, <1>7, <1>11, <2>4, <2>5, <2>10
       DEF Same, CallOK, Locked, CreateOK, RemoveOK, MoveOK, Held, locks
  <2>12. Calls' /\ calls' \in [Procs -> Call]
    BY <1>1, <1>5, <2>10, <2>11, OthersIdle, CallStep
  <2>13. Typed'
    BY <1>5, <1>11, <2>5, <2>12 DEF IndInv, Typed, locks, ghosts
  <2> QED
    BY <2>6, <2>7, <2>8, <2>9, <2>12, <2>13 DEF IndInv, Disk
<1>12. CASE admins[a].gitdir = None /\ Return(p) /\ UNCHANGED admins
  <2>1. a \in overtaken
    BY <1>6, <1>7, <1>12, Nothing DEF Held, Lost
  <2>2. AdminsWhole' /\ CheckoutsWhole' /\ OneEach' /\ LiveIsComplete'
    BY <1>5, <1>12 DEF IndInv, Disk, AdminsWhole, CheckoutsWhole, OneEach, LiveIsComplete
  <2>3. NoOrphanCheckout'
    <3> SUFFICES ASSUME NEW e \in Dests, NEW x \in Admins, x = checkouts[e].git
                 PROVE  \/ admins[x].common /\ admins[x].gitdir = e
                        \/ e \in astray \/ x \in overtaken
      BY <1>5, <1>12 DEF NoOrphanCheckout, ghosts
    <3>1. CASE e = to
      BY <1>7, <2>1, <3>1, Nothing
    <3>2. CASE e # to
      BY <1>10, <3>2
    <3> QED
      BY <3>1, <3>2
  <2>4. /\ Calls' /\ calls' \in [Procs -> Call]
        /\ regLock' \in Procs \cup {Free, Stale} /\ lease' \in Procs \cup {Free, Stale}
    BY <1>1, <1>5, <1>12, Returned DEF Return
  <2>5. Typed'
    BY <1>5, <1>12, <2>4 DEF IndInv, Typed, ghosts
  <2> QED
    BY <2>2, <2>3, <2>4, <2>5 DEF IndInv, Disk
<1> QED
  BY <1>5, <1>11, <1>12

\* The checkout names the admin it named before.
LEMMA MoveRelinkKeeps == ASSUME IndInv, NEW p \in Procs, MoveRelink(p) PROVE IndInv'
<1>1. PICK c : c = calls[p]
  OBVIOUS
<1>2. PICK to : to = c.req.to
  OBVIOUS
<1>3. /\ c.pc = "relink" /\ Return(p) /\ UNCHANGED <<admins, tips, mainHead, gta, ghosts, cnt>>
      /\ checkouts' = IF checkouts[to].git = None THEN checkouts
                      ELSE [checkouts EXCEPT ![to].git = c.admin]
  BY <1>1, <1>2 DEF MoveRelink, At, Req
<1>4. CallOK(p, c) /\ to \in Dests
  BY <1>1, <1>2, <1>3, Stands
<1>5. checkouts[to].git \in {None, c.admin}
  BY <1>2, <1>3, <1>4 DEF CallOK, MoveOK
<1>6. checkouts' = checkouts
  BY <1>3, <1>4, <1>5 DEF IndInv, Typed, Checkout
<1> QED
  BY <1>1, <1>3, <1>6, GaveUp DEF disk

-----------------------------------------------------------------------------
(* Starting, dying, and what goes on beside the calls *)

\* A caller that gets worktrees.lock is alone.
LEMMA AskKeeps == ASSUME IndInv, NEW p \in Procs, Ask(p) PROVE IndInv'
<1>1. PICK r \in Requests \cup {Intent} : Start(p, r)
  BY DEF Ask
<1>2. /\ r \in Request /\ (r.op = "create" => r.branch # None)
      /\ r.op \in {"create", "remove", "move"}
  BY <1>1, RequestAssumption DEF Request
<1>3. PICK n : n = [Idle EXCEPT !.pc = r.op, !.req = r]
  OBVIOUS
<1>4. /\ regLock = Free /\ regLock' = p /\ calls' = [calls EXCEPT ![p] = n]
      /\ cnt' = IF p = Rival THEN [cnt EXCEPT !.calls = @ + 1] ELSE cnt
      /\ UNCHANGED <<disk, lease, gta, ghosts>>
  BY <1>1, <1>3 DEF Start
<1>5. n \in Call /\ n.pc = r.op /\ n.req = r
  <2>1. Idle \in Call
    BY BoundAssumption DEF Idle, Call, Pc
  <2> QED
    BY <1>2, <1>3, <2>1 DEF Call, Pc
<1>6. \A q \in Procs : calls[q].pc = "idle"
  BY <1>4, LockAssumption DEF IndInv, Calls, CallOK, Locked
<1>7. CallOK(p, n)'
  BY <1>2, <1>4, <1>5 DEF CallOK, Locked, CreateOK, RemoveOK, MoveOK
<1>8. Calls' /\ calls' \in [Procs -> Call]
  BY <1>4, <1>5, <1>6, <1>7, CallStep
<1>9. MotionGoesOn
  BY <1>6 DEF MotionGoesOn, InMotion
<1>10. Disk'
  BY <1>4, <1>9, DiskStays DEF IndInv, disk, ghosts
<1>11. cnt' \in Counters
  BY <1>4 DEF IndInv, Typed, Counters
<1>12. Typed'
  BY <1>4, <1>8, <1>11 DEF IndInv, Typed, disk, ghosts
<1> QED
  BY <1>8, <1>10, <1>12 DEF IndInv

\* A call ends where it stands: a move between its rename and its backlink
\* leaves a checkout astray.
LEMMA EndsKeeps ==
  ASSUME IndInv, NEW p \in Procs, ~At(p, "idle"), NEW w \in {Free, Stale}, Ends(p, w)
  PROVE  IndInv'
<1>1. PICK c : c = calls[p]
  OBVIOUS
<1>2. /\ c.pc # "idle" /\ cnt' = [cnt EXCEPT !.kills = @ + 1]
      /\ calls' = [calls EXCEPT ![p] = Idle] /\ Unlock(p, w)
      /\ astray' = IF c.pc \in {"stale", "backlink"} THEN astray \cup {c.req.to} ELSE astray
      /\ UNCHANGED <<disk, gta, overtaken, late>>
  BY <1>1 DEF Ends, At, Req
<1>3. c.req.to \in Dests
  BY <1>1, <1>2, Stands
<1>4. MotionGoesOn
  <2> SUFFICES ASSUME NEW e \in Dests, NEW q \in Procs,
                      calls[q].pc \in {"stale", "backlink"}, calls[q].req.to = e
               PROVE  e \in astray'
    BY DEF MotionGoesOn, InMotion, Req
  <2>1. q = p
    BY <1>1, <1>2, OthersIdle
  <2> QED
    BY <1>1, <1>2, <2>1
<1>5. Disk' /\ astray' \subseteq Dests
  BY <1>2, <1>3, <1>4, DiskStays DEF IndInv, Typed, disk
<1>6. /\ Calls' /\ calls' \in [Procs -> Call]
      /\ regLock' \in Procs \cup {Free, Stale} /\ lease' \in Procs \cup {Free, Stale}
  BY <1>1, <1>2, Returned
<1>7. cnt' \in Counters
  BY <1>2 DEF IndInv, Typed, Counters
<1>8. Typed'
  BY <1>2, <1>5, <1>6, <1>7 DEF IndInv, Typed, disk
<1> QED
  BY <1>5, <1>6, <1>8 DEF IndInv

\* So do a kill and a move that fails after its rename.
LEMMA KillKeeps ==
  ASSUME IndInv, NEW p \in Procs, Kill(p) \/ MoveIncomplete(p) PROVE IndInv'
<1>1. ~At(p, "idle") /\ \E w \in {Free, Stale} : Ends(p, w)
  BY DEF Kill, MoveIncomplete, At
<1> QED
  BY <1>1, EndsKeeps

\* The disk stays as it is, and a running call stands where it stood.
LEMMA Beside ==
  ASSUME IndInv, UNCHANGED <<admins, checkouts, calls, overtaken, astray>>
  PROVE  Disk'
<1>1. MotionGoesOn
  BY DEF MotionGoesOn, InMotion, Req
<1> QED
  BY <1>1, DiskStays DEF IndInv

\* A person removes the lock of a dead process, never that of a running one.
LEMMA RemoveStaleLocksKeeps == ASSUME IndInv, RemoveStaleLocks PROVE IndInv'
<1>1. /\ UNCHANGED <<disk, calls, gta, ghosts, cnt>>
      /\ regLock' = regLock \/ (regLock = Stale /\ regLock' = Free)
      /\ lease' = lease \/ (lease = Stale /\ lease' = Free)
  BY DEF RemoveStaleLocks
<1>2. ASSUME NEW p \in Procs
      PROVE  CallOK(p, calls[p])'
  <2>1. PICK c : c = calls[p]
    OBVIOUS
  <2>2. CallOK(p, c)
    BY <2>1 DEF IndInv, Calls
  <2>3. Locked(p, c)'
    BY <1>1, <2>2, LockAssumption DEF CallOK, Locked
  <2>4. CreateOK(p, c)' /\ RemoveOK(c)' /\ MoveOK(c)'
    BY <1>1, <2>2 DEF CallOK, CreateOK, RemoveOK, MoveOK, StillMine, Lost, Held, InUse, Listed, disk, ghosts
  <2> QED
    BY <1>1, <2>1, <2>3, <2>4, SameCall DEF CallOK
<1>3. Calls' /\ Disk'
  BY <1>1, <1>2, Beside DEF Calls, disk, ghosts
<1>4. Typed'
  BY <1>1 DEF IndInv, Typed, disk, ghosts
<1> QED
  BY <1>3, <1>4 DEF IndInv

\* A command looks at what it will do.
LEMMA GtaLookKeeps == ASSUME IndInv, SwitchLook \/ PruneLook PROVE IndInv'
<1>1. /\ UNCHANGED <<disk, locks, calls, ghosts>> /\ cnt' = [cnt EXCEPT !.gta = @ + 1]
      /\ \/ \E b \in Branches : gta' = [pc |-> "switch", branch |-> b, admin |-> None]
         \/ \E a \in Admins : gta' = [pc |-> "prune", branch |-> None, admin |-> a]
  BY DEF SwitchLook, PruneLook
<1>2. /\ gta' \in Command /\ (gta'.pc = "switch" => gta'.branch \in Branches)
      /\ (gta'.pc = "prune" => gta'.admin \in Admins)
  BY <1>1 DEF Command
<1>3. cnt' \in Counters
  BY <1>1 DEF IndInv, Typed, Counters
<1>4. ASSUME NEW p \in Procs
      PROVE  CallOK(p, calls[p])'
  <2>1. PICK c : c = calls[p]
    OBVIOUS
  <2>2. CallOK(p, c)'
    BY <1>1, <2>1, CallStays DEF IndInv, Calls, disk, locks, ghosts
  <2> QED
    BY <1>1, <2>1, <2>2, SameCall
<1>5. Calls' /\ Disk'
  BY <1>1, <1>4, Beside DEF Calls, disk, ghosts
<1>6. Typed'
  BY <1>1, <1>2, <1>3 DEF IndInv, Typed, disk, locks, ghosts
<1> QED
  BY <1>5, <1>6 DEF IndInv

\* A switch publishes HEAD only while no create holds the history lease.
LEMMA SwitchPublishKeeps == ASSUME IndInv, SwitchPublish PROVE IndInv'
<1>1. /\ gta.pc = "switch" /\ mainHead' = IF lease = Free THEN gta.branch ELSE mainHead
      /\ gta' = [pc |-> "idle", branch |-> None, admin |-> None]
      /\ UNCHANGED <<admins, checkouts, tips, locks, calls, ghosts, cnt>>
  BY DEF SwitchPublish
<1>2. ASSUME NEW p \in Procs
      PROVE  CallOK(p, calls[p])'
  <2>1. PICK c : c = calls[p]
    OBVIOUS
  <2>2. CallOK(p, c)
    BY <2>1 DEF IndInv, Calls
  <2>3. Locked(p, c)'
    BY <1>1, <2>2 DEF CallOK, Locked, locks
  <2>4. c.pc = "done" => mainHead' = mainHead
    BY <1>1, <2>2, LockAssumption DEF CallOK, Locked
  <2>5. CreateOK(p, c)' /\ RemoveOK(c)' /\ MoveOK(c)'
    BY <1>1, <2>2, <2>4
       DEF CallOK, CreateOK, RemoveOK, MoveOK, StillMine, Lost, Held, InUse, Listed, ghosts
  <2> QED
    BY <1>1, <2>1, <2>3, <2>5, SameCall DEF CallOK
<1>3. Calls' /\ Disk'
  BY <1>1, <1>2, Beside DEF Calls, ghosts
<1>4. gta' \in Command /\ gta'.pc = "idle"
  BY <1>1 DEF Command
<1>5. Typed'
  BY <1>1, <1>4 DEF IndInv, Typed, locks, ghosts
<1> QED
  BY <1>3, <1>5 DEF IndInv

\* A prune notes what it takes from under a call or a checkout.
LEMMA PruneDropKeeps == ASSUME IndInv, PruneDrop PROVE IndInv'
<1>1. PICK x : x = gta.admin
  OBVIOUS
<1>2. /\ gta.pc = "prune" /\ admins' = [admins EXCEPT ![x] = NoAdmin]
      /\ overtaken' = overtaken \cup
           {a \in {x} : (\E p \in Procs : calls[p].admin = a) \/ (\E d \in Dests : checkouts[d].git = a)}
      /\ gta' = [pc |-> "idle", branch |-> None, admin |-> None]
      /\ UNCHANGED <<checkouts, tips, mainHead, locks, calls, astray, late, cnt>>
  BY <1>1 DEF PruneDrop
<1>3. x \in Admins /\ admins \in [Admins -> Admin] /\ overtaken' \subseteq Admins
  BY <1>1, <1>2 DEF IndInv, Typed
<1>4. PICK S \in SUBSET Admins : S = {x}
  BY <1>3
<1>12. admins' = [a \in Admins |-> IF a \in S THEN NoAdmin ELSE admins[a]]
  BY <1>2, <1>3, <1>4
<1>5. MotionGoesOn
  BY <1>2 DEF MotionGoesOn, InMotion, Req
<1>6. /\ \A d \in Dests : checkouts[d].git \in S => checkouts[d].git \in overtaken'
      /\ overtaken \subseteq overtaken' /\ checkouts' = checkouts /\ astray' = astray
  BY <1>2, <1>4
<1>7. Disk' /\ admins' \in [Admins -> Admin]
  BY <1>5, <1>6, <1>12, AdminsDropped
<1>8. NoAdmin.gitdir = None /\ admins'[x] = NoAdmin /\ \A a \in Admins : a # x => admins'[a] = admins[a]
  BY <1>2, <1>3 DEF NoAdmin
<1>9. ASSUME NEW p \in Procs
      PROVE  CallOK(p, calls[p])'
  <2>1. PICK c : c = calls[p]
    OBVIOUS
  <2>2. CallOK(p, c)
    BY <2>1 DEF IndInv, Calls
  <2>3. c.admin = x => x \in overtaken'
    BY <1>2, <2>1
  <2>4. Locked(p, c)'
    BY <1>2, <2>2 DEF CallOK, Locked, locks
  <2>5. ~InUse(c.req.branch, c.req.dest) => ~InUse(c.req.branch, c.req.dest)'
    BY <1>2, <1>8 DEF InUse, Listed
  <2>6. c.admin \in Admins /\ Lost(c.admin) => Lost(c.admin)'
    BY <1>2, <1>8 DEF Lost
  <2>7. c.admin \in Admins => admins'[c.admin] = admins[c.admin] \/ Lost(c.admin)'
    BY <1>8, <2>3 DEF Lost
  <2>8. \A a \in Admins : admins'[a].gitdir \in {admins[a].gitdir, None}
    BY <1>8
  <2>9. Lost(c.admin)' => admins'[c.admin] = NoAdmin
    BY DEF Lost
  <2>10. CreateOK(p, c)'
    <3>1. c.pc \in Recovering => StillMine(c.seen.admin, c.req.dest)'
      BY <2>2, <2>8 DEF CallOK, CreateOK, StillMine
    <3>2. c.pc \in Unregistered => \A a \in Admins : admins'[a].gitdir # c.req.dest
      <4>1. CASE c.pc \in Unregistered
        <5>1. c.req.dest # None
          BY <2>1, <4>1, Stands, Nothing
        <5> QED
          BY <2>2, <2>8, <4>1, <5>1 DEF CallOK, CreateOK
      <4> QED
        BY <4>1
    <3>3. c.pc \in Unnamed => admins'[c.admin].gitdir = None
      BY <2>2, <2>8 DEF CallOK, CreateOK
    <3>4. c.pc \in {"branch", "lease", "admin"} => admins'[c.admin] = NoAdmin
      BY <2>2, <2>7, <2>9 DEF CallOK, CreateOK
    <3>5. c.pc = "gitdir" => admins'[c.admin] = NoAdmin \/ admins'[c.admin].common
      BY <2>2, <2>7, <2>9 DEF CallOK, CreateOK
    <3>6. /\ c.pc \in Named => admins'[c.admin].gitdir = c.req.dest \/ Lost(c.admin)'
          /\ c.pc \in {"files", "index", "gitfile", "content"} => Lost(c.admin)' \/ admins'[c.admin].head # None
          /\ c.pc \in {"gitfile", "content"} => Lost(c.admin)' \/ admins'[c.admin].index # 0
      BY <2>2, <2>6, <2>7 DEF CallOK, CreateOK
    <3> QED
      BY <1>2, <2>2, <2>5, <3>1, <3>2, <3>3, <3>4, <3>5, <3>6 DEF CallOK, CreateOK
  <2>11. RemoveOK(c)'
    BY <1>2, <2>2, <2>8 DEF CallOK, RemoveOK, StillMine
  <2>12. MoveOK(c)'
    <3>1. CASE c.pc \notin Moving
      BY <3>1 DEF MoveOK
    <3>2. CASE c.pc \in Moving
      <4>1. c.admin \in Admins /\ c.req.to # None
        BY <2>1, <2>2, <3>2, Stands, Nothing DEF CallOK, MoveOK
      <4>2. \A e \in Dests : Held(c.admin, e) => Held(c.admin, e)'
        BY <2>6, <2>7, <4>1 DEF Held
      <4>3. c.req.dest \in Dests /\ c.req.to \in Dests
        BY <2>1, <3>2, Stands
      <4> QED
        BY <1>2, <2>2, <2>8, <3>2, <4>1, <4>2, <4>3 DEF CallOK, MoveOK
    <3> QED
      BY <3>1, <3>2
  <2> QED
    BY <1>2, <2>1, <2>4, <2>10, <2>11, <2>12, SameCall DEF CallOK
<1>10. gta' \in Command /\ gta'.pc = "idle"
  BY <1>2 DEF Command
<1>11. Typed'
  BY <1>2, <1>3, <1>7, <1>10 DEF IndInv, Typed, locks
<1> QED
  BY <1>7, <1>9, <1>11 DEF IndInv, Calls

\* The user writes into a checkout, after a call's last look if it is late.
LEMMA UserWritesKeeps ==
  ASSUME IndInv, NEW d \in Dests, UserWrites(d), UNCHANGED <<locks, calls, gta>>
  PROVE  Calls' /\ Disk' /\ checkouts' \in [Dests -> Checkout] /\ late' \subseteq Dests
<1>1. PICK new : new = [checkouts[d] EXCEPT !.dir = TRUE, !.files = checkouts[d].files \cup {"user"}]
  OBVIOUS
<1>2. /\ checkouts' = [checkouts EXCEPT ![d].dir = TRUE, ![d].files = checkouts[d].files \cup {"user"}]
      /\ late' = IF Committed(d) THEN late \cup {d} ELSE late
      /\ UNCHANGED <<admins, tips, mainHead, astray, overtaken>>
  BY DEF UserWrites
<1>3. checkouts \in [Dests -> Checkout] /\ late' \subseteq Dests
  BY <1>2 DEF IndInv, Typed
<1>4. new \in Checkout /\ new.dir /\ new.git = checkouts[d].git
  BY <1>1, <1>3 DEF Checkout
<1>5. checkouts' = [checkouts EXCEPT ![d] = new]
  BY <1>1, <1>2, <1>3
<1>6. Fits(d, checkouts[d], new)
  BY <1>4 DEF Fits
<1>7. MotionGoesOn
  BY DEF MotionGoesOn, InMotion, Req
<1>8. Disk' /\ checkouts' \in [Dests -> Checkout]
  BY <1>2, <1>5, <1>6, <1>7, CheckoutFits
<1>9. /\ \A e \in Dests : checkouts'[e].git = checkouts[e].git
      /\ \A e \in Dests : e # d => checkouts'[e] = checkouts[e]
  BY <1>3, <1>4, <1>5
<1>10. ASSUME NEW p \in Procs
       PROVE  CallOK(p, calls[p])'
  <2>1. PICK c : c = calls[p]
    OBVIOUS
  <2>2. CallOK(p, c)
    BY <2>1 DEF IndInv, Calls
  <2>3. CASE c.pc = "idle"
    BY <2>1, <2>3, NothingAsked, SameCall
  <2>4. CASE c.pc # "idle"
    <3>1. c.req.dest \in Dests /\ c.req.to \in Dests
      BY <2>1, <2>4, Stands
    <3>2. Locked(p, c)' /\ CreateOK(p, c)' /\ MoveOK(c)'
      <4>1. Locked(p, c)'
        BY <1>2, <2>2 DEF CallOK, Locked, locks
      <4>2. CreateOK(p, c)'
        BY <1>2, <1>9, <2>2, <3>1 DEF CallOK, CreateOK, StillMine, Lost, InUse, Listed
      <4>3. MoveOK(c)'
        BY <1>2, <1>9, <2>2, <3>1 DEF CallOK, MoveOK, Held, Lost
      <4> QED
        BY <4>1, <4>2, <4>3
    <3>3. c.pc = "delete" /\ c.req.dest = d => d \in late'
      BY <1>2, <2>1 DEF Committed, Req
    <3>4. RemoveOK(c)'
      BY <1>2, <1>9, <2>2, <3>1, <3>3 DEF CallOK, RemoveOK, StillMine
    <3> QED
      BY <2>1, <3>2, <3>4, SameCall DEF CallOK
  <2> QED
    BY <2>3, <2>4
<1> QED
  BY <1>3, <1>8, <1>10 DEF Calls

\* The user deletes a checkout.
LEMMA UserDeletesKeeps ==
  ASSUME IndInv, NEW d \in Dests, UserDeletes(d), UNCHANGED <<locks, calls, gta>>
  PROVE  Calls' /\ Disk' /\ checkouts' \in [Dests -> Checkout] /\ late' \subseteq Dests
<1>1. /\ checkouts' = [checkouts EXCEPT ![d] = NoCheckout] /\ late' = late \ {d}
      /\ UNCHANGED <<admins, tips, mainHead, astray, overtaken>>
  BY DEF UserDeletes
<1>2. checkouts \in [Dests -> Checkout] /\ late' \subseteq Dests
  BY <1>1 DEF IndInv, Typed
<1>3. NoCheckout.git = None /\ NoCheckout.files = {} /\ NoCheckout \in Checkout
  BY DEF NoCheckout, Checkout
<1>4. Fits(d, checkouts[d], NoCheckout)
  BY <1>3 DEF Fits
<1>5. MotionGoesOn
  BY DEF MotionGoesOn, InMotion, Req
<1>6. Disk' /\ checkouts' \in [Dests -> Checkout]
  BY <1>1, <1>4, <1>5, CheckoutFits
<1>7. /\ checkouts'[d].git = None /\ checkouts'[d].files = {}
      /\ \A e \in Dests : e # d => checkouts'[e] = checkouts[e]
  BY <1>1, <1>2, <1>3
<1>8. \A e \in Dests : checkouts'[e].git \in {checkouts[e].git, None}
  BY <1>7
<1>9. ASSUME NEW p \in Procs
      PROVE  CallOK(p, calls[p])'
  <2>1. PICK c : c = calls[p]
    OBVIOUS
  <2>2. CallOK(p, c)
    BY <2>1 DEF IndInv, Calls
  <2>3. CASE c.pc = "idle"
    BY <2>1, <2>3, NothingAsked, SameCall
  <2>4. CASE c.pc # "idle"
    <3>1. c.req.dest \in Dests /\ c.req.to \in Dests
      BY <2>1, <2>4, Stands
    <3>2. Locked(p, c)' /\ CreateOK(p, c)' /\ MoveOK(c)'
      <4>1. Locked(p, c)'
        BY <1>1, <2>2 DEF CallOK, Locked, locks
      <4>2. CreateOK(p, c)'
        BY <1>1, <1>8, <2>2, <3>1 DEF CallOK, CreateOK, StillMine, Lost, InUse, Listed
      <4>3. MoveOK(c)'
        BY <1>1, <1>8, <2>2, <3>1 DEF CallOK, MoveOK, Held, Lost
      <4> QED
        BY <4>1, <4>2, <4>3
    <3>3. RemoveOK(c)'
      BY <1>1, <1>7, <2>2, <3>1 DEF CallOK, RemoveOK, StillMine
    <3> QED
      BY <2>1, <3>2, <3>3, SameCall DEF CallOK
  <2> QED
    BY <2>3, <2>4
<1> QED
  BY <1>2, <1>6, <1>9 DEF Calls

\* What the user does keeps it all.
LEMMA UserKeeps == ASSUME IndInv, User PROVE IndInv'
<1>1. UNCHANGED <<locks, calls, gta>> /\ cnt' = [cnt EXCEPT !.edits = @ + 1]
  BY DEF User
<1>2. cnt' \in Counters
  BY <1>1 DEF IndInv, Typed, Counters
<1>3. CASE \E d \in Dests : UserWrites(d) \/ UserDeletes(d)
  <2>1. Calls' /\ Disk' /\ checkouts' \in [Dests -> Checkout] /\ late' \subseteq Dests
    BY <1>1, <1>3, UserWritesKeeps, UserDeletesKeeps
  <2>2. UNCHANGED <<admins, tips, mainHead, astray, overtaken>>
    BY <1>3 DEF UserWrites, UserDeletes
  <2>3. Typed'
    BY <1>1, <1>2, <2>1, <2>2 DEF IndInv, Typed, locks
  <2> QED
    BY <2>1, <2>3 DEF IndInv
<1>4. CASE \E b \in Branches : MoveBranch(b)
  <2>1. UNCHANGED <<admins, checkouts, mainHead, ghosts>> /\ tips' \in [Branches -> 0..MaxTip]
    BY <1>4 DEF MoveBranch, IndInv, Typed
  <2>2. ASSUME NEW p \in Procs
        PROVE  CallOK(p, calls[p])'
    <3>1. PICK c : c = calls[p]
      OBVIOUS
    <3>2. CallOK(p, c)'
      BY <1>1, <2>1, <3>1, CallStays DEF IndInv, Calls, locks, ghosts
    <3> QED
      BY <1>1, <3>1, <3>2, SameCall
  <2>3. Calls' /\ Disk'
    BY <1>1, <2>1, <2>2, Beside DEF Calls, ghosts
  <2>4. Typed'
    BY <1>1, <1>2, <2>1 DEF IndInv, Typed, locks, ghosts
  <2> QED
    BY <2>3, <2>4 DEF IndInv
<1> QED
  BY <1>3, <1>4 DEF User

-----------------------------------------------------------------------------
(* The invariant *)

\* Every step of a call keeps it.
LEMMA StepKeeps == ASSUME IndInv, NEW p \in Procs, Step(p) PROVE IndInv'
<1>1. CASE Create(p)
  BY <1>1, CreateLookKeeps, RecoverRecheckKeeps, RecoverSweepKeeps, RecoverDiscardKeeps,
     RecoverClearedKeeps, CreateResolveKeeps, CreateBranchKeeps, CreateLeaseKeeps, CreateAdminKeeps,
     CreateDestKeeps, CreateCommondirKeeps, CreateGitdirKeeps, CreateHeadKeeps, CreateFilesKeeps,
     CreateIndexKeeps, CreateGitfileKeeps, CreateContentKeeps, CreateVerifyKeeps, CreateDoneKeeps
     DEF Create
<1>2. CASE Remove(p)
  BY <1>2, RemoveLookKeeps, RemoveRecheckKeeps, RemoveEntryKeeps, RemoveDirectoryKeeps,
     RemoveDeregisterKeeps DEF Remove
<1>3. CASE Move(p)
  BY <1>3, MoveLookKeeps, MoveRecheckKeeps, MoveRenameKeeps, MoveDropStaleKeeps, MoveBacklinkKeeps,
     MoveRelinkKeeps DEF Move
<1> QED
  BY <1>1, <1>2, <1>3 DEF Step

\* So does every step of the system.
LEMMA NextKeeps == IndInv /\ [Next]_vars => IndInv'
<1> SUFFICES ASSUME IndInv, [Next]_vars PROVE IndInv'
  OBVIOUS
<1>1. CASE \E p \in Procs : Ask(p) \/ Step(p) \/ Kill(p) \/ MoveIncomplete(p)
  BY <1>1, AskKeeps, StepKeeps, KillKeeps
<1>2. CASE Gta
  BY <1>2, GtaLookKeeps, SwitchPublishKeeps, PruneDropKeeps DEF Gta
<1>3. CASE User
  BY <1>3, UserKeeps
<1>4. CASE RemoveStaleLocks
  BY <1>4, RemoveStaleLocksKeeps
<1>5. CASE UNCHANGED vars
  <2>1. ASSUME NEW p \in Procs
        PROVE  CallOK(p, calls[p])'
    <3>1. PICK c : c = calls[p]
      OBVIOUS
    <3>2. CallOK(p, c)'
      BY <1>5, <3>1, CallStays DEF IndInv, Calls, vars
    <3> QED
      BY <1>5, <3>1, <3>2, SameCall DEF vars
  <2>2. Calls' /\ Disk'
    BY <1>5, <2>1, Beside DEF Calls, vars
  <2>3. Typed'
    BY <1>5 DEF IndInv, Typed, vars
  <2> QED
    BY <2>2, <2>3 DEF IndInv
<1> QED
  BY <1>1, <1>2, <1>3, <1>4, <1>5 DEF Next

\* It holds in a repository without linked worktrees.
LEMMA InitHolds == Init => IndInv
<1> SUFFICES ASSUME Init PROVE IndInv
  OBVIOUS
<1>1. /\ NoAdmin \in Admin /\ NoAdmin.gitdir = None
      /\ NoCheckout \in Checkout /\ NoCheckout.git = None /\ NoCheckout.files = {}
      /\ Idle \in Call /\ Idle.pc = "idle"
  BY BoundAssumption DEF NoAdmin, Admin, NoCheckout, Checkout, Idle, Call, Pc
<1>2. Typed
  BY <1>1, TipAssumption DEF Init, Typed, Command, Counters
<1>3. AdminsWhole /\ CheckoutsWhole /\ OneEach
  BY <1>1 DEF Init, AdminsWhole, CheckoutsWhole, OneEach
<1>4. NoOrphanCheckout /\ LiveIsComplete
  BY <1>1, Nothing DEF Init, NoOrphanCheckout, LiveIsComplete
<1>5. Calls
  BY <1>1 DEF Init, Calls, CallOK, Locked, CreateOK, RemoveOK, MoveOK
<1> QED
  BY <1>2, <1>3, <1>4, <1>5 DEF IndInv, Disk

\* What the running call relies on holds whatever runs beside it and wherever
\* earlier calls died.
THEOREM Invariant == Spec => []IndInv
BY InitHolds, NextKeeps, PTL DEF Spec

\* It implies the type invariant the run checks.
LEMMA IndInvIsTyped == IndInv => TypeOK
<1> SUFFICES ASSUME IndInv PROVE TypeOK
  OBVIOUS
<1>1. Typed /\ AdminsWhole
  BY DEF IndInv, Disk
<1>2. \A p \in Procs : calls[p].pc \in Pc /\ calls[p].admin \in Admins \cup {None}
  BY <1>1 DEF Typed, Call
<1>3. /\ gta.pc \in {"idle", "switch", "prune"} /\ gta.branch \in Branches \cup {None}
      /\ gta.admin \in Admins \cup {None}
  BY <1>1 DEF Typed, Command
<1> QED
  BY <1>1, <1>2, <1>3 DEF Typed, AdminsWhole, TypeOK

\* Every variable of the linked worktrees keeps its type, and an admin without
\* its directory has no files.
THEOREM TypeCorrect == Spec => []TypeOK
BY Invariant, IndInvIsTyped, PTL

\* No destination is ever registered twice, however creates, removals, moves and
\* prunes interleave and wherever they die.
THEOREM DestinationsAreUnique == Spec => []RegistrationUnique
<1>1. IndInv => RegistrationUnique
  BY RegisteredIs DEF IndInv, Disk, RegistrationUnique
<1> QED
  BY Invariant, <1>1, PTL

\* No checkout loses the admin its .git names, but for a move that runs or died
\* and for what a prune took from under a call.
THEOREM CheckoutsAreOwned == Spec => []NoOrphanCheckout
<1>1. IndInv => NoOrphanCheckout
  BY DEF IndInv, Disk
<1> QED
  BY Invariant, <1>1, PTL

\* A checkout whose .git names the admin that names it is complete.
THEOREM CheckoutsAreComplete == Spec => []LiveIsComplete
<1>1. IndInv => LiveIsComplete
  BY DEF IndInv, Disk
<1> QED
  BY Invariant, <1>1, PTL

\* A create that returns success has its branch to itself at that instant.
THEOREM LostRacesAreReported == Spec => LostRaceIsReported
<1>1. IndInv /\ [Next]_vars => \A p \in Procs : CreateDone(p) => ~InUse(Req(p).branch, Req(p).dest)
  BY DEF IndInv, Calls, CallOK, CreateOK, CreateDone, At, Req
<1> QED
  BY Invariant, <1>1, PTL DEF Spec, LostRaceIsReported

-----------------------------------------------------------------------------
(* What only the user has *)

\* A create takes nothing of the user's but what its recovery sweeps.
LEMMA CreateSpares ==
  ASSUME IndInv, NEW p \in Procs, Create(p), ~RecoverSweep(p), NEW d \in Dests,
         "user" \in checkouts[d].files
  PROVE  "user" \in checkouts'[d].files
<1>1. checkouts \in [Dests -> Checkout]
  BY DEF IndInv, Typed
<1>2. CASE CreateDest(p)
  BY <1>1, <1>2 DEF CreateDest, Checkout
<1>3. CASE CreateFiles(p)
  BY <1>1, <1>3 DEF CreateFiles, Checkout
<1>4. CASE CreateGitfile(p)
  BY <1>1, <1>4 DEF CreateGitfile, Checkout
<1>5. CASE CreateContent(p)
  BY <1>1, <1>5 DEF CreateContent, Checkout
<1>6. CASE ~(CreateDest(p) \/ CreateFiles(p) \/ CreateGitfile(p) \/ CreateContent(p))
  <2>1. checkouts' = checkouts
    BY <1>6 DEF Create, CreateLook, RecoverRecheck, RecoverDiscard, RecoverCleared, CreateResolve,
         CreateBranch, CreateLease, CreateAdmin, CreateCommondir, CreateGitdir, CreateHead,
         CreateIndex, AdminFile, CreateVerify, CreateDone, disk
  <2> QED
    BY <2>1
<1> QED
  BY <1>2, <1>3, <1>4, <1>5, <1>6

\* A removal takes what was written after its last look.
LEMMA RemoveTakesLate ==
  ASSUME IndInv, NEW p \in Procs, Remove(p), NEW d \in Dests,
         "user" \in checkouts[d].files, "user" \notin checkouts'[d].files
  PROVE  d \in late
<1>1. checkouts \in [Dests -> Checkout]
  BY DEF IndInv, Typed
<1>2. PICK c : c = calls[p]
  OBVIOUS
<1>3. CASE RemoveEntry(p)
  <2>1. c.pc = "delete" /\ c.seen.what = "full" /\ c.req = Req(p)
    BY <1>2, <1>3 DEF RemoveEntry, At, Req
  <2>2. CallOK(p, c) /\ c.req.dest \in Dests
    BY <1>2, <2>1, Stands
  <2>3. d = c.req.dest
    BY <1>1, <1>3, <2>1, <2>2 DEF RemoveEntry, Checkout
  <2> QED
    BY <2>1, <2>2, <2>3 DEF CallOK, RemoveOK
<1>4. CASE RemoveDirectory(p)
  <2>1. c.pc = "delete" /\ c.req = Req(p)
    BY <1>2, <1>4 DEF RemoveDirectory, At, Req
  <2>2. c.req.dest \in Dests
    BY <1>2, <2>1, Stands
  <2>3. d = c.req.dest /\ Kind(d) = "empty"
    BY <1>1, <1>4, <2>1, <2>2 DEF RemoveDirectory
  <2>4. checkouts[d].files = {}
    BY <2>3, KindIs DEF IndInv, Disk
  <2> QED
    BY <2>4
<1>5. CASE RemoveLook(p) \/ RemoveRecheck(p) \/ RemoveDeregister(p)
  BY <1>5 DEF RemoveLook, RemoveRecheck, RemoveDeregister, disk
<1> QED
  BY <1>3, <1>4, <1>5 DEF Remove

\* A move takes it along.
LEMMA MoveTakesAlong ==
  ASSUME IndInv, NEW p \in Procs, Move(p), NEW d \in Dests,
         "user" \in checkouts[d].files, "user" \notin checkouts'[d].files
  PROVE  \E e \in Dests \ {d} : checkouts'[e] = checkouts[d]
<1>1. checkouts \in [Dests -> Checkout]
  BY DEF IndInv, Typed
<1>2. PICK c : c = calls[p]
  OBVIOUS
<1>3. CASE MoveRename(p)
  <2>1. c.pc = "rename" /\ c.req = Req(p)
    BY <1>2, <1>3 DEF MoveRename, At, Req
  <2>2. CallOK(p, c) /\ c.req.dest \in Dests /\ c.req.to \in Dests
    BY <1>2, <2>1, Stands
  <2>3. c.req.to # c.req.dest
    BY <2>1, <2>2 DEF CallOK, MoveOK
  <2>4. /\ Kind(c.req.to) \in {"absent", "empty"}
        /\ checkouts' = [checkouts EXCEPT ![c.req.to] = checkouts[c.req.dest], ![c.req.dest] = NoCheckout]
    BY <1>3, <2>1 DEF MoveRename
  <2>5. /\ checkouts'[c.req.to] = checkouts[c.req.dest]
        /\ \A e \in Dests : e # c.req.to /\ e # c.req.dest => checkouts'[e] = checkouts[e]
    BY <1>1, <2>2, <2>3, <2>4
  <2>6. checkouts[c.req.to].files = {}
    BY <2>2, <2>4, KindIs DEF IndInv, Disk
  <2>7. d = c.req.dest
    BY <2>5, <2>6
  <2> QED
    BY <2>2, <2>3, <2>5, <2>7
<1>4. CASE MoveRelink(p)
  BY <1>1, <1>4 DEF MoveRelink, Checkout
<1>5. CASE MoveLook(p) \/ MoveRecheck(p) \/ MoveDropStale(p) \/ MoveBacklink(p)
  BY <1>5 DEF MoveLook, MoveRecheck, MoveDropStale, MoveBacklink, disk
<1> QED
  BY <1>3, <1>4, <1>5 DEF Move

\* What only the user has goes when the user deletes it, when a recovery sweeps
\* the partial checkout it was told to, or when it was written after the last
\* look; a move takes it along.
THEOREM ContentIsKept == Spec => UserContentKept
<1> DEFINE Excused(d) == \/ d \in late \/ cnt'.edits # cnt.edits
                         \/ \E p \in Procs : At(p, "sweep") /\ Req(p).dest = d
                         \/ \E e \in Dests \ {d} : checkouts'[e] = checkouts[d]
<1>1. ASSUME IndInv, Next, NEW d \in Dests,
             "user" \in checkouts[d].files, "user" \notin checkouts'[d].files
      PROVE  Excused(d)
  <2>1. CASE \E p \in Procs : Step(p)
    <3>1. PICK p \in Procs : Create(p) \/ Remove(p) \/ Move(p)
      BY <2>1 DEF Step
    <3>2. CASE RecoverSweep(p)
      <4>1. PICK c : c = calls[p]
        OBVIOUS
      <4>2. c.pc = "sweep" /\ c.req = Req(p)
        BY <3>2, <4>1 DEF RecoverSweep, At, Req
      <4>3. c.req.dest \in Dests /\ checkouts \in [Dests -> Checkout]
        BY <1>1, <4>1, <4>2, Stands DEF IndInv, Typed
      <4>4. d = Req(p).dest
        BY <1>1, <3>2, <4>2, <4>3 DEF RecoverSweep
      <4> QED
        BY <3>2, <4>4 DEF RecoverSweep
    <3>3. CASE Create(p) /\ ~RecoverSweep(p)
      BY <1>1, <3>3, CreateSpares
    <3>4. CASE Remove(p)
      BY <1>1, <3>4, RemoveTakesLate
    <3>5. CASE Move(p)
      BY <1>1, <3>5, MoveTakesAlong
    <3> QED
      BY <3>1, <3>2, <3>3, <3>4, <3>5
  <2>2. CASE User
    <3>1. cnt \in Counters /\ cnt' = [cnt EXCEPT !.edits = @ + 1]
      BY <1>1, <2>2 DEF User, IndInv, Typed
    <3>2. cnt'.edits # cnt.edits
      BY <3>1 DEF Counters
    <3> QED
      BY <3>2
  <2>3. CASE (\E p \in Procs : Ask(p) \/ Kill(p) \/ MoveIncomplete(p)) \/ Gta \/ RemoveStaleLocks
    <3>1. checkouts' = checkouts
      BY <2>3 DEF Ask, Start, Kill, MoveIncomplete, Ends, Gta, SwitchLook, SwitchPublish, PruneLook, PruneDrop,
           RemoveStaleLocks, disk
    <3> QED
      BY <1>1, <3>1
  <2> QED
    BY <1>1, <2>1, <2>2, <2>3 DEF Next
<1>2. IndInv /\ [Next]_vars =>
        [\A d \in Dests : "user" \in checkouts[d].files /\ "user" \notin checkouts'[d].files =>
           Excused(d)]_vars
  BY <1>1
<1> QED
  BY Invariant, <1>2, PTL DEF Spec, UserContentKept

=============================================================================
