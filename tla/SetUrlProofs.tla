---------------------------- MODULE SetUrlProofs ----------------------------
(***************************************************************************)
(* Safety of the set-url transaction for every number of processes,         *)
(* worktrees, edits, crashes and cancellations, and its refinement of the   *)
(* roll-forward contract.  The inductive invariant says where each file of  *)
(* the pending transaction stands: still as planned, staged in its private  *)
(* file, under <file>.lock, exchanged with the target, or published.        *)
(***************************************************************************)
EXTENDS SetUrlContract, TLAPS

-----------------------------------------------------------------------------
(* Where a file stands *)

\* Stock Git holds <file>.lock over the target as it is.
GitHolds(f) ==
  /\ lock[f] # None
  /\ lock[f].id \in git
  /\ lock[f].id \notin target[f].edits
  /\ lock[f].edits = target[f].edits \cup {lock[f].id}

\* No transaction uses <file>.lock.
Quiet(f) == lock[f] = None \/ GitHolds(f)

Untouched(w, j, c) ==
  LET f == File(w, c)
  IN target[f] = j.before[c] \/ target[f].id \in git

\* The private images a transaction has of a file.
Images(j, f) == {i \in private[f] : i.id = j.tx}

Staged(w, j, c) ==
  LET f == File(w, c)
  IN Images(j, f) = {After(j, c)} /\ Untouched(w, j, c) /\ Quiet(f)
Locked(w, j, c) ==
  LET f == File(w, c)
  IN Images(j, f) = {} /\ target[f] = j.before[c] /\ lock[f] = After(j, c)
Displaced(w, j, c) ==
  LET f == File(w, c)
  IN Images(j, f) = {} /\ target[f] = After(j, c) /\ lock[f] = j.before[c]
Out(w, j, c) ==
  LET f == File(w, c)
  IN /\ Images(j, f) = {}
     /\ target[f] = After(j, c) \/ target[f].id \in git
     /\ Quiet(f)

\* A participant the transaction leaves alone, or has not made ready.
Planning(w, j, c) == Untouched(w, j, c) /\ Quiet(File(w, c))
Publishing(w, j, c) ==
  Staged(w, j, c) \/ Locked(w, j, c) \/ Displaced(w, j, c) \/ Out(w, j, c)

FileOK(w, j, c) ==
  IF c \in j.changed /\ j.phase >= Ready THEN Publishing(w, j, c) ELSE Planning(w, j, c)

-----------------------------------------------------------------------------
(* The inductive invariant *)

\* A transaction is numbered after the images it starts from, and no edit of
\* stock Git has its number.
IntentOK(w, j) ==
  /\ j \in Intent
  /\ j.tx # 0 /\ j.tx <= fresh /\ j.tx \notin git
  /\ DOMAIN j.before = Participants[w]
  /\ j.changed \subseteq Participants[w] /\ j.changed # {}
  /\ \A c \in Participants[w] :
       /\ j.before[c].id < j.tx
       /\ j.before[c].id \in git => j.before[c].id \in j.before[c].edits

\* The phase names participants that are published.
PhaseOK(w, j) ==
  \A i \in 1 .. 3 :
    j.phase >= Applied(i) /\ Order[i] \in j.changed => Out(w, j, Order[i])

JournalOK(w) ==
  LET j == journal[w]
  IN /\ w \in control
     /\ IntentOK(w, j)
     /\ HasModule(w) => claim[w] = j.tx
     /\ \A c \in Participants[w] : FileOK(w, j, c)
     /\ PhaseOK(w, j)

\* One process at a time runs set-url, and one worktree has a journal directory.
Exclusive ==
  /\ \A p \in Procs : op[p].pc # "idle" <=> holder = p
  /\ \A v, w \in control : v = w

\* Identities are handed out once.
Numbered ==
  \A f \in Files :
    /\ target[f].id <= fresh /\ target[f].edits \subseteq 0 .. fresh
    /\ target[f].id \in git => target[f].id \in target[f].edits
    /\ lock[f] # None => lock[f].id <= fresh
    /\ \A i \in private[f] : i.id <= fresh

Journals ==
  /\ git \subseteq 1 .. fresh
  /\ \A w \in Worktrees : journal[w] # None => JournalOK(w)
  /\ \A f \in Files :
       \/ Quiet(f)
       \/ \E w \in Worktrees : journal[w] # None /\ \E c \in journal[w].changed : f = File(w, c)

Drafting == {"claim", "control", "intent"}
Staging == {"reserve", "record", "prepare", "ready"}
Applying == {"apply", "swap", "unlock", "advance"}
Journalled == Staging \cup Applying \cup {"validate", "discard", "retire"}

\* Before the journal exists: it will be the first one, about unchanged files.
DraftOK(o) ==
  LET w == o.wt
      j == o.seen
  IN /\ IntentOK(w, j) /\ j.phase = Planned
     /\ o.pc \in {"control", "intent"} /\ HasModule(w) => claim[w] = j.tx
     /\ \A c \in Participants[w] :
          Planning(w, j, c) /\ Images(j, File(w, c)) = {}

\* The private images of each participant while the k-th is worked on.
StageOK(o) ==
  LET j == o.seen
      k == o.k
  IN /\ j.phase = Planned /\ ~o.again
     /\ o.pc = "ready" => k = 1
     /\ \A i \in 1 .. 3 : Order[i] \in j.changed =>
          Images(j, File(o.wt, Order[i])) =
            IF o.pc = "ready" \/ (o.pc = "prepare" /\ i < k) THEN {After(j, Order[i])}
            ELSE IF o.pc = "prepare" \/ i < k \/ (o.pc = "record" /\ i = k)
                   THEN {Blank(j.tx)}
            ELSE {}

ApplyOK(o) ==
  LET w == o.wt
      j == o.seen
      c == Order[o.k]
  IN /\ j.phase >= o.k
     /\ o.again => j.phase = Applied(3)
     /\ o.pc = "swap" => c \in j.changed /\ Locked(w, j, c)
     /\ o.pc = "unlock" => c \in j.changed /\ (Displaced(w, j, c) \/ Out(w, j, c))
     /\ o.pc = "advance" /\ c \in j.changed => Out(w, j, c)

\* What a process in state o relies on.
StateOK(o) ==
  LET w == o.wt
      j == o.seen
      pc == o.pc
  IN /\ pc # "idle" => w \in Worktrees
     /\ pc = "check" => journal[w] = None /\ w \notin control
     /\ pc \in {"plan", "claim", "control", "unclaim"} => control = {}
     /\ pc = "intent" => control = {w}
     /\ pc = "plan" => o.url \in Urls
     /\ pc \in {"check", "plan"} \cup Drafting => o.k = 1 /\ ~o.again
     /\ pc \in Drafting => DraftOK(o)
     /\ pc = "intent" => journal[w] = None
     /\ pc \in Journalled => journal[w] = j /\ j # None
     /\ pc \in Staging => StageOK(o)
     /\ pc \in Applying => ApplyOK(o)
     /\ pc = "validate" => j.phase = Applied(3)
     /\ pc = "discard" => j.phase = Planned
     /\ pc = "retire" => j.phase \in {Planned, Applied(3)}

Processes == \A p \in Procs : StateOK(op[p])

IndInv == TypeOK /\ Exclusive /\ Numbered /\ Journals /\ Processes /\ NoEditLost

-----------------------------------------------------------------------------
(* Facts about the operators *)

\* The participants are taken in an order that names each once.
LEMMA Ordered ==
  /\ \A i \in 1 .. 3 : Order[i] \in Parts
  /\ \A i, k \in 1 .. 3 : Order[i] = Order[k] => i = k
  /\ \A c \in Parts : \E i \in 1 .. 3 : c = Order[i]
BY DEF Order, Parts

\* Two participants of a worktree are two files.
LEMMA FileOfPart ==
  /\ \A w \in Worktrees : \A c \in Participants[w] : c \in Parts /\ File(w, c) \in Files
  /\ \A w, c, d : File(w, c) = File(w, d) => c = d
BY ParticipantsAssumption DEF File, Files

\* What a process is doing, as a set.
ProcState ==
  [pc : Pcs \cup {"idle"}, wt : Worktrees \cup {None}, url : Urls \cup {None}, k : 1 .. 3,
   again : BOOLEAN, recovering : BOOLEAN, detached : BOOLEAN, seen : Intent \cup {None}]

\* The operations of the processes have the type of process states.
LEMMA OpType == TypeOK => op \in [Procs -> ProcState]
BY DEF TypeOK, ProcState

\* An idle process is a process state.
LEMMA IdleType == Idle \in ProcState
BY DEF Idle, ProcState

\* After a command returns or goes on, what the processes do is well typed.
LEMMA LeaveType ==
  ASSUME TypeOK, NEW p \in Procs, Leave(p)
  PROVE  op' \in [Procs -> ProcState] /\ holder' = None
BY OpType, IdleType DEF Leave

\* A process that goes on, with well-typed fields, keeps the types.
LEMMA GotoType ==
  ASSUME TypeOK, NEW p \in Procs, NEW pc \in Pcs, NEW o \in ProcState, Goto(p, pc, o)
  PROVE  op' \in [Procs -> ProcState] /\ holder' = holder
BY OpType DEF Goto, ProcState

\* So does one whose file operation returns, to its caller or to nobody.
LEMMA WorkedType ==
  ASSUME TypeOK, NEW p \in Procs, NEW pc \in Pcs, NEW o \in ProcState, Worked(p, pc, o)
  PROVE  op' \in [Procs -> ProcState] /\ holder' \in {holder, None}
BY LeaveType, GotoType DEF Worked

\* So does one that goes on with the next participant.
LEMMA EachPartType ==
  ASSUME TypeOK, NEW p \in Procs, NEW same \in Pcs, NEW pc \in Pcs, EachPart(p, same, pc)
  PROVE  op' \in [Procs -> ProcState] /\ holder' \in {holder, None}
<1>0. op[p] \in ProcState
  BY OpType
<1>1. op[p].k < 3 => [op[p] EXCEPT !.k = @ + 1] \in ProcState
  BY <1>0 DEF ProcState
<1>2. [op[p] EXCEPT !.k = 1] \in ProcState
  BY <1>0 DEF ProcState
<1> QED BY <1>1, <1>2, WorkedType DEF EachPart

\* The after-image of a participant is an image.
LEMMA AfterType ==
  ASSUME NEW j \in Intent, NEW c \in DOMAIN j.before
  PROVE  After(j, c) \in Image
<1>1. j.before[c] \in Image
  BY DEF Intent
<1> QED BY <1>1 DEF After, Image, Intent

\* A reserved private file is an image.
LEMMA BlankType ==
  ASSUME NEW j \in Intent
  PROVE  Blank(j.tx) \in Image
BY DEF Blank, Image, Intent

-----------------------------------------------------------------------------
(* Types *)

\* What a process has planned or read is an intent of its worktree.
LEMMA SeenIntent ==
  ASSUME Journals, Processes, NEW p \in Procs, op[p].pc \in Drafting \cup Journalled
  PROVE  op[p].wt \in Worktrees /\ IntentOK(op[p].wt, op[p].seen)
<1>1. StateOK(op[p]) /\ op[p].wt \in Worktrees
  BY DEF Processes, StateOK, Drafting, Journalled, Staging, Applying
<1>2. CASE op[p].pc \in Drafting
  BY <1>1, <1>2 DEF StateOK, DraftOK
<1>3. CASE op[p].pc \in Journalled
  <2>1. journal[op[p].wt] = op[p].seen /\ op[p].seen # None
    BY <1>1, <1>3 DEF StateOK
  <2>2. JournalOK(op[p].wt)
    BY <1>1, <2>1 DEF Journals
  <2> QED BY <1>1, <2>1, <2>2 DEF JournalOK
<1> QED BY <1>2, <1>3

\* The images a process at work handles.
LEMMA PartTypes ==
  ASSUME TypeOK, Journals, Processes, NEW p \in Procs, op[p].pc \in Journalled
  PROVE  /\ op[p].seen \in Intent
         /\ Part(p) \in Parts
         /\ Joins(p) => Here(p) \in Files /\ Before(p) \in Image /\ Published(p) \in Image
         /\ Changes(p) => Joins(p)
<1>1. op[p].wt \in Worktrees /\ IntentOK(op[p].wt, op[p].seen)
  BY SeenIntent
<1>2. op[p].seen \in Intent /\ DOMAIN op[p].seen.before = Participants[op[p].wt]
  BY <1>1 DEF IntentOK
<1>3. op[p].k \in 1 .. 3
  BY OpType DEF ProcState
<1>4. Part(p) \in Parts
  BY <1>3, Ordered DEF Part
<1>5. ASSUME Joins(p) PROVE Here(p) \in Files /\ Before(p) \in Image /\ Published(p) \in Image
  <2>1. Part(p) \in DOMAIN op[p].seen.before
    BY <1>2, <1>5 DEF Joins
  <2>2. Here(p) \in Files
    BY <1>1, <1>5, FileOfPart DEF Joins, Here
  <2>3. Before(p) \in Image
    BY <1>2, <2>1 DEF Before, Intent
  <2>4. Published(p) \in Image
    BY <1>2, <2>1, AfterType DEF Published
  <2> QED BY <2>2, <2>3, <2>4
<1> QED BY <1>2, <1>4, <1>5 DEF Changes

\* What a process plans is an intent.
LEMMA PlanType ==
  ASSUME TypeOK, NEW w \in Worktrees, NEW u \in Urls, fresh # MaxImages
  PROVE  LET before == [c \in Participants[w] |-> target[File(w, c)]]
         IN /\ fresh + 1 \in Ids
            /\ [tx |-> fresh + 1, phase |-> Planned, url |-> u, before |-> before,
                changed |-> {c \in Participants[w] : before[c].url # u},
                reserved |-> {}] \in Intent
<1> DEFINE before == [c \in Participants[w] |-> target[File(w, c)]]
           changed == {c \in Participants[w] : before[c].url # u}
<1>1. fresh + 1 \in Ids
  BY BoundsAssumption DEF TypeOK, Ids
<1>2. before \in [Participants[w] -> Image]
  BY FileOfPart DEF TypeOK
<1>3. before \in UNION {[cs -> Image] : cs \in SUBSET Parts}
  BY <1>2, FileOfPart
<1>4. changed \in SUBSET Parts
  BY FileOfPart
<1> HIDE DEF before, changed
<1>5. [tx |-> fresh + 1, phase |-> Planned, url |-> u, before |-> before,
       changed |-> changed, reserved |-> {}] \in Intent
  BY <1>1, <1>3, <1>4 DEF Intent, Planned, Applied
<1> QED BY <1>1, <1>5 DEF before, changed

\* Every variable keeps its type: entering.
LEMMA TypeEnter ==
  ASSUME IndInv, NEW p \in Procs,
         \/ \E w \in Worktrees, u \in Urls \cup {None} : Start(p, w, u)
         \/ Check(p) \/ ClearOrphan(p) \/ Plan(p)
  PROVE  TypeOK'
<1>0. op \in [Procs -> ProcState]
  BY OpType DEF IndInv
<1>1. ASSUME NEW w \in Worktrees, NEW u \in Urls \cup {None}, Start(p, w, u)
      PROVE TypeOK'
  <2>1. CASE journal[w] # None
    <3>1. journal[w] \in Intent
      BY <2>1 DEF IndInv, TypeOK
    <3>2. PICK pc \in Pcs : op' = [op EXCEPT ![p] =
            [Idle EXCEPT !.pc = pc, !.wt = w, !.url = u, !.recovering = TRUE,
                         !.seen = journal[w]]]
      BY <1>1, <2>1 DEF Start, Pcs
    <3> DEFINE o == [Idle EXCEPT !.pc = pc, !.wt = w, !.url = u, !.recovering = TRUE,
                                 !.seen = journal[w]]
    <3>3. o \in ProcState
      BY <3>1, IdleType DEF ProcState
    <3> HIDE DEF o
    <3>4. op' \in [Procs -> ProcState]
      BY <1>0, <3>2, <3>3 DEF o
    <3> QED BY <1>1, <2>1, <3>4 DEF Start, ProcState, IndInv, TypeOK, count
  <2>2. CASE journal[w] = None
    <3>1. op' = [op EXCEPT ![p] = [Idle EXCEPT !.pc = "check", !.wt = w, !.url = u]]
      BY <1>1, <2>2 DEF Start
    <3>2. [Idle EXCEPT !.pc = "check", !.wt = w, !.url = u] \in ProcState
      BY IdleType DEF ProcState, Pcs
    <3>3. op' \in [Procs -> ProcState]
      BY <1>0, <3>1, <3>2
    <3> QED BY <1>1, <2>2, <3>3 DEF Start, ProcState, IndInv, TypeOK, count
  <2> QED BY <2>1, <2>2
<1>2. CASE Check(p)
  <2>1. op' \in [Procs -> ProcState] /\ holder' \in {holder, None}
    BY <1>0, <1>2, LeaveType, GotoType DEF Check, IndInv, Pcs
  <2> QED BY <1>2, <2>1 DEF Check, ProcState, IndInv, TypeOK, disk, count
<1>3. CASE ClearOrphan(p)
  BY <1>3 DEF ClearOrphan, IndInv, TypeOK, count
<1>4. CASE Plan(p)
  <2> DEFINE w == op[p].wt
             before == [c \in Participants[w] |-> target[File(w, c)]]
             changed == {c \in Participants[w] : before[c].url # op[p].url}
             j == [tx |-> fresh + 1, phase |-> Planned, url |-> op[p].url,
                   before |-> before, changed |-> changed, reserved |-> {}]
  <2>1. w \in Worktrees /\ op[p].url \in Urls
    BY <1>4 DEF Plan, IndInv, Processes, StateOK
  <2>4. CASE changed = {} \/ fresh = MaxImages
    <3>1. Leave(p) /\ fresh' = fresh
      BY <1>4, <2>4 DEF Plan
    <3> QED BY <1>4, <3>1, LeaveType DEF Plan, IndInv, TypeOK, ProcState, disk
  <2>5. CASE ~(changed = {} \/ fresh = MaxImages)
    <3>1. fresh' = fresh + 1
      BY <1>4, <2>5 DEF Plan
    <3>2. fresh + 1 \in Ids /\ j \in Intent
      BY <2>1, <2>5, PlanType DEF IndInv
    <3> HIDE DEF j
    <3>3. [op[p] EXCEPT !.seen = j, !.recovering = FALSE] \in ProcState
      BY <1>0, <3>2 DEF ProcState
    <3>4. Goto(p, IF HasModule(w) THEN "claim" ELSE "control",
               [op[p] EXCEPT !.seen = j, !.recovering = FALSE])
      BY <1>4, <2>5 DEF Plan, j
    <3>5. op' \in [Procs -> ProcState] /\ holder' = holder
      BY <3>3, <3>4, GotoType DEF IndInv, Pcs
    <3> QED BY <1>4, <3>1, <3>2, <3>5 DEF Plan, IndInv, TypeOK, ProcState, disk
  <2> QED BY <2>4, <2>5
<1> QED BY <1>1, <1>2, <1>3, <1>4

\* Every variable keeps its type: up to the journal's first phase.
LEMMA TypeDraft ==
  ASSUME IndInv, NEW p \in Procs,
         \/ PublishClaim(p) \/ MakeControl(p) \/ PublishIntent(p)
         \/ Reserve(p) \/ Record(p) \/ Prepare(p) \/ MarkReady(p)
  PROVE  TypeOK'
<1>0. op[p] \in ProcState /\ TypeOK
  BY OpType DEF IndInv
<1>1. op[p].pc \in Drafting \cup Journalled
  BY DEF PublishClaim, MakeControl, PublishIntent, Reserve, Record, Prepare, MarkReady,
         Drafting, Journalled, Staging
<1>2. op[p].wt \in Worktrees /\ op[p].seen \in Intent /\ op[p].seen.tx \in Ids
  BY <1>1, SeenIntent DEF IndInv, IntentOK, Intent
<1>3. op[p].pc \in Journalled =>
        /\ Part(p) \in Parts
        /\ Changes(p) => Here(p) \in Files /\ Published(p) \in Image
  BY PartTypes DEF IndInv
<1>4. Blank(op[p].seen.tx) \in Image
  BY <1>2, BlankType
<1>5. CASE PublishClaim(p)
  <2>1. op' \in [Procs -> ProcState] /\ holder' = holder
    BY <1>0, <1>5, GotoType DEF PublishClaim, Pcs
  <2> QED BY <1>0, <1>2, <1>5, <2>1 DEF PublishClaim, TypeOK, ProcState, count
<1>6. CASE MakeControl(p)
  <2>1. op' \in [Procs -> ProcState] /\ holder' = holder
    BY <1>0, <1>6, GotoType DEF MakeControl, Pcs
  <2> QED BY <1>0, <1>2, <1>6, <2>1 DEF MakeControl, TypeOK, ProcState, count
<1>7. CASE PublishIntent(p)
  <2>1. op' \in [Procs -> ProcState] /\ holder' = holder
    BY <1>0, <1>7, GotoType DEF PublishIntent, Pcs
  <2> QED BY <1>0, <1>2, <1>7, <2>1 DEF PublishIntent, TypeOK, ProcState, count
<1>8. CASE Reserve(p)
  <2>1. op' \in [Procs -> ProcState] /\ holder' \in {holder, None}
    BY <1>0, <1>8, WorkedType DEF Reserve, Pcs
  <2>2. op[p].pc \in Journalled
    BY <1>8 DEF Reserve, Journalled, Staging
  <2>3. private' \in [Files -> SUBSET Image]
    BY <1>0, <1>3, <1>4, <1>8, <2>2 DEF Reserve, TypeOK
  <2> QED BY <1>0, <1>8, <2>1, <2>3 DEF Reserve, TypeOK, ProcState, count
<1>9. CASE Record(p)
  <2> DEFINE j == [op[p].seen EXCEPT
                     !.reserved = IF Joins(p) THEN @ \cup {Part(p)} ELSE @]
             last == op[p].k = 3
  <2>1. op[p].pc \in Journalled
    BY <1>9 DEF Record, Journalled, Staging
  <2>2. j \in Intent
    BY <1>2, <1>3, <2>1 DEF Intent
  <2>3. Goto(p, IF last THEN "prepare" ELSE "reserve",
             [op[p] EXCEPT !.seen = j, !.k = IF last THEN 1 ELSE @ + 1])
        /\ journal' = [journal EXCEPT ![op[p].wt] = j]
    BY <1>9 DEF Record
  <2> HIDE DEF j
  <2>4. [op[p] EXCEPT !.seen = j, !.k = IF last THEN 1 ELSE @ + 1] \in ProcState
    <3>1. op[p].k \in 1 .. 3
      BY <1>0 DEF ProcState
    <3>2. (IF last THEN 1 ELSE op[p].k + 1) \in 1 .. 3
      BY <3>1
    <3> QED BY <1>0, <2>2, <3>2 DEF ProcState
  <2>5. op' \in [Procs -> ProcState] /\ holder' = holder
    BY <1>0, <2>3, <2>4, GotoType DEF Pcs
  <2>6. journal' \in [Worktrees -> Intent \cup {None}]
    BY <1>0, <1>2, <2>2, <2>3 DEF TypeOK
  <2> QED BY <1>0, <1>9, <2>5, <2>6 DEF Record, TypeOK, ProcState, count
<1>10. CASE Prepare(p)
  <2>1. op' \in [Procs -> ProcState] /\ holder' \in {holder, None}
    BY <1>0, <1>10, EachPartType DEF Prepare, Pcs
  <2>2. op[p].pc \in Journalled
    BY <1>10 DEF Prepare, Journalled, Staging
  <2>3. private' \in [Files -> SUBSET Image]
    BY <1>0, <1>3, <1>4, <1>10, <2>2 DEF Prepare, TypeOK
  <2> QED BY <1>0, <1>10, <2>1, <2>3 DEF Prepare, TypeOK, ProcState, count
<1>11. CASE MarkReady(p)
  <2> DEFINE j == [op[p].seen EXCEPT !.phase = Ready]
  <2>1. j \in Intent
    BY <1>2 DEF Intent, Ready, Planned, Applied
  <2>2. Goto(p, "apply", [op[p] EXCEPT !.seen = j])
        /\ journal' = [journal EXCEPT ![op[p].wt] = j]
    BY <1>11 DEF MarkReady
  <2> HIDE DEF j
  <2>3. [op[p] EXCEPT !.seen = j] \in ProcState
    BY <1>0, <2>1 DEF ProcState
  <2>4. op' \in [Procs -> ProcState] /\ holder' = holder
    BY <1>0, <2>2, <2>3, GotoType DEF Pcs
  <2>5. journal' \in [Worktrees -> Intent \cup {None}]
    BY <1>0, <1>2, <2>1, <2>2 DEF TypeOK
  <2> QED BY <1>0, <1>11, <2>4, <2>5 DEF MarkReady, TypeOK, ProcState, count
<1> QED BY <1>5, <1>6, <1>7, <1>8, <1>9, <1>10, <1>11

\* Every variable keeps its type: from Ready to the end.
LEMMA TypeApply ==
  ASSUME IndInv, NEW p \in Procs,
         \/ Apply(p) \/ Swap(p) \/ Unlock(p) \/ Advance(p) \/ Validate(p)
         \/ Discard(p) \/ Retire(p) \/ Unclaim(p) \/ Fail(p)
  PROVE  TypeOK'
<1>0. op[p] \in ProcState /\ TypeOK
  BY OpType DEF IndInv
<1>1. op[p].pc \in Journalled =>
        /\ op[p].wt \in Worktrees /\ op[p].seen \in Intent
        /\ Part(p) \in Parts
        /\ Changes(p) => Here(p) \in Files /\ Published(p) \in Image
  BY PartTypes, SeenIntent DEF IndInv
<1>2. ASSUME op[p].pc = "swap" PROVE Changes(p)
  <2>1. op[p].pc \in Applying /\ op[p].pc \in Journalled
    BY <1>2 DEF Applying, Journalled
  <2>2. Part(p) \in op[p].seen.changed
    BY <1>2, <2>1 DEF IndInv, Processes, StateOK, ApplyOK, Part
  <2>3. op[p].seen.changed \subseteq Participants[op[p].wt]
    BY <2>1, SeenIntent DEF IndInv, IntentOK
  <2> QED BY <2>2, <2>3 DEF Changes, Joins
<1>3. CASE Apply(p)
  <2>1. op' \in [Procs -> ProcState] /\ holder' \in {holder, None}
    BY <1>0, <1>3, WorkedType, GotoType DEF Apply, Pcs
  <2>2. op[p].pc \in Journalled
    BY <1>3 DEF Apply, Journalled, Applying
  <2>3. private' \in [Files -> SUBSET Image] /\ lock' \in [Files -> Image \cup {None}]
    BY <1>0, <1>1, <1>3, <2>2 DEF Apply, TypeOK
  <2> QED BY <1>0, <1>3, <2>1, <2>3 DEF Apply, TypeOK, ProcState, count
<1>4. CASE Swap(p)
  <2>1. op' \in [Procs -> ProcState] /\ holder' = holder
    BY <1>0, <1>4, GotoType DEF Swap, Pcs
  <2>2. op[p].pc \in Journalled /\ Changes(p)
    BY <1>2, <1>4 DEF Swap, Journalled, Applying
  <2>3. target' \in [Files -> Image] /\ lock' \in [Files -> Image \cup {None}]
    BY <1>0, <1>1, <1>4, <2>2 DEF Swap, TypeOK
  <2> QED BY <1>0, <1>4, <2>1, <2>3 DEF Swap, TypeOK, ProcState, count
<1>5. CASE Unlock(p)
  <2>1. op' \in [Procs -> ProcState] /\ holder' \in {holder, None}
    BY <1>0, <1>5, WorkedType DEF Unlock, Pcs
  <2>2. lock' \in [Files -> Image \cup {None}]
    BY <1>0, <1>5 DEF Unlock, TypeOK
  <2> QED BY <1>0, <1>5, <2>1, <2>2 DEF Unlock, TypeOK, ProcState, count
<1>6. CASE Advance(p)
  <2> DEFINE k == op[p].k
             j == IF op[p].seen.phase < Applied(k)
                    THEN [op[p].seen EXCEPT !.phase = Applied(k)] ELSE op[p].seen
             o == [op[p] EXCEPT !.seen = j]
  <2>1. op[p].pc \in Journalled
    BY <1>6 DEF Advance, Journalled, Applying
  <2>2. k \in 1 .. 3
    BY <1>0 DEF ProcState
  <2>3. j \in Intent
    BY <1>1, <2>1, <2>2 DEF Intent, Applied, Planned
  <2>4. /\ journal' = [journal EXCEPT ![op[p].wt] = j]
        /\ \/ k < 3 /\ Goto(p, "apply", [o EXCEPT !.k = k + 1])
           \/ k = 3 /\ Goto(p, "apply", [o EXCEPT !.k = 1, !.again = TRUE])
           \/ k = 3 /\ Goto(p, "validate", [o EXCEPT !.k = 1])
    BY <1>6, <2>2 DEF Advance
  <2> HIDE DEF j
  <2>5. o \in ProcState
    BY <1>0, <2>3 DEF ProcState
  <2> HIDE DEF o
  <2>6. /\ k < 3 => [o EXCEPT !.k = k + 1] \in ProcState
        /\ [o EXCEPT !.k = 1, !.again = TRUE] \in ProcState
        /\ [o EXCEPT !.k = 1] \in ProcState
    <3>1. k < 3 => k + 1 \in 1 .. 3
      BY <2>2
    <3>2. ASSUME NEW n \in 1 .. 3 PROVE [o EXCEPT !.k = n] \in ProcState
      BY <2>5 DEF ProcState
    <3>3. [o EXCEPT !.k = 1, !.again = TRUE] \in ProcState
      <4>1. \A q \in ProcState : [q EXCEPT !.again = TRUE] \in ProcState
        BY DEF ProcState
      <4>2. [[o EXCEPT !.k = 1] EXCEPT !.again = TRUE] \in ProcState
        <5>1. [o EXCEPT !.k = 1] \in ProcState
          BY <3>2
        <5> QED BY <4>1, <5>1
      <4> QED BY <4>2
    <3> QED BY <3>1, <3>2, <3>3
  <2>7. op' \in [Procs -> ProcState] /\ holder' = holder
    BY <1>0, <2>4, <2>6, GotoType DEF Pcs
  <2>8. journal' \in [Worktrees -> Intent \cup {None}]
    BY <1>0, <1>1, <2>1, <2>3, <2>4 DEF TypeOK
  <2> QED BY <1>0, <1>6, <2>7, <2>8 DEF Advance, TypeOK, ProcState, count
<1>7. CASE Validate(p)
  <2>1. op' \in [Procs -> ProcState] /\ holder' = holder
    BY <1>0, <1>7, GotoType DEF Validate, Pcs
  <2> QED BY <1>0, <1>7, <2>1 DEF Validate, TypeOK, ProcState, disk, count
<1>8. CASE Discard(p)
  <2>1. op' \in [Procs -> ProcState] /\ holder' \in {holder, None}
    BY <1>0, <1>8, EachPartType DEF Discard, Pcs
  <2>2. op[p].pc \in Journalled
    BY <1>8 DEF Discard, Journalled
  <2>3. private' \in [Files -> SUBSET Image]
    BY <1>0, <1>1, <1>8, <2>2 DEF Discard, TypeOK, Recorded
  <2> QED BY <1>0, <1>8, <2>1, <2>3 DEF Discard, TypeOK, ProcState, count
<1>9. CASE Retire(p)
  <2>1. op' \in [Procs -> ProcState] /\ holder' = holder
    BY <1>0, <1>9, GotoType DEF Retire, Pcs
  <2> QED BY <1>0, <1>9, <2>1 DEF Retire, TypeOK, ProcState, count
<1>10. CASE Unclaim(p)
  <2>1. [Idle EXCEPT !.wt = op[p].wt, !.url = op[p].url] \in ProcState
    BY <1>0, IdleType DEF ProcState
  <2>2. op' \in [Procs -> ProcState] /\ holder' \in {holder, None}
    BY <1>0, <1>10, <2>1, GotoType, LeaveType DEF Unclaim, Pcs
  <2> QED BY <1>0, <1>10, <2>2 DEF Unclaim, TypeOK, ProcState, count
<1>11. CASE Fail(p)
  <2>1. op' \in [Procs -> ProcState] /\ holder' = None
    BY <1>0, <1>11, LeaveType DEF Fail
  <2> QED BY <1>0, <1>11, <2>1 DEF Fail, TypeOK, ProcState, disk, count
<1> QED BY <1>3, <1>4, <1>5, <1>6, <1>7, <1>8, <1>9, <1>10, <1>11

\* Every variable keeps its type: interruptions and the other writers.
LEMMA TypeOthers ==
  ASSUME IndInv,
         \/ \E p \in Procs : Crash(p) \/ Cancel(p)
         \/ \E f \in Files : Edit(f) \/ GitLock(f) \/ GitCommit(f)
  PROVE  TypeOK'
<1>0. TypeOK
  BY DEF IndInv
<1>1. ASSUME NEW p \in Procs, Crash(p) PROVE TypeOK'
  <2>1. op' \in [Procs -> ProcState] /\ holder' = None
    BY <1>0, <1>1, LeaveType DEF Crash
  <2>2. crashes' \in 0 .. MaxCrashes
    BY <1>0, <1>1, BoundsAssumption DEF Crash, TypeOK
  <2> QED BY <1>0, <1>1, <2>1, <2>2 DEF Crash, TypeOK, ProcState, disk
<1>2. ASSUME NEW p \in Procs, Cancel(p) PROVE TypeOK'
  <2>1. op' \in [Procs -> ProcState]
    BY <1>0, <1>2, OpType DEF Cancel, ProcState
  <2>2. crashes' \in 0 .. MaxCrashes
    BY <1>0, <1>2, BoundsAssumption DEF Cancel, TypeOK
  <2> QED BY <1>0, <1>2, <2>1, <2>2 DEF Cancel, TypeOK, ProcState, disk
<1>3. ASSUME fresh < MaxImages PROVE fresh + 1 \in Ids
  BY <1>0, <1>3, BoundsAssumption DEF TypeOK, Ids
<1>4. ASSUME NEW f \in Files, Edit(f) PROVE TypeOK'
  <2>1. fresh + 1 \in Ids
    BY <1>3, <1>4 DEF Edit
  <2>2. target' \in [Files -> Image] /\ done' \in [Files -> SUBSET Ids]
    <3>1. target[f] \in Image /\ done[f] \subseteq Ids
      BY <1>0 DEF TypeOK
    <3>2. [target[f] EXCEPT !.id = fresh + 1, !.edits = @ \cup {fresh + 1}] \in Image
      BY <2>1, <3>1 DEF Image
    <3>3. target' \in [Files -> Image]
      BY <1>0, <1>4, <3>2 DEF Edit, TypeOK
    <3> QED BY <1>0, <1>4, <2>1, <3>1, <3>3 DEF Edit, TypeOK
  <2> QED BY <1>0, <1>4, <2>1, <2>2 DEF Edit, TypeOK
<1>5. ASSUME NEW f \in Files, GitLock(f) PROVE TypeOK'
  <2>1. fresh + 1 \in Ids
    BY <1>3, <1>5 DEF GitLock
  <2>2. lock' \in [Files -> Image \cup {None}]
    <3>1. target[f] \in Image
      BY <1>0 DEF TypeOK
    <3>2. [target[f] EXCEPT !.id = fresh + 1, !.edits = @ \cup {fresh + 1}] \in Image
      BY <2>1, <3>1 DEF Image
    <3> QED BY <1>0, <1>5, <3>2 DEF GitLock, TypeOK
  <2> QED BY <1>0, <1>5, <2>1, <2>2 DEF GitLock, TypeOK
<1>6. ASSUME NEW f \in Files, GitCommit(f) PROVE TypeOK'
  <2>1. lock[f] \in Image /\ lock[f].id \in Ids
    BY <1>0, <1>6 DEF GitCommit, TypeOK, Image
  <2> QED BY <1>0, <1>6, <2>1 DEF GitCommit, TypeOK
<1> QED BY <1>1, <1>2, <1>4, <1>5, <1>6

\* Every step keeps the types.
LEMMA TypeStep == IndInv /\ [Next]_vars => TypeOK'
<1> SUFFICES ASSUME IndInv, [Next]_vars PROVE TypeOK'
  OBVIOUS
<1>1. ASSUME NEW p \in Procs, Step(p) PROVE TypeOK'
  BY <1>1, TypeEnter, TypeDraft, TypeApply DEF Step
<1>2. ASSUME NEW p \in Procs, NEW w \in Worktrees, NEW u \in Urls \cup {None}, Start(p, w, u)
      PROVE  TypeOK'
  BY <1>2, TypeEnter
<1>3. CASE UNCHANGED vars
  BY <1>3 DEF vars, disk, count, IndInv, TypeOK
<1> QED BY <1>1, <1>2, <1>3, TypeOthers DEF Next

-----------------------------------------------------------------------------
(* Frames: what a step leaves alone *)

\* A file no step touches stands where it stood, whatever stock Git does
\* elsewhere.
LEMMA Frame ==
  ASSUME NEW w, NEW j, NEW c,
         target'[File(w, c)] = target[File(w, c)],
         lock'[File(w, c)] = lock[File(w, c)],
         private'[File(w, c)] = private[File(w, c)],
         git \subseteq git'
  PROVE  /\ Planning(w, j, c) => Planning(w, j, c)'
         /\ Staged(w, j, c) => Staged(w, j, c)'
         /\ Locked(w, j, c) => Locked(w, j, c)'
         /\ Displaced(w, j, c) => Displaced(w, j, c)'
         /\ Out(w, j, c) => Out(w, j, c)'
         /\ Images(j, File(w, c))' = Images(j, File(w, c))
<1>1. Quiet(File(w, c)) => Quiet(File(w, c))'
  BY DEF Quiet, GitHolds
<1>2. Untouched(w, j, c) => Untouched(w, j, c)'
  BY DEF Untouched
<1>3. Images(j, File(w, c))' = Images(j, File(w, c))
  BY DEF Images
<1>4. Planning(w, j, c) => Planning(w, j, c)'
  BY <1>1, <1>2 DEF Planning
<1>5. Staged(w, j, c) => Staged(w, j, c)'
  BY <1>1, <1>2, <1>3 DEF Staged
<1>6. Locked(w, j, c) => Locked(w, j, c)'
  BY <1>3 DEF Locked
<1>7. Displaced(w, j, c) => Displaced(w, j, c)'
  BY <1>3 DEF Displaced
<1>8. Out(w, j, c) => Out(w, j, c)'
  BY <1>1, <1>3 DEF Out
<1> QED BY <1>3, <1>4, <1>5, <1>6, <1>7, <1>8

\* An intent stays well formed while identities are only added.
LEMMA IntentFrame ==
  ASSUME NEW w \in Worktrees, NEW j, IntentOK(w, j), TypeOK, TypeOK', fresh <= fresh',
         \A i \in git' : i \in git \/ i > fresh
  PROVE  IntentOK(w, j)'
<1>1. fresh \in Nat /\ fresh' \in Nat
  BY DEF TypeOK, Ids
<1>2. j.tx \in Nat
  BY DEF IntentOK, Intent, Ids
<1>3. \A c \in Participants[w] : j.before[c].id \in Nat
  BY DEF IntentOK, Intent, Image, Ids
<1> QED BY <1>1, <1>2, <1>3 DEF IntentOK

\* The journal of a worktree after a step, from its parts.
LEMMA JournalNext ==
  ASSUME NEW w \in Worktrees, NEW j, journal'[w] = j, w \in control', IntentOK(w, j)',
         HasModule(w) => claim'[w] = j.tx,
         \A c \in Participants[w] : FileOK(w, j, c)', PhaseOK(w, j)'
  PROVE  JournalOK(w)'
<1>1. IntentOK(w, journal[w])'
  BY DEF IntentOK
<1>2. \A c \in Participants[w] : FileOK(w, journal[w], c)'
  BY DEF FileOK, Planning, Publishing, Untouched, Staged, Locked, Displaced, Out, Images
<1>3. PhaseOK(w, journal[w])'
  BY DEF PhaseOK, Out, Images
<1> QED BY <1>1, <1>2, <1>3 DEF JournalOK, HasModule

\* A process that has left relies on nothing.
LEMMA IdleOK == ASSUME NEW o, o.pc = "idle" PROVE StateOK(o)'
BY DEF StateOK, Drafting, Journalled, Staging, Applying

\* While a process runs, it holds the locks and every other one is idle.
LEMMA Alone ==
  ASSUME Exclusive, NEW p \in Procs, op[p].pc # "idle"
  PROVE  holder = p /\ \A q \in Procs \ {p} : op[q].pc = "idle"
BY DEF Exclusive

\* The invariant of the processes, and the lock, after a process has moved.
LEMMA Moved ==
  ASSUME TypeOK, Exclusive, NEW p \in Procs, NEW n,
         \A q \in Procs \ {p} : op[q].pc = "idle",
         op' = [op EXCEPT ![p] = n], holder' = p, n.pc # "idle", StateOK(n)'
  PROVE  Processes' /\ \A q \in Procs : op'[q].pc # "idle" <=> holder' = q
<1>1. op'[p] = n /\ \A q \in Procs \ {p} : op'[q] = op[q]
  BY DEF TypeOK
<1>2. \A q \in Procs : op'[q].pc # "idle" <=> holder' = q
  BY <1>1
<1>3. ASSUME NEW q \in Procs PROVE StateOK(op[q])'
  <2>1. PICK o : o = op'[q]
    OBVIOUS
  <2>2. StateOK(o)'
    BY <1>1, <2>1, IdleOK
  <2> QED BY <2>1, <2>2 DEF StateOK, DraftOK, StageOK, ApplyOK, IntentOK, Planning,
            Untouched, Locked, Displaced, Out, Images, Quiet
<1> QED BY <1>2, <1>3 DEF Processes

\* A process that left is idle and nobody holds the lease.
LEMMA Left ==
  ASSUME TypeOK, Exclusive, NEW p \in Procs, Leave(p), op[p].pc # "idle"
  PROVE  Processes' /\ \A q \in Procs : op'[q].pc # "idle" <=> holder' = q
<1>1. \A q \in Procs : op'[q].pc = "idle"
  BY Alone DEF Leave, TypeOK, Idle
<1>2. \A q \in Procs : op'[q].pc # "idle" <=> holder' = q
  BY <1>1, NoneAssumption DEF Leave
<1>3. Processes'
  BY <1>1 DEF Processes, StateOK, Drafting, Journalled, Staging, Applying
<1> QED BY <1>2, <1>3

\* With no journal directory there is no journal and no file of one.
LEMMA NoJournal ==
  ASSUME Journals, control = {}
  PROVE  (\A w \in Worktrees : journal[w] = None) /\ \A f \in Files : Quiet(f)
<1>1. \A w \in Worktrees : journal[w] = None
  BY DEF Journals, JournalOK
<1> QED BY <1>1 DEF Journals

\* A process with a journal has the only one.
LEMMA OneJournal ==
  ASSUME IndInv, NEW p \in Procs, op[p].pc \in Journalled
  PROVE  /\ op[p].wt \in Worktrees /\ control = {op[p].wt}
         /\ journal[op[p].wt] = op[p].seen /\ op[p].seen # None
         /\ JournalOK(op[p].wt) /\ IntentOK(op[p].wt, op[p].seen)
         /\ \A v \in Worktrees \ {op[p].wt} : journal[v] = None
<1>1. op[p].wt \in Worktrees /\ IntentOK(op[p].wt, op[p].seen)
  BY SeenIntent DEF IndInv
<1>2. journal[op[p].wt] = op[p].seen /\ op[p].seen # None
  BY DEF IndInv, Processes, StateOK
<1>3. JournalOK(op[p].wt) /\ op[p].wt \in control
  BY <1>1, <1>2 DEF IndInv, Journals, JournalOK
<1>4. \A v \in Worktrees \ {op[p].wt} : journal[v] = None
  BY <1>1, <1>3 DEF IndInv, Journals, JournalOK, Exclusive
<1>5. control = {op[p].wt}
  BY <1>3 DEF IndInv, Exclusive
<1> QED BY <1>1, <1>2, <1>3, <1>4, <1>5

\* What does not change when no file, image or edit does.
LEMMA SameFiles ==
  ASSUME IndInv, TypeOK', UNCHANGED <<target, lock, private, git, done>>, fresh <= fresh'
  PROVE  /\ Numbered' /\ NoEditLost' /\ git' \subseteq 1 .. fresh'
         /\ \A f : Quiet(f) <=> Quiet(f)'
<1>1. fresh \in Nat /\ fresh' \in Nat
  BY DEF IndInv, TypeOK, Ids
<1>2. git' \subseteq 1 .. fresh'
  BY <1>1 DEF IndInv, Journals
<1>3. NoEditLost'
  BY DEF IndInv, NoEditLost
<1>4. \A f : Quiet(f) <=> Quiet(f)'
  BY DEF Quiet, GitHolds
<1>5. ASSUME NEW f \in Files
      PROVE  /\ target[f].id <= fresh' /\ target[f].edits \subseteq 0 .. fresh'
             /\ target[f].id \in git => target[f].id \in target[f].edits
             /\ lock[f] # None => lock[f].id <= fresh'
             /\ \A i \in private[f] : i.id <= fresh'
  <2>1. target[f].id \in Nat /\ (lock[f] # None => lock[f].id \in Nat)
        /\ \A i \in private[f] : i.id \in Nat
    BY DEF IndInv, TypeOK, Image, Ids
  <2> QED BY <1>1, <2>1 DEF IndInv, Numbered
<1>6. Numbered'
  BY <1>5 DEF Numbered
<1> QED BY <1>2, <1>3, <1>4, <1>6

\* Without a journal, what the invariant says of files stays true when no file changes.
LEMMA StillNoJournal ==
  ASSUME IndInv, TypeOK', control = {}, UNCHANGED <<target, lock, private, git, done, journal>>,
         fresh <= fresh'
  PROVE  Journals' /\ Numbered' /\ NoEditLost'
BY NoJournal, SameFiles DEF IndInv, Journals

\* Every file of every worktree stands where it stood.
LEMMA SameStands ==
  ASSUME UNCHANGED <<target, lock, private, git>>
  PROVE  \A w, j, c :
           /\ FileOK(w, j, c) => FileOK(w, j, c)'
           /\ PhaseOK(w, j) => PhaseOK(w, j)'
           /\ Planning(w, j, c) => Planning(w, j, c)'
           /\ Locked(w, j, c) => Locked(w, j, c)'
           /\ Displaced(w, j, c) => Displaced(w, j, c)'
           /\ Out(w, j, c) => Out(w, j, c)'
           /\ Images(j, File(w, c))' = Images(j, File(w, c))
BY Frame DEF FileOK, PhaseOK, Publishing

\* A journal that stays, over files that stay.
LEMMA SameJournal ==
  ASSUME IndInv, TypeOK', NEW w \in Worktrees, journal[w] # None,
         UNCHANGED <<target, lock, private, fresh, git>>, journal'[w] = journal[w],
         w \in control', claim'[w] = claim[w]
  PROVE  JournalOK(w)'
<1>1. PICK j : j = journal[w]
  OBVIOUS
<1>2. JournalOK(w)
  BY DEF IndInv, Journals
<1>3. IntentOK(w, j)'
  BY <1>1, <1>2, IntentFrame DEF JournalOK, IndInv, TypeOK, Ids
<1>4. (\A c \in Participants[w] : FileOK(w, j, c)') /\ PhaseOK(w, j)'
  BY <1>1, <1>2, SameStands DEF JournalOK
<1> QED BY <1>1, <1>2, <1>3, <1>4, JournalNext DEF JournalOK

\* Nothing a crash leaves behind changes.
LEMMA SameDisk ==
  ASSUME IndInv, TypeOK', UNCHANGED <<disk, fresh, git, done>>
  PROVE  Journals' /\ Numbered' /\ NoEditLost'
<1>1. fresh <= fresh'
  BY DEF IndInv, TypeOK, Ids
<1>2. /\ Numbered' /\ NoEditLost' /\ git' \subseteq 1 .. fresh'
      /\ \A f : Quiet(f) <=> Quiet(f)'
  BY <1>1, SameFiles DEF disk
<1>3. ASSUME NEW w \in Worktrees, journal'[w] # None PROVE JournalOK(w)'
  <2>1. w \in control
    BY <1>3 DEF IndInv, Journals, JournalOK, disk
  <2> QED BY <1>3, <2>1, SameJournal DEF disk
<1> QED BY <1>2, <1>3 DEF IndInv, Journals, disk

-----------------------------------------------------------------------------
(* Entering and leaving: every file stays as it is *)

\* A process that leaves and touches no file keeps the invariant.
LEMMA KeepLeave ==
  ASSUME IndInv, TypeOK', NEW p \in Procs, op[p].pc # "idle", Leave(p),
         UNCHANGED <<disk, fresh, git, done>>
  PROVE  IndInv'
<1>1. Processes' /\ \A q \in Procs : op'[q].pc # "idle" <=> holder' = q
  BY Left DEF IndInv
<1>2. Journals' /\ Numbered' /\ NoEditLost'
  BY SameDisk
<1>3. Exclusive'
  BY <1>1 DEF Exclusive, IndInv, disk
<1> QED BY <1>1, <1>2, <1>3 DEF IndInv

\* A failed step and a kill keep the invariant: they only leave.
LEMMA KeepFail ==
  ASSUME IndInv, TypeOK', NEW p \in Procs, Fail(p) \/ Crash(p)
  PROVE  IndInv'
BY KeepLeave DEF Fail, Crash, count

\* A process goes on in state n, and nothing a crash leaves behind changes.
LEMMA KeepMove ==
  ASSUME IndInv, TypeOK', NEW p \in Procs, op[p].pc # "idle", NEW n, n.pc # "idle",
         op' = [op EXCEPT ![p] = n], holder' = holder, StateOK(n)',
         UNCHANGED <<disk, fresh, git, done>>
  PROVE  IndInv'
<1>1. holder = p /\ \A q \in Procs \ {p} : op[q].pc = "idle"
  BY Alone DEF IndInv
<1>2. Processes' /\ \A q \in Procs : op'[q].pc # "idle" <=> holder' = q
  BY <1>1, Moved DEF IndInv
<1>3. Journals' /\ Numbered' /\ NoEditLost'
  BY SameDisk
<1>4. Exclusive'
  BY <1>2 DEF Exclusive, IndInv, disk
<1> QED BY <1>2, <1>3, <1>4 DEF IndInv

\* Entering keeps it: what the journal on disk says is where the recovery begins.
LEMMA KeepStart ==
  ASSUME IndInv, TypeOK', NEW p \in Procs, NEW w \in Worktrees, NEW u \in Urls \cup {None},
         Start(p, w, u)
  PROVE  IndInv'
<1>1. op[p].pc = "idle" /\ holder = None /\ holder' = p
  BY DEF Start, Idle
<1>2. \A q \in Procs : op[q].pc = "idle"
  BY <1>1, NoneAssumption DEF IndInv, Exclusive
<1>3. CASE journal[w] # None
  <2>1. PICK n : n = [Idle EXCEPT !.pc = IF RollsForward(journal[w]) THEN "apply"
                                                                    ELSE "discard",
                                  !.wt = w, !.url = u, !.recovering = TRUE,
                                  !.seen = journal[w]]
    OBVIOUS
  <2>2. op' = [op EXCEPT ![p] = n] /\ UNCHANGED <<disk, fresh, git, done>>
    BY <1>3, <2>1 DEF Start, disk, count
  <2>3. n.pc \in {"apply", "discard"} /\ (n.pc = "apply" <=> journal[w].phase >= Ready)
        /\ n.wt = w /\ n.k = 1 /\ n.again = FALSE /\ n.seen = journal[w]
    BY <2>1 DEF Idle, RollsForward
  <2>4. journal[w].phase \in 0 .. 4
    BY <1>3 DEF IndInv, TypeOK, Intent, Planned, Applied
  <2>5. StateOK(n)'
    BY <1>3, <2>2, <2>3, <2>4 DEF StateOK, ApplyOK, Drafting, Journalled, Staging, Applying,
       Planned, Ready, disk
  <2>6. Processes' /\ \A q \in Procs : op'[q].pc # "idle" <=> holder' = q
    BY <1>1, <1>2, <2>2, <2>3, <2>5, Moved DEF IndInv
  <2>7. Journals' /\ Numbered' /\ NoEditLost'
    BY <2>2, SameDisk
  <2>8. Exclusive'
    BY <2>2, <2>6 DEF Exclusive, IndInv, disk
  <2> QED BY <2>6, <2>7, <2>8 DEF IndInv
<1>4. CASE journal[w] = None
  <2>1. PICK n : n = [Idle EXCEPT !.pc = "check", !.wt = w, !.url = u]
    OBVIOUS
  <2>2. op' = [op EXCEPT ![p] = n] /\ control' = control \ {w}
        /\ UNCHANGED <<target, lock, private, journal, claim, fresh, git, done>>
    BY <1>4, <2>1 DEF Start, count
  <2>3. n.pc = "check" /\ n.wt = w /\ n.k = 1 /\ n.again = FALSE
    BY <2>1 DEF Idle
  <2>4. StateOK(n)'
    BY <1>4, <2>2, <2>3 DEF StateOK, Drafting, Journalled, Staging, Applying
  <2>5. Processes' /\ \A q \in Procs : op'[q].pc # "idle" <=> holder' = q
    BY <1>1, <1>2, <2>2, <2>3, <2>4, Moved DEF IndInv
  <2>6. fresh <= fresh'
    BY <2>2 DEF IndInv, TypeOK, Ids
  <2>7. /\ Numbered' /\ NoEditLost' /\ git' \subseteq 1 .. fresh'
        /\ \A f : Quiet(f) <=> Quiet(f)'
    BY <2>2, <2>6, SameFiles
  <2>8. ASSUME NEW v \in Worktrees, journal'[v] # None PROVE JournalOK(v)'
    <3>1. v \in control'
      BY <1>4, <2>2, <2>8 DEF IndInv, Journals, JournalOK
    <3> QED BY <2>2, <2>8, <3>1, SameJournal
  <2>9. Journals'
    BY <2>2, <2>7, <2>8 DEF IndInv, Journals
  <2>10. Exclusive'
    BY <2>2, <2>5 DEF Exclusive, IndInv
  <2> QED BY <2>5, <2>7, <2>9, <2>10 DEF IndInv
<1> QED BY <1>3, <1>4

\* Looking for the journals of other worktrees keeps it.
LEMMA KeepCheck ==
  ASSUME IndInv, TypeOK', NEW p \in Procs, Check(p)
  PROVE  IndInv'
<1>1. op[p].pc # "idle" /\ UNCHANGED <<disk, fresh, git, done>>
  BY DEF Check, count
<1>2. CASE Leave(p)
  BY <1>1, <1>2, KeepLeave
<1>3. CASE ~Leave(p)
  <2>1. PICK n : n = [op[p] EXCEPT !.pc = "plan"]
    OBVIOUS
  <2>2. /\ op' = [op EXCEPT ![p] = n] /\ holder' = holder
        /\ op[p].url # None /\ \A v \in Worktrees \ {op[p].wt} : v \notin control
    BY <1>3, <2>1 DEF Check, Goto
  <2>3. op[p] \in ProcState /\ StateOK(op[p])
    BY OpType DEF IndInv, Processes
  <2>4. /\ n.pc = "plan" /\ n.wt = op[p].wt /\ n.url = op[p].url
        /\ n.k = op[p].k /\ n.again = op[p].again
    BY <2>1, <2>3 DEF ProcState
  <2>5. control = {} /\ op[p].url \in Urls /\ n.wt \in Worktrees /\ n.k = 1 /\ ~n.again
    BY <2>2, <2>3, <2>4 DEF Check, StateOK, ProcState, IndInv, TypeOK
  <2>6. StateOK(n)'
    BY <1>1, <2>4, <2>5 DEF StateOK, Drafting, Journalled, Staging, Applying, disk
  <2> QED BY <1>1, <2>2, <2>4, <2>6, KeepMove
<1> QED BY <1>2, <1>3

\* A process goes on in state n while no worktree has a journal directory.
LEMMA KeepAlone ==
  ASSUME IndInv, TypeOK', NEW p \in Procs, op[p].pc # "idle", control = {},
         NEW n, n.pc # "idle", op' = [op EXCEPT ![p] = n], holder' = holder, StateOK(n)',
         UNCHANGED <<target, lock, private, git, done, journal>>, fresh <= fresh',
         control' = {} \/ control' = {n.wt}
  PROVE  IndInv'
<1>1. holder = p /\ \A q \in Procs \ {p} : op[q].pc = "idle"
  BY Alone DEF IndInv
<1>2. Processes' /\ \A q \in Procs : op'[q].pc # "idle" <=> holder' = q
  BY <1>1, Moved DEF IndInv
<1>3. Journals' /\ Numbered' /\ NoEditLost'
  BY StillNoJournal
<1>4. Exclusive'
  BY <1>2 DEF Exclusive
<1> QED BY <1>2, <1>3, <1>4 DEF IndInv

\* Removing a claim without a journal keeps it.
LEMMA KeepClearOrphan ==
  ASSUME IndInv, TypeOK', NEW p \in Procs, ClearOrphan(p)
  PROVE  IndInv'
<1>1. PICK n : n = op[p]
  OBVIOUS
<1>2. op' = [op EXCEPT ![p] = n] /\ holder' = holder
  BY <1>1 DEF ClearOrphan, IndInv, TypeOK
<1>3. StateOK(op[p]) /\ n.pc = "plan"
  BY <1>1 DEF IndInv, Processes, ClearOrphan
<1>4. control = {} /\ n.wt \in Worktrees /\ n.url \in Urls /\ n.k = 1 /\ ~n.again
  BY <1>1, <1>3 DEF StateOK
<1>5. StateOK(n)'
  BY <1>3, <1>4 DEF StateOK, ClearOrphan, Drafting, Journalled, Staging, Applying
<1>6. fresh <= fresh'
  BY DEF ClearOrphan, count, IndInv, TypeOK, Ids
<1> QED BY <1>1, <1>2, <1>3, <1>4, <1>5, <1>6, KeepAlone DEF ClearOrphan, count

\* Planning keeps it: the new transaction has an identity nothing bears yet.
LEMMA KeepPlan ==
  ASSUME IndInv, TypeOK', NEW p \in Procs, Plan(p)
  PROVE  IndInv'
<1>0. PICK w : w = op[p].wt
  OBVIOUS
<1> DEFINE before == [c \in Participants[w] |-> target[File(w, c)]]
           changed == {c \in Participants[w] : before[c].url # op[p].url}
           i == [tx |-> fresh + 1, phase |-> Planned, url |-> op[p].url,
                 before |-> before, changed |-> changed, reserved |-> {}]
<1>1. op[p].pc = "plan" /\ claim[w] = None /\ UNCHANGED <<disk, git, done>>
  BY <1>0 DEF Plan
<1>2. w \in Worktrees /\ control = {} /\ op[p].k = 1 /\ ~op[p].again
     /\ op[p].url \in Urls
  BY <1>0, <1>1 DEF IndInv, Processes, StateOK
<1>3. CASE changed = {} \/ fresh = MaxImages
  <2>1. Leave(p) /\ fresh' = fresh
    BY <1>0, <1>3 DEF Plan
  <2> QED BY <1>1, <2>1, KeepLeave
<1>4. CASE ~(changed = {} \/ fresh = MaxImages)
  <2>1. PICK j : j = i
    OBVIOUS
  <2>2. PICK n : n = [[op[p] EXCEPT !.seen = j, !.recovering = FALSE] EXCEPT
                        !.pc = IF HasModule(w) THEN "claim" ELSE "control"]
    OBVIOUS
  <2>3. fresh' = fresh + 1 /\ op' = [op EXCEPT ![p] = n] /\ holder' = holder
    BY <1>0, <1>4, <2>1, <2>2 DEF Plan, Goto
  <2>4. op[p] \in ProcState
    BY OpType DEF IndInv
  <2>5. /\ n.pc = IF HasModule(w) THEN "claim" ELSE "control"
        /\ n.wt = w /\ n.k = 1 /\ n.again = FALSE /\ n.seen = j
    BY <1>0, <1>2, <2>2, <2>4 DEF ProcState
  <2>6. j.tx = fresh + 1 /\ j.phase = Planned /\ j.before = before /\ j.changed = changed
    BY <2>1
  <2>7. j \in Intent
    BY <1>2, <1>4, <2>1, PlanType DEF IndInv
  <2>8. fresh \in Nat /\ git \subseteq 1 .. fresh
    BY DEF IndInv, TypeOK, Ids, Journals
  <2>9. ASSUME NEW c \in Participants[w]
        PROVE  /\ j.before[c].id < j.tx
               /\ j.before[c].id \in git => j.before[c].id \in j.before[c].edits
               /\ Planning(w, j, c)' /\ Images(j, File(w, c))' = {}
    <3>1. File(w, c) \in Files /\ j.before[c] = target[File(w, c)]
      BY <1>2, <2>6, FileOfPart
    <3>2. /\ target[File(w, c)].id \in Nat
          /\ \A im \in private[File(w, c)] : im.id \in Nat
      BY <3>1 DEF IndInv, TypeOK, Image, Ids
    <3>3. j.before[c].id < j.tx
      BY <2>6, <2>8, <3>1, <3>2 DEF IndInv, Numbered
    <3>4. j.before[c].id \in git => j.before[c].id \in j.before[c].edits
      BY <3>1 DEF IndInv, Numbered
    <3>5. Quiet(File(w, c))'
      BY <1>1, <1>2, <3>1, NoJournal DEF IndInv, Quiet, GitHolds, disk
    <3>6. Planning(w, j, c)'
      BY <1>1, <3>1, <3>5 DEF Planning, Untouched, disk
    <3>7. Images(j, File(w, c))' = {}
      BY <1>1, <2>6, <2>8, <3>1, <3>2 DEF Images, IndInv, Numbered, disk
    <3> QED BY <3>3, <3>4, <3>6, <3>7
  <2>10. IntentOK(w, j)'
    <3>1. j.tx # 0 /\ j.tx <= fresh' /\ j.tx \notin git'
      BY <1>1, <2>3, <2>6, <2>8
    <3>2. DOMAIN j.before = Participants[w] /\ j.changed \subseteq Participants[w]
          /\ j.changed # {}
      BY <1>4, <2>6
    <3> QED BY <1>1, <2>7, <2>9, <3>1, <3>2 DEF IntentOK
  <2>11. DraftOK(n)'
    BY <2>5, <2>6, <2>9, <2>10 DEF DraftOK
  <2>12. StateOK(n)'
    BY <1>1, <1>2, <2>5, <2>11 DEF StateOK, Drafting, Journalled, Staging, Applying, disk
  <2>13. n.pc # "idle" /\ fresh <= fresh' /\ op[p].pc # "idle" /\ control' = {}
    BY <1>1, <1>2, <2>3, <2>5, <2>8 DEF disk
  <2>14. UNCHANGED <<target, lock, private, git, done, journal>>
    BY <1>1 DEF disk
  <2> QED BY <1>2, <2>3, <2>12, <2>13, <2>14, KeepAlone
<1> QED BY <1>3, <1>4

\* What a process in a drafting step knows and holds.
LEMMA Drafted ==
  ASSUME IndInv, NEW p \in Procs, NEW o, o = op[p], o.pc \in Drafting
  PROVE  /\ o \in ProcState /\ o.wt \in Worktrees /\ DraftOK(o) /\ IntentOK(o.wt, o.seen)
         /\ o.seen.phase = Planned /\ o.k = 1 /\ o.again = FALSE
         /\ o.pc # "intent" => control = {}
         /\ o.pc = "intent" => control = {o.wt}
         /\ \A v \in Worktrees : journal[v] = None
         /\ \A f \in Files : Quiet(f)
<1>1. o \in ProcState /\ StateOK(o)
  BY OpType DEF IndInv, Processes
<1>2. o.wt \in Worktrees /\ DraftOK(o) /\ o.k = 1 /\ o.again = FALSE
  BY <1>1 DEF StateOK, Drafting, ProcState
<1>3. (o.pc # "intent" => control = {}) /\ (o.pc = "intent" => control = {o.wt})
  BY <1>1 DEF StateOK, Drafting
<1>4. \A v \in Worktrees : journal[v] = None
  BY <1>1, <1>3 DEF StateOK, Drafting, IndInv, Journals, JournalOK
<1>5. \A f \in Files : Quiet(f)
  BY <1>4 DEF IndInv, Journals
<1> QED BY <1>1, <1>2, <1>3, <1>4, <1>5 DEF DraftOK

\* What a process drafts survives a step that touches no file.
LEMMA SameDraft ==
  ASSUME IndInv, TypeOK', NEW p \in Procs, NEW o, o = op[p], o.pc \in Drafting,
         UNCHANGED <<target, lock, private, git, fresh>>
  PROVE  /\ IntentOK(o.wt, o.seen)'
         /\ \A c \in Participants[o.wt] :
              Planning(o.wt, o.seen, c)' /\ Images(o.seen, File(o.wt, c))' = {}
<1>1. o.wt \in Worktrees /\ DraftOK(o) /\ IntentOK(o.wt, o.seen)
  BY Drafted
<1>2. IntentOK(o.wt, o.seen)'
  BY <1>1, IntentFrame DEF IndInv, TypeOK, Ids
<1> QED BY <1>1, <1>2, SameStands DEF DraftOK

\* Publishing the claim keeps it.
LEMMA KeepPublishClaim ==
  ASSUME IndInv, TypeOK', NEW p \in Procs, PublishClaim(p)
  PROVE  IndInv'
<1>1. PICK o : o = op[p]
  OBVIOUS
<1>2. PICK n : n = [o EXCEPT !.pc = "control"]
  OBVIOUS
<1>3. o.pc = "claim" /\ o.pc \in Drafting
  BY <1>1 DEF PublishClaim, Drafting
<1>4. /\ op' = [op EXCEPT ![p] = n] /\ holder' = holder
      /\ claim' = [claim EXCEPT ![o.wt] = o.seen.tx]
      /\ UNCHANGED <<target, lock, private, control, journal, fresh, git, done>>
  BY <1>1, <1>2 DEF PublishClaim, Goto, count
<1>5. o \in ProcState /\ o.wt \in Worktrees /\ control = {} /\ DraftOK(o)
  BY <1>1, <1>3, Drafted
<1>6. n.pc = "control" /\ n.wt = o.wt /\ n.seen = o.seen /\ n.k = 1 /\ n.again = FALSE
  BY <1>1, <1>2, <1>3, <1>5, Drafted DEF ProcState
<1>7. IntentOK(n.wt, n.seen)' /\ n.seen.phase = Planned
      /\ \A c \in Participants[n.wt] :
           Planning(n.wt, n.seen, c)' /\ Images(n.seen, File(n.wt, c))' = {}
  BY <1>1, <1>3, <1>4, <1>6, SameDraft, Drafted
<1>8. claim'[n.wt] = n.seen.tx
  BY <1>4, <1>5, <1>6 DEF IndInv, TypeOK
<1>9. DraftOK(n)'
  BY <1>7, <1>8 DEF DraftOK
<1>10. StateOK(n)'
  BY <1>4, <1>5, <1>6, <1>9 DEF StateOK, Drafting, Journalled, Staging, Applying
<1>11. fresh <= fresh' /\ op[p].pc # "idle" /\ control' = {}
  BY <1>1, <1>3, <1>4, <1>5 DEF IndInv, TypeOK, Ids
<1> QED BY <1>4, <1>5, <1>6, <1>10, <1>11, KeepAlone

\* Making the journal directory keeps it.
LEMMA KeepMakeControl ==
  ASSUME IndInv, TypeOK', NEW p \in Procs, MakeControl(p)
  PROVE  IndInv'
<1>1. PICK o : o = op[p]
  OBVIOUS
<1>2. PICK n : n = [o EXCEPT !.pc = "intent"]
  OBVIOUS
<1>3. o.pc = "control" /\ o.pc \in Drafting
  BY <1>1 DEF MakeControl, Drafting
<1>4. /\ op' = [op EXCEPT ![p] = n] /\ holder' = holder
      /\ control' = control \cup {o.wt}
      /\ UNCHANGED <<target, lock, private, claim, journal, fresh, git, done>>
  BY <1>1, <1>2 DEF MakeControl, Goto, count
<1>5. /\ o \in ProcState /\ o.wt \in Worktrees /\ control = {} /\ DraftOK(o)
      /\ journal[o.wt] = None
  BY <1>1, <1>3, Drafted
<1>6. n.pc = "intent" /\ n.wt = o.wt /\ n.seen = o.seen /\ n.k = 1 /\ n.again = FALSE
  BY <1>1, <1>2, <1>3, <1>5, Drafted DEF ProcState
<1>7. IntentOK(n.wt, n.seen)' /\ n.seen.phase = Planned
      /\ \A c \in Participants[n.wt] :
           Planning(n.wt, n.seen, c)' /\ Images(n.seen, File(n.wt, c))' = {}
  BY <1>1, <1>3, <1>4, <1>6, SameDraft, Drafted
<1>8. HasModule(n.wt) => claim'[n.wt] = n.seen.tx
  BY <1>3, <1>4, <1>5, <1>6 DEF DraftOK
<1>9. DraftOK(n)'
  BY <1>7, <1>8 DEF DraftOK, HasModule
<1>10. StateOK(n)'
  BY <1>4, <1>5, <1>6, <1>9 DEF StateOK, Drafting, Journalled, Staging, Applying
<1>11. fresh <= fresh' /\ op[p].pc # "idle" /\ control' = {n.wt}
  BY <1>1, <1>3, <1>4, <1>5, <1>6 DEF IndInv, TypeOK, Ids
<1> QED BY <1>4, <1>5, <1>6, <1>10, <1>11, KeepAlone

\* Removing the claim at the end keeps it.
LEMMA KeepUnclaim ==
  ASSUME IndInv, TypeOK', NEW p \in Procs, Unclaim(p)
  PROVE  IndInv'
<1>1. op[p].pc = "unclaim" /\ StateOK(op[p]) /\ op[p].wt \in Worktrees /\ control = {}
  BY DEF Unclaim, IndInv, Processes, StateOK
<1>2. UNCHANGED <<target, lock, private, control, journal, fresh, git, done>>
  BY DEF Unclaim, count
<1>3. fresh <= fresh'
  BY <1>2 DEF IndInv, TypeOK, Ids
<1>4. CASE op[p].recovering
  <2>1. PICK n : n = [[Idle EXCEPT !.wt = op[p].wt, !.url = op[p].url] EXCEPT !.pc = "check"]
    OBVIOUS
  <2>2. op' = [op EXCEPT ![p] = n] /\ holder' = holder
    BY <1>4, <2>1 DEF Unclaim, Goto
  <2>3. n.pc = "check" /\ n.wt = op[p].wt /\ n.k = 1 /\ n.again = FALSE
    BY <2>1 DEF Idle
  <2>4. journal[n.wt] = None
    BY <1>1, <2>3, NoJournal DEF IndInv
  <2>5. StateOK(n)'
    BY <1>1, <1>2, <2>3, <2>4 DEF StateOK, Drafting, Journalled, Staging, Applying
  <2> QED BY <1>1, <1>2, <1>3, <2>2, <2>3, <2>5, KeepAlone
<1>5. CASE ~op[p].recovering
  <2>1. Leave(p)
    BY <1>5 DEF Unclaim
  <2>2. Processes' /\ \A q \in Procs : op'[q].pc # "idle" <=> holder' = q
    BY <1>1, <2>1, Left DEF IndInv
  <2>3. Journals' /\ Numbered' /\ NoEditLost'
    BY <1>1, <1>2, <1>3, StillNoJournal
  <2>4. Exclusive'
    BY <1>1, <1>2, <2>2 DEF Exclusive
  <2> QED BY <2>2, <2>3, <2>4 DEF IndInv
<1> QED BY <1>4, <1>5

-----------------------------------------------------------------------------
(* Steps with a journal *)

\* What a process with a journal knows and holds.
LEMMA AtWork ==
  ASSUME IndInv, NEW p \in Procs, NEW o, o = op[p], o.pc \in Journalled,
         NEW w, w = o.wt, NEW j, j = o.seen
  PROVE  /\ o \in ProcState /\ w \in Worktrees /\ StateOK(o) /\ o.k \in 1 .. 3
         /\ control = {w} /\ journal[w] = j /\ j # None /\ IntentOK(w, j)
         /\ \A v \in Worktrees \ {w} : journal[v] = None
         /\ HasModule(w) => claim[w] = j.tx
         /\ \A c \in Participants[w] : FileOK(w, j, c)
         /\ PhaseOK(w, j)
         /\ \A f \in Files : Quiet(f) \/ \E c \in j.changed : f = File(w, c)
<1>1. o \in ProcState /\ StateOK(o) /\ o.k \in 1 .. 3
  BY OpType DEF IndInv, Processes, ProcState
<1>2. /\ w \in Worktrees /\ control = {w} /\ journal[w] = j /\ j # None /\ IntentOK(w, j)
      /\ JournalOK(w) /\ (\A v \in Worktrees \ {w} : journal[v] = None)
  BY OneJournal
<1>3. \A f \in Files : Quiet(f) \/ \E c \in j.changed : f = File(w, c)
  BY <1>2 DEF IndInv, Journals
<1> QED BY <1>1, <1>2, <1>3 DEF JournalOK

\* The process returns, dies or goes on in state n.
Moves(p, n) ==
  Leave(p) \/ (op' = [op EXCEPT ![p] = n] /\ holder' = holder)

\* A file operation that returns leaves the other processes where they were.
LEMMA WorkedMoves ==
  ASSUME NEW p \in Procs, NEW pc, NEW o, Worked(p, pc, o)
  PROVE  Moves(p, [o EXCEPT !.pc = pc])
BY DEF Worked, Goto, Moves

\* Processes that are not moved stay as the invariant describes them.
LEMMA KeepProcesses ==
  ASSUME IndInv, NEW p \in Procs, op[p].pc # "idle", NEW n, Moves(p, n),
         n.pc # "idle", StateOK(n)'
  PROVE  Processes' /\ \A q \in Procs : op'[q].pc # "idle" <=> holder' = q
<1>1. CASE Leave(p)
  BY <1>1, Left DEF IndInv
<1>2. CASE ~Leave(p)
  BY <1>2, Alone, Moved DEF IndInv, Moves
<1> QED BY <1>1, <1>2

\* The invariant after a step of a process with a journal, from its parts.
LEMMA KeepWork ==
  ASSUME IndInv, TypeOK', NEW p \in Procs, op[p].pc # "idle",
         NEW n, Moves(p, n), n.pc # "idle", StateOK(n)',
         NEW w \in Worktrees, NEW j, journal'[w] = j, control' = {w},
         \A v \in Worktrees \ {w} : journal'[v] = None,
         IntentOK(w, j)', HasModule(w) => claim'[w] = j.tx,
         \A c \in Participants[w] : FileOK(w, j, c)', PhaseOK(w, j)',
         \A f \in Files : Quiet(f)' \/ \E c \in j.changed : f = File(w, c),
         UNCHANGED <<fresh, git>>, Numbered', NoEditLost'
  PROVE  IndInv'
<1>1. Processes' /\ \A q \in Procs : op'[q].pc # "idle" <=> holder' = q
  BY KeepProcesses
<1>2. Exclusive'
  BY <1>1 DEF Exclusive
<1>3. JournalOK(w)'
  BY JournalNext
<1>4. j # None
  BY AbsentAssumption DEF IntentOK
<1>5. git' \subseteq 1 .. fresh'
  BY DEF IndInv, Journals
<1>6. Journals'
  BY <1>3, <1>4, <1>5 DEF Journals
<1> QED BY <1>1, <1>2, <1>6 DEF IndInv

\* A step that reads and moves on.
LEMMA SameNumbers ==
  ASSUME IndInv, TypeOK', UNCHANGED <<target, lock, fresh, git, done>>,
         \A f \in Files : \A i \in private'[f] : i \in private[f] \/ i.id <= fresh
  PROVE  /\ Numbered' /\ NoEditLost'
         /\ \A f : Quiet(f) <=> Quiet(f)'
<1>1. Numbered'
  BY DEF IndInv, Numbered
<1>2. NoEditLost'
  BY DEF IndInv, NoEditLost
<1>3. \A f : Quiet(f) <=> Quiet(f)'
  BY DEF Quiet, GitHolds
<1> QED BY <1>1, <1>2, <1>3

\* A step of a transaction that is not ready: no file and no lock changes.
LEMMA KeepPlanned ==
  ASSUME IndInv, TypeOK', NEW p \in Procs, NEW o, o = op[p], o.pc \in Journalled,
         NEW w, w = o.wt, NEW j, j = o.seen, j.phase = Planned,
         NEW i, i \in Intent, i.phase = Planned, i.tx = j.tx, i.before = j.before,
         i.changed = j.changed, journal'[w] = i,
         \A v \in Worktrees \ {w} : journal'[v] = journal[v],
         NEW n, Moves(p, n), n.pc # "idle", StateOK(n)',
         UNCHANGED <<target, lock, control, claim, fresh, git, done>>,
         \A f \in Files : \A im \in private'[f] : im \in private[f] \/ im.id = j.tx
  PROVE  IndInv'
<1>1. /\ w \in Worktrees /\ control = {w} /\ IntentOK(w, j)
      /\ \A v \in Worktrees \ {w} : journal[v] = None
      /\ HasModule(w) => claim[w] = j.tx
      /\ \A c \in Participants[w] : FileOK(w, j, c)
      /\ \A f \in Files : Quiet(f) \/ \E c \in j.changed : f = File(w, c)
  BY AtWork
<1>2. IntentOK(w, i)'
  BY <1>1 DEF IntentOK
<1>3. j.tx <= fresh
  BY <1>1 DEF IntentOK
<1>4. Numbered' /\ NoEditLost' /\ \A f : Quiet(f) <=> Quiet(f)'
  BY <1>3, SameNumbers
<1>5. ASSUME NEW c \in Participants[w] PROVE FileOK(w, i, c)'
  <2>1. Planning(w, j, c)
    BY <1>1 DEF FileOK, Planned, Ready
  <2>2. Planning(w, i, c)'
    BY <1>4, <2>1 DEF Planning, Untouched
  <2> QED BY <2>2 DEF FileOK, Planned, Ready
<1>6. PhaseOK(w, i)'
  BY DEF PhaseOK, Planned, Applied
<1>7. op[p].pc # "idle"
  BY DEF Journalled, Staging, Applying
<1>8. UNCHANGED <<fresh, git>> /\ control' = {w}
  BY <1>1
<1>9. (\A v \in Worktrees \ {w} : journal'[v] = None)
      /\ (HasModule(w) => claim'[w] = i.tx)
      /\ \A f \in Files : Quiet(f)' \/ \E c \in i.changed : f = File(w, c)
  BY <1>1, <1>4
<1> QED BY <1>1, <1>2, <1>4, <1>5, <1>6, <1>7, <1>8, <1>9, KeepWork

\* Publishing the journal keeps it: every participant is as it was planned.
LEMMA KeepPublishIntent ==
  ASSUME IndInv, TypeOK', NEW p \in Procs, PublishIntent(p)
  PROVE  IndInv'
<1>1. PICK o : o = op[p]
  OBVIOUS
<1>2. PICK n : n = [o EXCEPT !.pc = "reserve"]
  OBVIOUS
<1>3. PICK w : w = o.wt
  OBVIOUS
<1>4. PICK j : j = o.seen
  OBVIOUS
<1>5. o.pc = "intent" /\ o.pc \in Drafting /\ op[p].pc # "idle"
  BY <1>1 DEF PublishIntent, Drafting
<1>6. /\ op' = [op EXCEPT ![p] = n] /\ holder' = holder
      /\ journal' = [journal EXCEPT ![w] = j]
      /\ UNCHANGED <<target, lock, private, claim, control, fresh, git, done>>
  BY <1>1, <1>2, <1>3, <1>4 DEF PublishIntent, Goto, count
<1>7. /\ o \in ProcState /\ w \in Worktrees /\ control = {w} /\ DraftOK(o)
      /\ j.phase = Planned /\ \A v \in Worktrees : journal[v] = None
      /\ \A f \in Files : Quiet(f)
  BY <1>1, <1>3, <1>4, <1>5, Drafted
<1>8. n.pc = "reserve" /\ n.wt = w /\ n.seen = j /\ n.k = 1 /\ n.again = FALSE
  BY <1>1, <1>2, <1>3, <1>4, <1>5, <1>7, Drafted DEF ProcState
<1>9. IntentOK(w, j)'
      /\ \A c \in Participants[w] : Planning(w, j, c)' /\ Images(j, File(w, c))' = {}
  BY <1>1, <1>3, <1>4, <1>5, <1>6, SameDraft
<1>10. journal'[w] = j /\ \A v \in Worktrees \ {w} : journal'[v] = None
  BY <1>6, <1>7 DEF IndInv, TypeOK
<1>11. HasModule(w) => claim'[w] = j.tx
  BY <1>3, <1>4, <1>5, <1>6, <1>7 DEF DraftOK
<1>12. \A c \in Participants[w] : FileOK(w, j, c)'
  BY <1>7, <1>9 DEF FileOK, Planned, Ready
<1>13. PhaseOK(w, j)'
  BY <1>7 DEF PhaseOK, Planned, Applied
<1>14. Numbered' /\ NoEditLost' /\ \A f : Quiet(f) <=> Quiet(f)'
  BY <1>6, SameNumbers
<1>15. StageOK(n)'
  <2>1. j.changed \subseteq Participants[w]
    BY <1>3, <1>4, <1>7 DEF DraftOK, IntentOK
  <2>2. \A i \in 1 .. 3 : Order[i] \in j.changed => Images(j, File(w, Order[i]))' = {}
    BY <1>9, <2>1
  <2>3. \A i \in 1 .. 3 : ~(i < n.k)
    BY <1>8
  <2> QED BY <1>7, <1>8, <2>2, <2>3 DEF StageOK
<1>16. j # None
  BY <1>9, AbsentAssumption DEF IntentOK
<1>17. StateOK(n)'
  BY <1>7, <1>8, <1>10, <1>15, <1>16 DEF StateOK, Drafting, Journalled, Staging, Applying
<1>18. Moves(p, n) /\ n.pc # "idle" /\ control' = {w} /\ UNCHANGED <<fresh, git>>
       /\ \A f \in Files : Quiet(f)'
  BY <1>6, <1>7, <1>8, <1>14 DEF Moves
<1> QED BY <1>5, <1>7, <1>9, <1>10, <1>11, <1>12, <1>13, <1>14, <1>17, <1>18, KeepWork

\* The private images of one file after a step that changes only them there.
LEMMA ImagesAdd ==
  ASSUME TypeOK, NEW f \in Files, NEW j, NEW x, x.id = j.tx,
         private' = [private EXCEPT ![f] = @ \cup {x}]
  PROVE  /\ Images(j, f)' = Images(j, f) \cup {x}
         /\ \A g \in Files \ {f} : Images(j, g)' = Images(j, g)
BY DEF Images, TypeOK

\* The after-images among the private files when one of them changes.
LEMMA ImagesReplace ==
  ASSUME TypeOK, NEW f \in Files, NEW j, NEW x, NEW y, x.id = j.tx, y.id = j.tx,
         private' = [private EXCEPT ![f] = (@ \ {x}) \cup {y}]
  PROVE  /\ Images(j, f)' = (Images(j, f) \ {x}) \cup {y}
         /\ \A g \in Files \ {f} : Images(j, g)' = Images(j, g)
BY DEF Images, TypeOK

\* Reserving a private file keeps it.
LEMMA KeepReserve ==
  ASSUME IndInv, TypeOK', NEW p \in Procs, Reserve(p)
  PROVE  IndInv'
<1>1. PICK o : o = op[p]
  OBVIOUS
<1>2. PICK n : n = [o EXCEPT !.pc = "record"]
  OBVIOUS
<1>3. PICK w : w = o.wt
  OBVIOUS
<1>4. PICK j : j = o.seen
  OBVIOUS
<1>5. o.pc = "reserve" /\ o.pc \in Journalled /\ o.pc \in Staging
  BY <1>1 DEF Reserve, Journalled, Staging
<1>6. /\ o \in ProcState /\ w \in Worktrees /\ StateOK(o) /\ o.k \in 1 .. 3
      /\ journal[w] = j /\ j # None /\ IntentOK(w, j) /\ control = {w}
  BY <1>1, <1>3, <1>4, <1>5, AtWork
<1>7. /\ n.pc = "record" /\ n.wt = w /\ n.seen = j /\ n.k = o.k /\ n.again = o.again
  BY <1>2, <1>3, <1>4, <1>6 DEF ProcState
<1>8. StageOK(o) /\ j.phase = Planned /\ ~o.again
  BY <1>4, <1>5, <1>6 DEF StateOK, StageOK
<1>9. Moves(p, n) /\ UNCHANGED <<target, lock, control, journal, claim, fresh, git, done>>
  BY <1>1, <1>2, WorkedMoves DEF Reserve, count
<1> DEFINE c == Order[o.k]
           f == File(w, c)
<1>10. j.changed \subseteq Participants[w] /\ (c \in j.changed => f \in Files)
  BY <1>6, FileOfPart DEF IntentOK
<1>11. Changes(p) <=> c \in j.changed
  BY <1>1, <1>3, <1>4, <1>10 DEF Changes, Joins, Part
<1>12. IF c \in j.changed
         THEN private' = [private EXCEPT ![f] = @ \cup {Blank(j.tx)}]
         ELSE private' = private
  BY <1>1, <1>3, <1>4, <1>11 DEF Reserve, Here, Part
<1>13. Blank(j.tx).id = j.tx
  BY DEF Blank
<1>14. ASSUME NEW i \in 1 .. 3, Order[i] \in j.changed
       PROVE  Images(j, File(w, Order[i]))' = IF i <= o.k THEN {Blank(j.tx)} ELSE {}
  <2> DEFINE g == File(w, Order[i])
  <2>1. g \in Files
    BY <1>6, <1>10, <1>14, FileOfPart
  <2>2. Images(j, g) = IF i < o.k THEN {Blank(j.tx)} ELSE {}
    BY <1>3, <1>4, <1>5, <1>8, <1>14 DEF StageOK
  <2>3. CASE i = o.k
    <3>1. Images(j, g)' = {} \cup {Blank(j.tx)}
      BY <1>6, <1>10, <1>12, <1>13, <1>14, <2>2, <2>3, ImagesAdd DEF IndInv
    <3> QED BY <1>6, <2>3, <3>1
  <2>4. CASE i # o.k
    <3>1. g # f
      BY <1>6, <2>4, Ordered, FileOfPart
    <3>2. Images(j, g)' = Images(j, g)
      BY <1>10, <1>12, <1>13, <2>1, <3>1, ImagesAdd DEF IndInv, Images
    <3> QED BY <1>6, <2>2, <2>4, <3>2
  <2> QED BY <2>3, <2>4
<1>15. StageOK(n)'
  BY <1>6, <1>7, <1>8, <1>14 DEF StageOK
<1>16. journal'[w] = j /\ \A v \in Worktrees \ {w} : journal'[v] = journal[v]
  BY <1>6, <1>9
<1>17. StateOK(n)'
  BY <1>5, <1>6, <1>7, <1>15, <1>16 DEF StateOK, Drafting, Journalled, Staging, Applying
<1>18. \A g \in Files : \A im \in private'[g] : im \in private[g] \/ im.id = j.tx
  BY <1>12, <1>13 DEF IndInv, TypeOK
<1>19. j \in Intent /\ n.pc # "idle"
  BY <1>6, <1>7 DEF IntentOK
<1> QED BY <1>1, <1>3, <1>4, <1>5, <1>8, <1>9, <1>16, <1>17, <1>18, <1>19, KeepPlanned

\* Recording the private file in the journal keeps it.
LEMMA KeepRecord ==
  ASSUME IndInv, TypeOK', NEW p \in Procs, Record(p)
  PROVE  IndInv'
<1>1. PICK o : o = op[p]
  OBVIOUS
<1>2. PICK w : w = o.wt
  OBVIOUS
<1>3. PICK j : j = o.seen
  OBVIOUS
<1>4. PICK i : i = [j EXCEPT !.reserved = IF Joins(p) THEN @ \cup {Part(p)} ELSE @]
  OBVIOUS
<1>5. PICK n : n = [[o EXCEPT !.seen = i, !.k = IF o.k = 3 THEN 1 ELSE @ + 1]
                     EXCEPT !.pc = IF o.k = 3 THEN "prepare" ELSE "reserve"]
  OBVIOUS
<1>6. o.pc = "record" /\ o.pc \in Journalled /\ o.pc \in Staging
  BY <1>1 DEF Record, Journalled, Staging
<1>7. /\ o \in ProcState /\ w \in Worktrees /\ StateOK(o) /\ o.k \in 1 .. 3
      /\ journal[w] = j /\ j # None /\ IntentOK(w, j) /\ control = {w}
  BY <1>1, <1>2, <1>3, <1>6, AtWork
<1>8. StageOK(o) /\ j.phase = Planned /\ ~o.again
  BY <1>3, <1>6, <1>7 DEF StateOK, StageOK
<1>9. /\ op' = [op EXCEPT ![p] = n] /\ holder' = holder
      /\ journal' = [journal EXCEPT ![w] = i]
      /\ UNCHANGED <<target, lock, private, control, claim, fresh, git, done>>
  BY <1>1, <1>2, <1>3, <1>4, <1>5 DEF Record, Goto, count
<1>10. /\ n.pc = IF o.k = 3 THEN "prepare" ELSE "reserve"
       /\ n.wt = w /\ n.seen = i /\ n.again = o.again
       /\ n.k = IF o.k = 3 THEN 1 ELSE o.k + 1
  BY <1>2, <1>5, <1>7 DEF ProcState
<1>11. journal'[w] = i /\ \A v \in Worktrees \ {w} : journal'[v] = journal[v]
  BY <1>7, <1>9 DEF IndInv, TypeOK
<1>12. i.phase = Planned /\ i.tx = j.tx /\ i.before = j.before /\ i.changed = j.changed
  BY <1>4, <1>7, <1>8 DEF IntentOK, Intent
<1>13. i \in Intent /\ i # None
  <2>1. Part(p) \in Parts
    BY <1>1, <1>7, Ordered DEF Part
  <2>2. i \in Intent
    BY <1>4, <1>7, <2>1 DEF IntentOK, Intent
  <2> QED BY <2>2, AbsentAssumption
<1>14. ASSUME NEW m \in 1 .. 3, Order[m] \in i.changed
       PROVE  Images(i, File(w, Order[m]))' =
                IF n.pc = "prepare" \/ m < n.k THEN {Blank(i.tx)} ELSE {}
  <2>1. Images(j, File(w, Order[m])) = IF m <= o.k THEN {Blank(j.tx)} ELSE {}
    BY <1>2, <1>3, <1>6, <1>7, <1>8, <1>12, <1>14 DEF StageOK
  <2>2. Images(i, File(w, Order[m]))' = Images(j, File(w, Order[m]))
    BY <1>9, <1>12 DEF Images
  <2> QED BY <1>7, <1>10, <1>12, <2>1, <2>2
<1>15. StageOK(n)'
  BY <1>7, <1>8, <1>10, <1>12, <1>14 DEF StageOK
<1>16. StateOK(n)'
  BY <1>7, <1>10, <1>11, <1>13, <1>15 DEF StateOK, Drafting, Journalled, Staging, Applying
<1>17. Moves(p, n) /\ n.pc # "idle"
       /\ \A g \in Files : \A im \in private'[g] : im \in private[g] \/ im.id = j.tx
  BY <1>9, <1>10 DEF Moves
<1> QED BY <1>1, <1>2, <1>3, <1>6, <1>8, <1>9, <1>11, <1>12, <1>13, <1>16, <1>17, KeepPlanned

\* Writing the after-image keeps it.
LEMMA KeepPrepare ==
  ASSUME IndInv, TypeOK', NEW p \in Procs, Prepare(p)
  PROVE  IndInv'
<1>1. PICK o : o = op[p]
  OBVIOUS
<1>2. PICK n : n = IF o.k < 3 THEN [[o EXCEPT !.k = @ + 1] EXCEPT !.pc = "prepare"]
                              ELSE [[o EXCEPT !.k = 1] EXCEPT !.pc = "ready"]
  OBVIOUS
<1>3. PICK w : w = o.wt
  OBVIOUS
<1>4. PICK j : j = o.seen
  OBVIOUS
<1>5. o.pc = "prepare" /\ o.pc \in Journalled /\ o.pc \in Staging
  BY <1>1 DEF Prepare, Journalled, Staging
<1>6. /\ o \in ProcState /\ w \in Worktrees /\ StateOK(o) /\ o.k \in 1 .. 3
      /\ journal[w] = j /\ j # None /\ IntentOK(w, j) /\ control = {w}
  BY <1>1, <1>3, <1>4, <1>5, AtWork
<1>7. /\ n.pc = IF o.k < 3 THEN "prepare" ELSE "ready"
      /\ n.wt = w /\ n.seen = j /\ n.again = o.again
      /\ n.k = IF o.k < 3 THEN o.k + 1 ELSE 1
  BY <1>2, <1>3, <1>4, <1>6 DEF ProcState
<1>8. StageOK(o) /\ j.phase = Planned /\ ~o.again
  BY <1>4, <1>5, <1>6 DEF StateOK, StageOK
<1>9. Moves(p, n) /\ UNCHANGED <<target, lock, control, journal, claim, fresh, git, done>>
  BY <1>1, <1>2, WorkedMoves DEF Prepare, EachPart, count
<1> DEFINE c == Order[o.k]
           f == File(w, c)
<1>10. j.changed \subseteq Participants[w] /\ (c \in j.changed => f \in Files)
  BY <1>6, FileOfPart DEF IntentOK
<1>11. Changes(p) <=> c \in j.changed
  BY <1>1, <1>3, <1>4, <1>10 DEF Changes, Joins, Part
<1>12. IF c \in j.changed
         THEN private' = [private EXCEPT ![f] = (@ \ {Blank(j.tx)}) \cup {After(j, c)}]
         ELSE private' = private
  BY <1>1, <1>3, <1>4, <1>11 DEF Prepare, Here, Part, Published
<1>13. Blank(j.tx).id = j.tx /\ After(j, c).id = j.tx
  BY DEF Blank, After
<1>14. ASSUME NEW i \in 1 .. 3, Order[i] \in j.changed
       PROVE  Images(j, File(w, Order[i]))' =
                IF i <= o.k THEN {After(j, Order[i])} ELSE {Blank(j.tx)}
  <2> DEFINE g == File(w, Order[i])
  <2>1. g \in Files
    BY <1>6, <1>10, <1>14, FileOfPart
  <2>2. Images(j, g) = IF i < o.k THEN {After(j, Order[i])} ELSE {Blank(j.tx)}
    BY <1>3, <1>4, <1>5, <1>8, <1>14 DEF StageOK
  <2>3. CASE i = o.k
    <3>1. Images(j, g)' = ({Blank(j.tx)} \ {Blank(j.tx)}) \cup {After(j, Order[i])}
      BY <1>6, <1>10, <1>12, <1>13, <1>14, <2>2, <2>3, ImagesReplace DEF IndInv
    <3> QED BY <1>6, <2>3, <3>1
  <2>4. CASE i # o.k
    <3>1. g # f
      BY <1>6, <2>4, Ordered, FileOfPart
    <3>2. Images(j, g)' = Images(j, g)
      BY <1>10, <1>12, <1>13, <2>1, <3>1, ImagesReplace DEF IndInv, Images
    <3> QED BY <1>6, <2>2, <2>4, <3>2
  <2> QED BY <2>3, <2>4
<1>15. StageOK(n)'
  BY <1>6, <1>7, <1>8, <1>14 DEF StageOK
<1>16. journal'[w] = j /\ \A v \in Worktrees \ {w} : journal'[v] = journal[v]
  BY <1>6, <1>9
<1>17. StateOK(n)'
  BY <1>5, <1>6, <1>7, <1>15, <1>16 DEF StateOK, Drafting, Journalled, Staging, Applying
<1>18. \A g \in Files : \A im \in private'[g] : im \in private[g] \/ im.id = j.tx
  BY <1>12, <1>13 DEF IndInv, TypeOK
<1>19. j \in Intent /\ n.pc # "idle"
  BY <1>6, <1>7 DEF IntentOK
<1> QED BY <1>1, <1>3, <1>4, <1>5, <1>8, <1>9, <1>16, <1>17, <1>18, <1>19, KeepPlanned

\* Discarding a private file in a recovery keeps it.
LEMMA KeepDiscard ==
  ASSUME IndInv, TypeOK', NEW p \in Procs, Discard(p)
  PROVE  IndInv'
<1>1. PICK o : o = op[p]
  OBVIOUS
<1>2. PICK n : n = IF o.k < 3 THEN [[o EXCEPT !.k = @ + 1] EXCEPT !.pc = "discard"]
                              ELSE [[o EXCEPT !.k = 1] EXCEPT !.pc = "retire"]
  OBVIOUS
<1>3. PICK w : w = o.wt
  OBVIOUS
<1>4. PICK j : j = o.seen
  OBVIOUS
<1>5. o.pc = "discard" /\ o.pc \in Journalled
  BY <1>1 DEF Discard, Journalled
<1>6. /\ o \in ProcState /\ w \in Worktrees /\ StateOK(o)
      /\ journal[w] = j /\ j # None /\ IntentOK(w, j) /\ control = {w}
  BY <1>1, <1>3, <1>4, <1>5, AtWork
<1>7. n.pc \in {"discard", "retire"} /\ n.wt = w /\ n.seen = j
  BY <1>2, <1>3, <1>4, <1>6 DEF ProcState
<1>8. j.phase = Planned
  BY <1>4, <1>5, <1>6 DEF StateOK
<1>9. Moves(p, n) /\ UNCHANGED <<target, lock, control, journal, claim, fresh, git, done>>
  BY <1>1, <1>2, WorkedMoves DEF Discard, EachPart, count
<1>10. journal'[w] = j /\ \A v \in Worktrees \ {w} : journal'[v] = journal[v]
  BY <1>6, <1>9
<1>11. StateOK(n)'
  BY <1>6, <1>7, <1>8, <1>10 DEF StateOK, Drafting, Journalled, Staging, Applying
<1>12. \A g \in Files : \A im \in private'[g] : im \in private[g] \/ im.id = j.tx
  BY DEF Discard, IndInv, TypeOK
<1>13. j \in Intent /\ n.pc # "idle"
  BY <1>6, <1>7 DEF IntentOK
<1> QED BY <1>1, <1>3, <1>4, <1>5, <1>8, <1>9, <1>10, <1>11, <1>12, <1>13, KeepPlanned

\* A step that records a phase: no file changes.
LEMMA KeepPhase ==
  ASSUME IndInv, TypeOK', NEW p \in Procs, NEW o, o = op[p], o.pc \in Journalled,
         NEW w, w = o.wt, NEW j, j = o.seen,
         NEW i, i \in Intent, i.tx = j.tx, i.before = j.before, i.changed = j.changed,
         i.url = j.url, journal' = [journal EXCEPT ![w] = i],
         NEW n, Moves(p, n), n.pc # "idle", StateOK(n)',
         \A c \in Participants[w] : FileOK(w, i, c), PhaseOK(w, i),
         UNCHANGED <<target, lock, private, control, claim, fresh, git, done>>
  PROVE  IndInv'
<1>1. /\ w \in Worktrees /\ control = {w} /\ IntentOK(w, j)
      /\ (\A v \in Worktrees \ {w} : journal[v] = None)
      /\ (HasModule(w) => claim[w] = j.tx)
      /\ \A f \in Files : Quiet(f) \/ \E c \in j.changed : f = File(w, c)
  BY AtWork
<1>2. IntentOK(w, i)'
  BY <1>1 DEF IntentOK
<1>3. Numbered' /\ NoEditLost' /\ \A f : Quiet(f) <=> Quiet(f)'
  BY SameNumbers
<1>4. (\A c \in Participants[w] : FileOK(w, i, c)') /\ PhaseOK(w, i)'
  BY SameStands
<1>5. op[p].pc # "idle"
  BY DEF Journalled, Staging, Applying
<1>6. UNCHANGED <<fresh, git>> /\ control' = {w}
  BY <1>1
<1>7. journal'[w] = i /\ \A v \in Worktrees \ {w} : journal'[v] = None
  BY <1>1 DEF IndInv, TypeOK
<1>8. (HasModule(w) => claim'[w] = i.tx)
      /\ \A f \in Files : Quiet(f)' \/ \E c \in i.changed : f = File(w, c)
  BY <1>1, <1>3
<1> QED BY <1>1, <1>2, <1>3, <1>4, <1>5, <1>6, <1>7, <1>8, KeepWork

\* Recording Ready keeps it: every after-image has been written.
LEMMA KeepMarkReady ==
  ASSUME IndInv, TypeOK', NEW p \in Procs, MarkReady(p)
  PROVE  IndInv'
<1>1. PICK o : o = op[p]
  OBVIOUS
<1>2. PICK w : w = o.wt
  OBVIOUS
<1>3. PICK j : j = o.seen
  OBVIOUS
<1>4. PICK i : i = [j EXCEPT !.phase = Ready]
  OBVIOUS
<1>5. PICK n : n = [[o EXCEPT !.seen = i] EXCEPT !.pc = "apply"]
  OBVIOUS
<1>6. o.pc = "ready" /\ o.pc \in Journalled /\ o.pc \in Staging
  BY <1>1 DEF MarkReady, Journalled, Staging
<1>7. /\ o \in ProcState /\ w \in Worktrees /\ StateOK(o)
      /\ journal[w] = j /\ j # None /\ IntentOK(w, j) /\ control = {w}
      /\ \A c \in Participants[w] : FileOK(w, j, c)
  BY <1>1, <1>2, <1>3, <1>6, AtWork
<1>8. StageOK(o) /\ j.phase = Planned /\ ~o.again /\ o.k = 1
  BY <1>3, <1>6, <1>7 DEF StateOK, StageOK
<1>9. /\ op' = [op EXCEPT ![p] = n] /\ holder' = holder
      /\ journal' = [journal EXCEPT ![w] = i]
      /\ UNCHANGED <<target, lock, private, control, claim, fresh, git, done>>
  BY <1>1, <1>2, <1>3, <1>4, <1>5 DEF MarkReady, Goto, count
<1>10. n.pc = "apply" /\ n.wt = w /\ n.seen = i /\ n.again = FALSE /\ n.k = 1
  BY <1>2, <1>5, <1>7, <1>8 DEF ProcState
<1>11. journal'[w] = i
  BY <1>7, <1>9 DEF IndInv, TypeOK
<1>12. /\ i.phase = Ready /\ i.tx = j.tx /\ i.before = j.before /\ i.changed = j.changed
       /\ i.url = j.url
  BY <1>4, <1>7 DEF IntentOK, Intent
<1>13. i \in Intent /\ i # None
  <2>1. i \in Intent
    BY <1>4, <1>7 DEF IntentOK, Intent, Ready, Planned, Applied
  <2> QED BY <2>1, AbsentAssumption
<1>14. ASSUME NEW c \in Participants[w] PROVE FileOK(w, i, c)
  <2>1. Planning(w, j, c)
    BY <1>7, <1>8 DEF FileOK, Planned, Ready
  <2>2. CASE c \in j.changed
    <3>1. PICK m \in 1 .. 3 : c = Order[m]
      BY <1>7, FileOfPart, Ordered
    <3>2. Images(j, File(w, c)) = {After(j, c)}
      BY <1>2, <1>3, <1>6, <1>8, <2>2, <3>1 DEF StageOK
    <3>3. Staged(w, i, c)
      BY <1>12, <2>1, <3>2 DEF Staged, Planning, Untouched, Images, After
    <3> QED BY <3>3, <1>12, <2>2 DEF FileOK, Publishing, Ready
  <2>3. CASE c \notin j.changed
    BY <1>12, <2>1, <2>3 DEF FileOK, Planning, Untouched
  <2> QED BY <2>2, <2>3
<1>15. PhaseOK(w, i)
  BY <1>12 DEF PhaseOK, Ready, Applied
<1>16. ApplyOK(n)'
  BY <1>10, <1>12 DEF ApplyOK, Ready
<1>17. StateOK(n)'
  BY <1>7, <1>10, <1>11, <1>13, <1>16 DEF StateOK, Drafting, Journalled, Staging, Applying
<1>18. Moves(p, n) /\ n.pc # "idle"
  BY <1>9, <1>10 DEF Moves
<1> QED BY <1>1, <1>2, <1>3, <1>6, <1>9, <1>12, <1>13, <1>14, <1>15, <1>17, <1>18, KeepPhase

\* Advancing the phase keeps it: the participant is out.
LEMMA KeepAdvance ==
  ASSUME IndInv, TypeOK', NEW p \in Procs, Advance(p)
  PROVE  IndInv'
<1>1. PICK o : o = op[p]
  OBVIOUS
<1>2. PICK w : w = o.wt
  OBVIOUS
<1>3. PICK j : j = o.seen
  OBVIOUS
<1>4. PICK k : k = o.k
  OBVIOUS
<1>5. PICK i : i = IF j.phase < Applied(k) THEN [j EXCEPT !.phase = Applied(k)] ELSE j
  OBVIOUS
<1>6. PICK n : n = IF k < 3 THEN [[[o EXCEPT !.seen = i] EXCEPT !.k = k + 1]
                                    EXCEPT !.pc = "apply"]
                   ELSE IF ~o.again
                     THEN [[[o EXCEPT !.seen = i] EXCEPT !.k = 1, !.again = TRUE]
                             EXCEPT !.pc = "apply"]
                     ELSE [[[o EXCEPT !.seen = i] EXCEPT !.k = 1] EXCEPT !.pc = "validate"]
  OBVIOUS
<1>7. o.pc = "advance" /\ o.pc \in Journalled /\ o.pc \in Applying
  BY <1>1 DEF Advance, Journalled, Applying
<1>8. /\ o \in ProcState /\ w \in Worktrees /\ StateOK(o) /\ k \in 1 .. 3
      /\ journal[w] = j /\ j # None /\ IntentOK(w, j) /\ control = {w}
      /\ (\A c \in Participants[w] : FileOK(w, j, c)) /\ PhaseOK(w, j)
  BY <1>1, <1>2, <1>3, <1>4, <1>7, AtWork
<1>9. /\ j.phase >= k /\ (o.again => j.phase = Applied(3))
      /\ Order[k] \in j.changed => Out(w, j, Order[k])
  BY <1>2, <1>3, <1>4, <1>7, <1>8 DEF StateOK, ApplyOK
<1>10. o.again \in BOOLEAN
  BY <1>8 DEF ProcState
<1>11. /\ op' = [op EXCEPT ![p] = n] /\ holder' = holder
       /\ journal' = [journal EXCEPT ![w] = i]
       /\ UNCHANGED <<target, lock, private, control, claim, fresh, git, done>>
  <2>1. o.again = op[p].again /\ [o EXCEPT !.seen = i].again = o.again
    BY <1>1, <1>8 DEF ProcState
  <2> QED BY <1>1, <1>2, <1>3, <1>4, <1>5, <1>6, <2>1 DEF Advance, Goto, count
<1>12. /\ n.wt = w /\ n.seen = i
       /\ \/ k < 3 /\ n.pc = "apply" /\ n.k = k + 1 /\ n.again = o.again
          \/ k = 3 /\ n.pc = "apply" /\ n.k = 1 /\ n.again = TRUE
          \/ k = 3 /\ n.pc = "validate"
  <2>1. PICK q : q = [o EXCEPT !.seen = i]
    OBVIOUS
  <2>2. /\ q = [q EXCEPT !.seen = i] /\ q.wt = w /\ q.seen = i /\ q.again = o.again
        /\ DOMAIN q = {"pc", "wt", "url", "k", "again", "recovering", "detached", "seen"}
    BY <1>2, <1>8, <2>1 DEF ProcState
  <2>3. CASE k < 3
    <3>1. n = [[q EXCEPT !.k = k + 1] EXCEPT !.pc = "apply"]
      BY <1>6, <2>1, <2>3
    <3> QED BY <2>2, <2>3, <3>1
  <2>4. CASE k = 3 /\ ~o.again
    <3>1. n = [[q EXCEPT !.k = 1, !.again = TRUE] EXCEPT !.pc = "apply"]
      BY <1>6, <2>1, <2>4
    <3> QED BY <2>2, <2>4, <3>1
  <2>5. CASE k = 3 /\ o.again
    <3>1. n = [[q EXCEPT !.k = 1] EXCEPT !.pc = "validate"]
      BY <1>6, <2>1, <2>5
    <3> QED BY <2>2, <2>5, <3>1
  <2>6. k < 3 \/ k = 3
    BY <1>8
  <2> QED BY <2>3, <2>4, <2>5, <2>6, Zenon
<1>13. journal'[w] = i
  BY <1>8, <1>11 DEF IndInv, TypeOK
<1>14. j.phase \in 0 .. 4
  BY <1>8 DEF IntentOK, Intent, Planned, Applied
<1>15. /\ i.phase = IF j.phase < k + 1 THEN k + 1 ELSE j.phase
       /\ i.tx = j.tx /\ i.before = j.before /\ i.changed = j.changed /\ i.url = j.url
  BY <1>5, <1>8 DEF IntentOK, Intent, Applied
<1>16. i \in Intent /\ i # None
  <2>1. i \in Intent
    BY <1>5, <1>8 DEF IntentOK, Intent, Planned, Applied
  <2> QED BY <2>1, AbsentAssumption
<1>17. \A c \in Participants[w] : FileOK(w, i, c)
  <2>1. j.phase >= Ready /\ i.phase >= Ready
    BY <1>8, <1>9, <1>14, <1>15 DEF Ready
  <2> QED BY <1>8, <1>15, <2>1 DEF FileOK, Publishing, Planning, Staged, Locked, Displaced,
             Out, Untouched, Images, After
<1>18. PhaseOK(w, i)
  <2>1. ASSUME NEW m \in 1 .. 3, i.phase >= Applied(m), Order[m] \in i.changed
        PROVE  Out(w, i, Order[m])
    <3>1. m = k \/ j.phase >= Applied(m)
      BY <1>8, <1>9, <1>14, <1>15, <2>1 DEF Applied
    <3>2. Out(w, j, Order[m])
      BY <1>8, <1>9, <1>15, <2>1, <3>1 DEF PhaseOK
    <3> QED BY <1>15, <3>2 DEF Out, Images, After
  <2> QED BY <2>1 DEF PhaseOK
<1>19. n.pc = "apply" => ApplyOK(n)'
  BY <1>8, <1>9, <1>12, <1>14, <1>15 DEF ApplyOK, Applied
<1>20. n.pc = "validate" => i.phase = Applied(3)
  BY <1>8, <1>9, <1>12, <1>14, <1>15 DEF Applied
<1>21. StateOK(n)'
  BY <1>8, <1>12, <1>13, <1>16, <1>19, <1>20 DEF StateOK, Drafting, Journalled, Staging, Applying
<1>22. Moves(p, n) /\ n.pc # "idle"
  BY <1>11, <1>12 DEF Moves
<1> QED BY <1>1, <1>2, <1>3, <1>7, <1>11, <1>15, <1>16, <1>17, <1>18, <1>21, <1>22, KeepPhase

\* Validating the configurations keeps it.
LEMMA KeepValidate ==
  ASSUME IndInv, TypeOK', NEW p \in Procs, Validate(p)
  PROVE  IndInv'
<1>1. PICK o : o = op[p]
  OBVIOUS
<1>2. PICK n : n = [o EXCEPT !.pc = "retire"]
  OBVIOUS
<1>3. o.pc = "validate" /\ o.pc \in Journalled
  BY <1>1 DEF Validate, Journalled
<1>4. PICK w : w = o.wt
  OBVIOUS
<1>5. PICK j : j = o.seen
  OBVIOUS
<1>6. /\ o \in ProcState /\ w \in Worktrees /\ StateOK(o) /\ journal[w] = j /\ j # None
  BY <1>1, <1>3, <1>4, <1>5, AtWork
<1>7. n.pc = "retire" /\ n.wt = w /\ n.seen = j
  BY <1>2, <1>4, <1>5, <1>6 DEF ProcState
<1>8. op' = [op EXCEPT ![p] = n] /\ holder' = holder /\ UNCHANGED <<disk, fresh, git, done>>
  BY <1>1, <1>2 DEF Validate, Goto, count
<1>9. j.phase = Applied(3)
  BY <1>3, <1>5, <1>6 DEF StateOK
<1>10. StateOK(n)'
  BY <1>6, <1>7, <1>8, <1>9 DEF StateOK, Drafting, Journalled, Staging, Applying, disk
<1> QED BY <1>1, <1>3, <1>7, <1>8, <1>10, KeepMove

\* Retiring the journal keeps it: nothing of the transaction is left to publish.
LEMMA KeepRetire ==
  ASSUME IndInv, TypeOK', NEW p \in Procs, Retire(p)
  PROVE  IndInv'
<1>1. PICK o : o = op[p]
  OBVIOUS
<1>2. PICK n : n = [o EXCEPT !.pc = "unclaim"]
  OBVIOUS
<1>3. PICK w : w = o.wt
  OBVIOUS
<1>4. PICK j : j = o.seen
  OBVIOUS
<1>5. o.pc = "retire" /\ o.pc \in Journalled
  BY <1>1 DEF Retire, Journalled
<1>6. /\ o \in ProcState /\ w \in Worktrees /\ StateOK(o) /\ control = {w} /\ IntentOK(w, j)
      /\ (\A v \in Worktrees \ {w} : journal[v] = None)
      /\ (\A c \in Participants[w] : FileOK(w, j, c)) /\ PhaseOK(w, j)
      /\ \A f \in Files : Quiet(f) \/ \E c \in j.changed : f = File(w, c)
  BY <1>1, <1>3, <1>4, <1>5, AtWork
<1>7. n.pc = "unclaim" /\ n.wt = w
  BY <1>2, <1>3, <1>6 DEF ProcState
<1>8. /\ op' = [op EXCEPT ![p] = n] /\ holder' = holder
      /\ journal' = [journal EXCEPT ![w] = None] /\ control' = {}
      /\ UNCHANGED <<target, lock, private, claim, fresh, git, done>>
  BY <1>1, <1>2, <1>3, <1>6 DEF Retire, Goto, count
<1>9. StateOK(n)'
  BY <1>6, <1>7, <1>8 DEF StateOK, Drafting, Journalled, Staging, Applying
<1>10. Processes' /\ \A q \in Procs : op'[q].pc # "idle" <=> holder' = q
  BY <1>1, <1>5, <1>7, <1>8, <1>9, KeepProcesses DEF Moves
<1>11. Numbered' /\ NoEditLost' /\ \A f : Quiet(f) <=> Quiet(f)'
  BY <1>8, SameNumbers
<1>12. \A v \in Worktrees : journal'[v] = None
  BY <1>6, <1>8 DEF IndInv, TypeOK
<1>13. ASSUME NEW f \in Files PROVE Quiet(f)
  <2>1. CASE \E c \in j.changed : f = File(w, c)
    <3>1. PICK c \in j.changed : f = File(w, c)
      BY <2>1
    <3>2. c \in Participants[w] /\ c \in Parts
      BY <1>6, <3>1, FileOfPart DEF IntentOK
    <3>3. j.phase \in {Planned, Applied(3)}
      BY <1>4, <1>5, <1>6 DEF StateOK
    <3>4. CASE j.phase = Planned
      BY <1>6, <3>1, <3>2, <3>4 DEF FileOK, Planning, Planned, Ready
    <3>5. CASE j.phase = Applied(3)
      <4>1. PICK i \in 1 .. 3 : c = Order[i]
        BY <3>2, Ordered
      <4>2. Out(w, j, c)
        BY <1>6, <3>1, <3>5, <4>1 DEF PhaseOK, Applied
      <4> QED BY <3>1, <4>2 DEF Out
    <3> QED BY <3>3, <3>4, <3>5
  <2> QED BY <1>6, <2>1
<1>14. Journals'
  BY <1>8, <1>11, <1>12, <1>13 DEF IndInv, Journals
<1>15. Exclusive'
  BY <1>8, <1>10 DEF Exclusive
<1> QED BY <1>10, <1>11, <1>14, <1>15 DEF IndInv

\* Cancelling the caller of a file operation keeps it.
LEMMA KeepCancel ==
  ASSUME IndInv, TypeOK', NEW p \in Procs, Cancel(p)
  PROVE  IndInv'
<1>1. PICK o : o = op[p]
  OBVIOUS
<1>2. PICK n : n = [o EXCEPT !.detached = TRUE]
  OBVIOUS
<1>3. op' = [op EXCEPT ![p] = n] /\ holder' = holder /\ UNCHANGED <<disk, fresh, git, done>>
  BY <1>1, <1>2 DEF Cancel, IndInv, TypeOK
<1>4. o \in ProcState /\ StateOK(o) /\ o.pc \in Journalled
  BY <1>1, OpType DEF IndInv, Processes, Cancel, Working, Journalled, Staging, Applying
<1>5. /\ n.pc = o.pc /\ n.wt = o.wt /\ n.url = o.url /\ n.k = o.k /\ n.again = o.again
      /\ n.seen = o.seen
  BY <1>2, <1>4 DEF ProcState
<1>6. UNCHANGED <<target, lock, private, git>>
  BY <1>3 DEF disk
<1>7. StateOK(n)'
  <2>1. o.pc \notin {"idle", "check", "plan", "unclaim"} \cup Drafting
    BY <1>4 DEF Drafting, Journalled, Staging, Applying
  <2>2. StageOK(o) => StageOK(n)'
    BY <1>5, <1>6, SameStands DEF StageOK
  <2>3. ApplyOK(o) => ApplyOK(n)'
    BY <1>5, <1>6, SameStands DEF ApplyOK
  <2> QED BY <1>3, <1>4, <1>5, <2>1, <2>2, <2>3 DEF StateOK, disk, Drafting
<1> QED BY <1>1, <1>3, <1>4, <1>5, <1>7, KeepMove DEF Journalled, Staging, Applying

\* A step that publishes the k-th participant: its file stands for a
\* publication still, and every other file is left alone.
LEMMA KeepPublish ==
  ASSUME IndInv, TypeOK', NEW p \in Procs, NEW o, o = op[p], o.pc \in Journalled,
         NEW w, w = o.wt, NEW j, j = o.seen, NEW k, k = o.k, j.phase >= Ready,
         NEW c, c = Order[k], c \in j.changed, NEW f, f = File(w, c),
         \A g \in Files \ {f} : /\ target'[g] = target[g] /\ lock'[g] = lock[g]
                                /\ private'[g] = private[g],
         Publishing(w, j, c)', j.phase >= Applied(k) => Out(w, j, c)',
         target'[f] \in {target[f], lock[f]}, target'[f].edits = target[f].edits,
         target'[f].id \in git => target'[f].id \in target'[f].edits,
         lock'[f] \in {None, target[f], lock[f], After(j, c)},
         private'[f] \subseteq private[f],
         NEW n, Moves(p, n), n.pc # "idle", StateOK(n)',
         UNCHANGED <<control, journal, claim, fresh, git, done>>
  PROVE  IndInv'
<1>1. /\ w \in Worktrees /\ k \in 1 .. 3 /\ control = {w} /\ IntentOK(w, j)
      /\ journal[w] = j /\ (\A v \in Worktrees \ {w} : journal[v] = None)
      /\ (HasModule(w) => claim[w] = j.tx)
      /\ (\A d \in Participants[w] : FileOK(w, j, d)) /\ PhaseOK(w, j)
      /\ \A g \in Files : Quiet(g) \/ \E d \in j.changed : g = File(w, d)
  BY AtWork
<1>2. j.changed \subseteq Participants[w] /\ c \in Participants[w] /\ f \in Files
  BY <1>1, FileOfPart DEF IntentOK
<1>3. ASSUME NEW d \in Participants[w], d # c
      PROVE  /\ target'[File(w, d)] = target[File(w, d)]
             /\ lock'[File(w, d)] = lock[File(w, d)]
             /\ private'[File(w, d)] = private[File(w, d)]
  BY <1>1, <1>3, FileOfPart
<1>4. ASSUME NEW d \in Participants[w] PROVE FileOK(w, j, d)'
  <2>1. CASE d = c
    BY <2>1 DEF FileOK
  <2>2. CASE d # c
    BY <1>1, <1>3, <2>2, Frame DEF FileOK, Publishing
  <2> QED BY <2>1, <2>2
<1>5. ASSUME NEW i \in 1 .. 3, j.phase >= Applied(i), Order[i] \in j.changed
      PROVE  Out(w, j, Order[i])'
  <2>1. CASE i = k
    BY <1>5, <2>1
  <2>2. CASE i # k
    <3>1. Order[i] # c /\ Order[i] \in Participants[w]
      BY <1>1, <1>2, <1>5, <2>2, Ordered
    <3>2. Out(w, j, Order[i])
      BY <1>1, <1>5 DEF PhaseOK
    <3> QED BY <1>3, <3>1, <3>2, Frame
  <2> QED BY <2>1, <2>2
<1>6. PhaseOK(w, j)'
  BY <1>5 DEF PhaseOK
<1>7. IntentOK(w, j)'
  BY <1>1 DEF IntentOK
<1>8. \A g \in Files : Quiet(g)' \/ \E d \in j.changed : g = File(w, d)
  <2>1. ASSUME NEW g \in Files, g # f PROVE Quiet(g) => Quiet(g)'
    BY <2>1 DEF Quiet, GitHolds
  <2> QED BY <1>1, <2>1
<1>9. /\ target[f].id <= fresh /\ target[f].edits \subseteq 0 .. fresh
      /\ lock[f] # None => lock[f].id <= fresh
      /\ \A i \in private[f] : i.id <= fresh
  BY <1>2 DEF IndInv, Numbered
<1>10. After(j, c).id <= fresh
  BY <1>1 DEF After, IntentOK
<1>11. target'[f] # None
  BY <1>2, AbsentAssumption DEF TypeOK
<1>12. /\ target'[f].id <= fresh /\ target'[f].edits \subseteq 0 .. fresh
       /\ lock'[f] # None => lock'[f].id <= fresh
       /\ \A i \in private'[f] : i.id <= fresh
  BY <1>9, <1>10, <1>11
<1>13. Numbered'
  BY <1>12 DEF IndInv, Numbered
<1>14. NoEditLost'
  BY DEF IndInv, NoEditLost
<1>15. op[p].pc # "idle"
  BY DEF Journalled, Staging, Applying
<1>16. /\ journal'[w] = j /\ control' = {w} /\ \A v \in Worktrees \ {w} : journal'[v] = None
       /\ (HasModule(w) => claim'[w] = j.tx)
  BY <1>1
<1> QED BY <1>1, <1>4, <1>6, <1>7, <1>8, <1>13, <1>14, <1>15, <1>16, KeepWork

\* What the intent says of a participant it changes.
LEMMA Participant ==
  ASSUME IndInv, NEW w \in Worktrees, NEW j, IntentOK(w, j), NEW c \in j.changed
  PROVE  /\ c \in Participants[w] /\ File(w, c) \in Files
         /\ j.before[c] \in Image /\ After(j, c) \in Image
         /\ j.before[c] # None /\ After(j, c) # None
         /\ j.before[c].id # j.tx /\ After(j, c).id = j.tx
         /\ After(j, c).edits = j.before[c].edits
         /\ After(j, c) # j.before[c] /\ j.tx \notin git
         /\ target[File(w, c)] \in Image
<1>1. c \in Participants[w] /\ File(w, c) \in Files
  BY FileOfPart DEF IntentOK
<1>2. j.before[c] \in Image /\ After(j, c) \in Image
  BY <1>1, AfterType DEF IntentOK, Intent
<1>3. j.before[c].id # j.tx
  BY <1>1, <1>2 DEF IntentOK, Intent, Image, Ids
<1>4. After(j, c).id = j.tx /\ After(j, c).edits = j.before[c].edits
  BY DEF After
<1>5. target[File(w, c)] \in Image
  BY <1>1 DEF IndInv, TypeOK
<1> QED BY <1>1, <1>2, <1>3, <1>4, <1>5, AbsentAssumption DEF IntentOK

\* The exchange of after-image and target keeps it.
LEMMA KeepSwap ==
  ASSUME IndInv, TypeOK', NEW p \in Procs, Swap(p)
  PROVE  IndInv'
<1>1. PICK o : o = op[p]
  OBVIOUS
<1>2. PICK n : n = [o EXCEPT !.pc = "unlock"]
  OBVIOUS
<1>3. PICK w : w = o.wt
  OBVIOUS
<1>4. PICK j : j = o.seen
  OBVIOUS
<1>5. PICK k : k = o.k
  OBVIOUS
<1>6. PICK c : c = Order[k]
  OBVIOUS
<1>7. PICK f : f = File(w, c)
  OBVIOUS
<1>8. o.pc = "swap" /\ o.pc \in Journalled /\ o.pc \in Applying
  BY <1>1 DEF Swap, Journalled, Applying
<1>9. /\ o \in ProcState /\ w \in Worktrees /\ StateOK(o) /\ k \in 1 .. 3
      /\ journal[w] = j /\ j # None /\ IntentOK(w, j) /\ PhaseOK(w, j)
  BY <1>1, <1>3, <1>4, <1>5, <1>8, AtWork
<1>10. /\ j.phase >= k /\ (o.again => j.phase = Applied(3))
       /\ c \in j.changed /\ Locked(w, j, c)
  BY <1>3, <1>4, <1>5, <1>6, <1>8, <1>9 DEF StateOK, ApplyOK
<1>11. n.pc = "unlock" /\ n.wt = w /\ n.seen = j /\ n.k = k /\ n.again = o.again
  BY <1>2, <1>3, <1>4, <1>5, <1>9 DEF ProcState
<1>12. /\ op' = [op EXCEPT ![p] = n] /\ holder' = holder
       /\ target' = [target EXCEPT ![f] = After(j, c)]
       /\ lock' = [lock EXCEPT ![f] = target[f]]
       /\ UNCHANGED <<private, control, journal, claim, fresh, git, done>>
  BY <1>1, <1>2, <1>3, <1>4, <1>5, <1>6, <1>7 DEF Swap, Goto, count, Here, Part, Published
<1>13. /\ f \in Files /\ j.before[c] # None /\ After(j, c) # None /\ After(j, c).id = j.tx
       /\ After(j, c).edits = j.before[c].edits /\ j.tx \notin git
  BY <1>7, <1>9, <1>10, Participant
<1>14. target'[f] = After(j, c) /\ lock'[f] = target[f]
       /\ \A g \in Files \ {f} : target'[g] = target[g] /\ lock'[g] = lock[g]
  BY <1>12, <1>13 DEF IndInv, TypeOK
<1>15. target[f] = j.before[c] /\ lock[f] = After(j, c) /\ Images(j, f) = {}
  BY <1>7, <1>10 DEF Locked
<1>16. Displaced(w, j, c)'
  BY <1>7, <1>12, <1>14, <1>15 DEF Displaced, Images
<1>17. ~(j.phase >= Applied(k))
  <2>1. ~Out(w, j, c)
    BY <1>7, <1>13, <1>15 DEF Out, Quiet, GitHolds
  <2> QED BY <1>6, <1>9, <1>10, <2>1 DEF PhaseOK
<1>18. j.phase >= Ready
  BY <1>9, <1>10 DEF Ready, IntentOK, Intent, Planned, Applied
<1>19. ApplyOK(n)'
  BY <1>6, <1>10, <1>11, <1>16 DEF ApplyOK
<1>20. StateOK(n)'
  BY <1>9, <1>11, <1>12, <1>19 DEF StateOK, Drafting, Journalled, Staging, Applying
<1>21. Moves(p, n) /\ n.pc # "idle" /\ Publishing(w, j, c)'
  BY <1>11, <1>12, <1>16 DEF Moves, Publishing
<1>22. /\ target'[f] \in {target[f], lock[f]} /\ target'[f].edits = target[f].edits
       /\ target'[f].id \notin git /\ lock'[f] \in {None, target[f], lock[f], After(j, c)}
       /\ private' = private
  BY <1>12, <1>13, <1>14, <1>15
<1> QED BY <1>1, <1>3, <1>4, <1>5, <1>6, <1>7, <1>8, <1>10, <1>12, <1>14, <1>17, <1>18, <1>20,
           <1>21, <1>22, KeepPublish

\* Removing the displaced file keeps it.
LEMMA KeepUnlock ==
  ASSUME IndInv, TypeOK', NEW p \in Procs, Unlock(p)
  PROVE  IndInv'
<1>1. PICK o : o = op[p]
  OBVIOUS
<1>2. PICK n : n = [o EXCEPT !.pc = "advance"]
  OBVIOUS
<1>3. PICK w : w = o.wt
  OBVIOUS
<1>4. PICK j : j = o.seen
  OBVIOUS
<1>5. PICK k : k = o.k
  OBVIOUS
<1>6. PICK c : c = Order[k]
  OBVIOUS
<1>7. PICK f : f = File(w, c)
  OBVIOUS
<1>8. o.pc = "unlock" /\ o.pc \in Journalled /\ o.pc \in Applying
  BY <1>1 DEF Unlock, Journalled, Applying
<1>9. /\ o \in ProcState /\ w \in Worktrees /\ StateOK(o) /\ k \in 1 .. 3
      /\ journal[w] = j /\ j # None /\ IntentOK(w, j)
  BY <1>1, <1>3, <1>4, <1>5, <1>8, AtWork
<1>10. /\ j.phase >= k /\ (o.again => j.phase = Applied(3))
       /\ c \in j.changed /\ (Displaced(w, j, c) \/ Out(w, j, c))
  BY <1>3, <1>4, <1>5, <1>6, <1>8, <1>9 DEF StateOK, ApplyOK
<1>11. n.pc = "advance" /\ n.wt = w /\ n.seen = j /\ n.k = k /\ n.again = o.again
  BY <1>2, <1>3, <1>4, <1>5, <1>9 DEF ProcState
<1>12. /\ Moves(p, n) /\ lock' = [lock EXCEPT ![f] = None]
       /\ UNCHANGED <<target, private, control, journal, claim, fresh, git, done>>
  BY <1>1, <1>2, <1>3, <1>5, <1>6, <1>7, WorkedMoves DEF Unlock, count, Here, Part
<1>13. f \in Files
  BY <1>7, <1>9, <1>10, Participant
<1>14. lock'[f] = None /\ \A g \in Files \ {f} : lock'[g] = lock[g]
  BY <1>12, <1>13 DEF IndInv, TypeOK
<1>15. Out(w, j, c)'
  BY <1>7, <1>10, <1>12, <1>14 DEF Out, Displaced, Images, Quiet
<1>16. j.phase >= Ready
  BY <1>9, <1>10 DEF Ready, IntentOK, Intent, Planned, Applied
<1>17. ApplyOK(n)'
  BY <1>6, <1>10, <1>11, <1>15 DEF ApplyOK
<1>18. StateOK(n)'
  BY <1>9, <1>11, <1>12, <1>17 DEF StateOK, Drafting, Journalled, Staging, Applying
<1>19. n.pc # "idle" /\ Publishing(w, j, c)'
  BY <1>11, <1>15 DEF Publishing
<1>20. target[f].id \in git => target[f].id \in target[f].edits
  BY <1>13 DEF IndInv, Numbered
<1> QED BY <1>1, <1>3, <1>4, <1>5, <1>6, <1>7, <1>8, <1>10, <1>12, <1>14, <1>15, <1>16, <1>18,
           <1>19, <1>20, KeepPublish

\* Moving the after-image to the lock name, or recognising where it is, keeps it.
LEMMA KeepApply ==
  ASSUME IndInv, TypeOK', NEW p \in Procs, Apply(p)
  PROVE  IndInv'
<1>1. PICK o : o = op[p]
  OBVIOUS
<1>2. PICK w : w = o.wt
  OBVIOUS
<1>3. PICK j : j = o.seen
  OBVIOUS
<1>4. PICK k : k = o.k
  OBVIOUS
<1>5. PICK c : c = Order[k]
  OBVIOUS
<1>6. PICK f : f = File(w, c)
  OBVIOUS
<1>7. o.pc = "apply" /\ o.pc \in Journalled /\ o.pc \in Applying
  BY <1>1 DEF Apply, Journalled, Applying
<1>8. /\ o \in ProcState /\ w \in Worktrees /\ StateOK(o) /\ k \in 1 .. 3
      /\ journal[w] = j /\ j # None /\ IntentOK(w, j) /\ PhaseOK(w, j)
      /\ \A d \in Participants[w] : FileOK(w, j, d)
  BY <1>1, <1>2, <1>3, <1>4, <1>7, AtWork
<1>9. j.phase >= k /\ (o.again => j.phase = Applied(3))
  BY <1>3, <1>4, <1>7, <1>8 DEF StateOK, ApplyOK
<1>10. j.phase >= Ready
  BY <1>8, <1>9 DEF Ready, IntentOK, Intent, Planned, Applied
<1>11. Changes(p) <=> c \in j.changed
  BY <1>1, <1>2, <1>3, <1>4, <1>5, <1>8 DEF Changes, Joins, Part, IntentOK
<1>12. UNCHANGED <<target, control, journal, claim, fresh, git, done>>
  BY DEF Apply, count
<1>13. CASE c \notin j.changed
  <2>1. PICK n : n = [o EXCEPT !.pc = "advance"]
    OBVIOUS
  <2>2. Moves(p, n) /\ UNCHANGED <<lock, private>>
    BY <1>1, <1>11, <1>13, <2>1, WorkedMoves DEF Apply
  <2>3. n.pc = "advance" /\ n.wt = w /\ n.seen = j /\ n.k = k /\ n.again = o.again
    BY <1>2, <1>3, <1>4, <1>8, <2>1 DEF ProcState
  <2>4. ApplyOK(n)'
    BY <1>5, <1>9, <1>13, <2>3 DEF ApplyOK
  <2>5. StateOK(n)'
    BY <1>8, <1>12, <2>3, <2>4 DEF StateOK, Drafting, Journalled, Staging, Applying
  <2>6. journal' = [journal EXCEPT ![w] = j]
    BY <1>8, <1>12 DEF IndInv, TypeOK
  <2>7. j \in Intent
    BY <1>8 DEF IntentOK
  <2> QED BY <1>1, <1>2, <1>3, <1>7, <1>8, <1>12, <2>2, <2>3, <2>5, <2>6, <2>7, KeepPhase
<1>14. CASE c \in j.changed
  <2>1. /\ f \in Files /\ j.before[c] # None /\ After(j, c) # None /\ After(j, c).id = j.tx
        /\ After(j, c) # j.before[c] /\ j.tx \notin git
    BY <1>6, <1>8, <1>14, Participant
  <2>2. Part(p) = c /\ Here(p) = f /\ Before(p) = j.before[c] /\ Published(p) = After(j, c)
    BY <1>1, <1>2, <1>3, <1>4, <1>5, <1>6 DEF Here, Part, Before, Published
  <2>3. Publishing(w, j, c)
    BY <1>8, <1>10, <1>14 DEF FileOK, IntentOK
  <2>4. After(j, c) \in private[f] => Images(j, f) # {}
    BY <2>1 DEF Images
  <2>5. j.phase >= Applied(k) => Out(w, j, c)
    BY <1>5, <1>8, <1>14 DEF PhaseOK
  <2>6. target[f].id \in git => target[f].id \in target[f].edits
    BY <2>1 DEF IndInv, Numbered
  <2>7. CASE AtPrivate(p)
    <3>1. PICK n : n = [o EXCEPT !.pc = "swap"]
      OBVIOUS
    <3>2. /\ target[f] = j.before[c] /\ After(j, c) \in private[f] /\ lock[f] = None
      BY <2>2, <2>7 DEF AtPrivate
    <3>3. /\ lock' = [lock EXCEPT ![f] = After(j, c)]
          /\ private' = [private EXCEPT ![f] = @ \ {After(j, c)}]
          /\ op' = [op EXCEPT ![p] = n] /\ holder' = holder
      BY <1>1, <1>11, <1>14, <2>1, <2>2, <2>7, <3>1, <3>2 DEF Apply, Goto, AtTarget
    <3>4. n.pc = "swap" /\ n.wt = w /\ n.seen = j /\ n.k = k /\ n.again = o.again
      BY <1>2, <1>3, <1>4, <1>8, <3>1 DEF ProcState
    <3>5. Staged(w, j, c)
      BY <1>6, <2>3, <2>4, <3>2 DEF Publishing, Locked, Displaced, Out
    <3>6. /\ lock'[f] = After(j, c) /\ private'[f] = private[f] \ {After(j, c)}
          /\ \A g \in Files \ {f} : lock'[g] = lock[g] /\ private'[g] = private[g]
      BY <2>1, <3>3 DEF IndInv, TypeOK
    <3>7. Locked(w, j, c)'
      BY <1>6, <1>12, <3>2, <3>5, <3>6 DEF Locked, Staged, Images
    <3>8. ~Out(w, j, c)
      BY <1>6, <2>4, <3>2 DEF Out
    <3>9. ApplyOK(n)'
      BY <1>5, <1>9, <1>14, <3>4, <3>7 DEF ApplyOK
    <3>10. StateOK(n)'
      BY <1>8, <1>12, <3>4, <3>9 DEF StateOK, Drafting, Journalled, Staging, Applying
    <3>11. Moves(p, n) /\ n.pc # "idle" /\ Publishing(w, j, c)'
      BY <3>3, <3>4, <3>7 DEF Moves, Publishing
    <3> QED BY <1>1, <1>2, <1>3, <1>4, <1>5, <1>6, <1>7, <1>10, <1>12, <1>14, <2>5, <2>6,
               <3>6, <3>8, <3>10, <3>11, KeepPublish
  <2>8. CASE ~AtPrivate(p)
    <3>1. UNCHANGED <<lock, private>> /\ (AtLock(p) \/ AtTarget(p))
      BY <1>11, <1>14, <2>8 DEF Apply, CanApply
    <3>2. Publishing(w, j, c)' /\ (Out(w, j, c) => Out(w, j, c)')
      BY <1>6, <1>12, <2>3, <3>1, Frame DEF Publishing
    <3>3. CASE AtTarget(p)
      <4>1. PICK n : n = [o EXCEPT !.pc = "unlock"]
        OBVIOUS
      <4>2. op' = [op EXCEPT ![p] = n] /\ holder' = holder
        BY <1>1, <1>11, <1>14, <3>3, <4>1 DEF Apply, Goto
      <4>3. n.pc = "unlock" /\ n.wt = w /\ n.seen = j /\ n.k = k /\ n.again = o.again
        BY <1>2, <1>3, <1>4, <1>8, <4>1 DEF ProcState
      <4>4. target[f] = After(j, c) /\ After(j, c) \notin private[f]
        BY <2>2, <3>3 DEF AtTarget
      <4>5. Displaced(w, j, c) \/ Out(w, j, c)
        BY <1>6, <2>1, <2>3, <4>4 DEF Publishing, Staged, Locked, Images
      <4>6. Displaced(w, j, c)' \/ Out(w, j, c)'
        BY <1>6, <1>12, <3>1, <4>5, Frame
      <4>7. ApplyOK(n)'
        BY <1>5, <1>9, <1>14, <4>3, <4>6 DEF ApplyOK
      <4>8. StateOK(n)'
        BY <1>8, <1>12, <4>3, <4>7 DEF StateOK, Drafting, Journalled, Staging, Applying
      <4>9. Moves(p, n) /\ n.pc # "idle"
        BY <4>2, <4>3 DEF Moves
      <4> QED BY <1>1, <1>2, <1>3, <1>4, <1>5, <1>6, <1>7, <1>10, <1>12, <1>14, <2>5, <2>6,
                 <3>1, <3>2, <4>8, <4>9, KeepPublish
    <3>4. CASE ~AtTarget(p)
      <4>1. PICK n : n = [o EXCEPT !.pc = "swap"]
        OBVIOUS
      <4>2. op' = [op EXCEPT ![p] = n] /\ holder' = holder
        BY <1>1, <1>11, <1>14, <3>4, <4>1 DEF Apply, Goto
      <4>3. n.pc = "swap" /\ n.wt = w /\ n.seen = j /\ n.k = k /\ n.again = o.again
        BY <1>2, <1>3, <1>4, <1>8, <4>1 DEF ProcState
      <4>4. target[f] = j.before[c] /\ lock[f] = After(j, c)
        BY <2>2, <3>1, <3>4 DEF AtLock
      <4>5. Locked(w, j, c)
        BY <1>6, <2>1, <2>3, <4>4 DEF Publishing, Staged, Displaced, Out, Quiet, GitHolds
      <4>6. Locked(w, j, c)'
        BY <1>6, <1>12, <3>1, <4>5, Frame
      <4>7. ApplyOK(n)'
        BY <1>5, <1>9, <1>14, <4>3, <4>6 DEF ApplyOK
      <4>8. StateOK(n)'
        BY <1>8, <1>12, <4>3, <4>7 DEF StateOK, Drafting, Journalled, Staging, Applying
      <4>9. Moves(p, n) /\ n.pc # "idle"
        BY <4>2, <4>3 DEF Moves
      <4> QED BY <1>1, <1>2, <1>3, <1>4, <1>5, <1>6, <1>7, <1>10, <1>12, <1>14, <2>5, <2>6,
                 <3>1, <3>2, <4>8, <4>9, KeepPublish
    <3> QED BY <3>3, <3>4
  <2> QED BY <2>7, <2>8
<1> QED BY <1>13, <1>14

-----------------------------------------------------------------------------
(* The other writers *)

\* A worktree whose transaction, with a journal or without, is j.
Pends(w, j) ==
  \/ journal[w] = j /\ j # None
  \/ \E p \in Procs : op[p].wt = w /\ op[p].seen = j /\ op[p].pc \in Drafting

\* A pending transaction is as the journal invariant says.
LEMMA PendsOK ==
  ASSUME IndInv, NEW w \in Worktrees, NEW j, Pends(w, j)
  PROVE  IntentOK(w, j)
<1>1. CASE journal[w] = j /\ j # None
  BY <1>1 DEF IndInv, Journals, JournalOK
<1>2. ASSUME NEW p \in Procs, op[p].wt = w, op[p].seen = j, op[p].pc \in Drafting
      PROVE  IntentOK(w, j)
  BY <1>2, SeenIntent DEF IndInv
<1> QED BY <1>1, <1>2 DEF Pends

\* The file of a participant of a pending transaction stands where it stood.
Stands(w, j, c) ==
  /\ Planning(w, j, c) => Planning(w, j, c)'
  /\ Staged(w, j, c) => Staged(w, j, c)'
  /\ Locked(w, j, c) => Locked(w, j, c)'
  /\ Displaced(w, j, c) => Displaced(w, j, c)'
  /\ Out(w, j, c) => Out(w, j, c)'

\* A step of another writer that leaves every pending transaction standing.
LEMMA KeepOthers ==
  ASSUME IndInv, TypeOK', UNCHANGED <<private, control, journal, claim, holder, op>>,
         fresh <= fresh', git \subseteq git', git' \subseteq 1 .. fresh',
         \A i \in git' : i \in git \/ i > fresh,
         \A w \in Worktrees : \A j : Pends(w, j) =>
           \A c \in Participants[w] : Stands(w, j, c),
         \A f \in Files :
           \/ Quiet(f)'
           \/ \E w \in Worktrees : journal[w] # None /\ \E c \in journal[w].changed : f = File(w, c),
         Numbered', NoEditLost'
  PROVE  IndInv'
<1>1. Exclusive'
  BY DEF IndInv, Exclusive
<1>2. \A j, f : Images(j, f)' = Images(j, f)
  BY DEF Images
<1>3. ASSUME NEW w \in Worktrees, NEW j, Pends(w, j) PROVE IntentOK(w, j)'
  BY <1>3, PendsOK, IntentFrame DEF IndInv
<1>4. ASSUME NEW w \in Worktrees, journal'[w] # None PROVE JournalOK(w)'
  <2>1. PICK j : j = journal[w]
    OBVIOUS
  <2>2. Pends(w, j) /\ JournalOK(w)
    BY <1>4, <2>1 DEF Pends, IndInv, Journals
  <2>3. IntentOK(w, j)' /\ IntentOK(w, j)
    BY <1>3, <2>1, <2>2 DEF JournalOK
  <2>4. \A c \in Participants[w] : Stands(w, j, c)
    BY <2>2
  <2>5. \A c \in Participants[w] : FileOK(w, j, c)'
    BY <2>1, <2>2, <2>4 DEF Stands, JournalOK, FileOK, Publishing
  <2>6. \A i \in 1 .. 3 : j.phase >= Applied(i) /\ Order[i] \in j.changed
          => Out(w, j, Order[i])'
    BY <2>1, <2>2, <2>3, <2>4 DEF Stands, JournalOK, PhaseOK, IntentOK
  <2>7. PhaseOK(w, j)'
    BY <2>6 DEF PhaseOK
  <2>8. w \in control' /\ (HasModule(w) => claim'[w] = j.tx) /\ journal'[w] = j
    BY <2>1, <2>2 DEF JournalOK
  <2> QED BY <2>3, <2>5, <2>7, <2>8, JournalNext
<1>5. Journals'
  BY <1>4 DEF Journals
<1>6. ASSUME NEW p \in Procs PROVE StateOK(op[p])'
  <2>1. PICK o : o = op[p]
    OBVIOUS
  <2>2. StateOK(o)
    BY <2>1 DEF IndInv, Processes
  <2>3. ASSUME o.pc \in Drafting PROVE DraftOK(o)'
    <3>1. Pends(o.wt, o.seen) /\ DraftOK(o) /\ o.wt \in Worktrees
      BY <2>1, <2>2, <2>3 DEF Pends, StateOK, Drafting
    <3>2. IntentOK(o.wt, o.seen)'
      BY <1>3, <3>1
    <3>3. \A c \in Participants[o.wt] : Planning(o.wt, o.seen, c)'
      BY <3>1 DEF Stands, DraftOK
    <3> QED BY <1>2, <3>1, <3>2, <3>3 DEF DraftOK, HasModule
  <2>4. ASSUME o.pc \in Staging PROVE StageOK(o)'
    BY <1>2, <2>2, <2>4 DEF StateOK, StageOK
  <2>5. ASSUME o.pc \in Applying PROVE ApplyOK(o)'
    <3>1. o.pc \in Journalled
      BY <2>5 DEF Journalled
    <3>2. o.wt \in Worktrees /\ journal[o.wt] = o.seen /\ o.seen # None /\ ApplyOK(o)
      BY <2>2, <2>5, <3>1 DEF StateOK, Applying
    <3>3. Pends(o.wt, o.seen)
      BY <3>2 DEF Pends
    <3>4. o.seen.changed \subseteq Participants[o.wt]
      BY <3>2, <3>3, PendsOK DEF IntentOK
    <3>5. Order[o.k] \in o.seen.changed => Stands(o.wt, o.seen, Order[o.k])
      BY <3>2, <3>3, <3>4
    <3> QED BY <3>2, <3>5 DEF Stands, ApplyOK
  <2>6. StateOK(o)'
    BY <2>2, <2>3, <2>4, <2>5 DEF StateOK
  <2> QED BY <2>1, <2>6 DEF StateOK, DraftOK, StageOK, ApplyOK, IntentOK, Planning,
            Untouched, Locked, Displaced, Out, Images, Quiet
<1>7. Processes'
  BY <1>6 DEF Processes
<1> QED BY <1>1, <1>5, <1>7 DEF IndInv

\* The images on the disk are numbered.
LEMMA Identities ==
  ASSUME IndInv, NEW f \in Files
  PROVE  /\ fresh \in Nat /\ git \subseteq 1 .. fresh
         /\ target[f] \in Image /\ target[f].id \in Nat /\ target[f].id <= fresh
         /\ target[f].edits \subseteq 0 .. fresh
         /\ lock[f] # None => lock[f] \in Image /\ lock[f].id \in Nat /\ lock[f].id <= fresh
         /\ \A i \in private[f] : i.id <= fresh
BY DEF IndInv, TypeOK, Image, Ids, Numbered, Journals

\* A file that does not belong to the participant is left alone.
LEMMA StandsApart ==
  ASSUME NEW w, NEW j, NEW c, NEW f, File(w, c) # f, git \subseteq git', private' = private,
         target'[File(w, c)] = target[File(w, c)], lock'[File(w, c)] = lock[File(w, c)]
  PROVE  Stands(w, j, c)
BY Frame DEF Stands

\* Another gitana command edits no file of a pending transaction.
LEMMA EditApart ==
  ASSUME IndInv, NEW f \in Files, Edit(f), NEW w \in Worktrees, NEW j, Pends(w, j),
         NEW c \in Participants[w]
  PROVE  File(w, c) # f
<1>1. SUFFICES ASSUME File(w, c) = f PROVE FALSE
  OBVIOUS
<1>2. f[1] = c /\ (c = "module" => f[2] = w) /\ MayEdit(f)
  BY <1>1 DEF File, Edit
<1>3. CASE journal[w] = j /\ j # None
  <2>1. w \in control /\ (HasModule(w) => claim[w] = j.tx) /\ IntentOK(w, j)
    BY <1>3 DEF IndInv, Journals, JournalOK
  <2>2. c = "module" /\ claim[w] = None
    BY <1>2, <2>1 DEF MayEdit
  <2>3. j.tx \in Nat
    BY <2>1 DEF IntentOK, Intent, Ids
  <2> QED BY <2>1, <2>2, <2>3, NoneAssumption DEF HasModule
<1>4. ASSUME NEW p \in Procs, op[p].wt = w, op[p].pc \in Drafting PROVE FALSE
  <2>1. holder # None
    BY <1>4, NoneAssumption DEF IndInv, Exclusive, Drafting
  <2>2. c = "module" /\ ~ModuleLeased(w)
    BY <1>2, <2>1 DEF MayEdit
  <2> QED BY <1>4, <2>2 DEF ModuleLeased, Drafting
<1> QED BY <1>3, <1>4 DEF Pends

\* An edit of another gitana command disturbs no pending participant.
LEMMA EditStands ==
  ASSUME IndInv, NEW f \in Files, Edit(f), NEW w \in Worktrees, NEW j, Pends(w, j),
         NEW c \in Participants[w]
  PROVE  Stands(w, j, c)
<1>1. File(w, c) # f /\ File(w, c) \in Files
  BY EditApart, FileOfPart
<1>2. target'[File(w, c)] = target[File(w, c)] /\ UNCHANGED <<lock, private, git>>
  BY <1>1 DEF Edit, IndInv, TypeOK
<1> QED BY <1>1, <1>2, StandsApart

\* An edit of another gitana command keeps the invariant.
LEMMA KeepEdit ==
  ASSUME IndInv, TypeOK', NEW f \in Files, Edit(f)
  PROVE  IndInv'
<1>1. /\ MayEdit(f) /\ lock[f] = None /\ fresh' = fresh + 1
      /\ target' = [target EXCEPT ![f] = [target[f] EXCEPT !.id = fresh + 1,
                                                          !.edits = @ \cup {fresh + 1}]]
      /\ done' = [done EXCEPT ![f] = @ \cup {fresh + 1}]
      /\ UNCHANGED <<lock, private, control, journal, claim, holder, op, git>>
  BY DEF Edit
<1>2. /\ fresh \in Nat /\ git \subseteq 1 .. fresh /\ target[f] \in Image
      /\ target[f].edits \subseteq 0 .. fresh
  BY Identities
<1>3. /\ target'[f].id = fresh + 1 /\ target'[f].edits = target[f].edits \cup {fresh + 1}
      /\ \A g \in Files \ {f} : target'[g] = target[g]
  BY <1>1, <1>2 DEF IndInv, TypeOK, Image
<1>4. /\ done'[f] = done[f] \cup {fresh + 1}
      /\ \A g \in Files \ {f} : done'[g] = done[g]
  BY <1>1 DEF IndInv, TypeOK
<1>5. NoEditLost'
  BY <1>3, <1>4 DEF IndInv, NoEditLost
<1>6. Numbered'
  <2>1. ASSUME NEW g \in Files
        PROVE  /\ target'[g].id <= fresh' /\ target'[g].edits \subseteq 0 .. fresh'
               /\ target'[g].id \in git => target'[g].id \in target'[g].edits
               /\ lock[g] # None => lock[g].id <= fresh'
               /\ \A i \in private[g] : i.id <= fresh'
    <3>1. /\ target[g].id \in Nat /\ target[g].id <= fresh /\ target[g].edits \subseteq 0 .. fresh
          /\ target[g].id \in git => target[g].id \in target[g].edits
          /\ lock[g] # None => lock[g].id \in Nat /\ lock[g].id <= fresh
          /\ \A i \in private[g] : i.id \in Nat /\ i.id <= fresh
      BY DEF IndInv, TypeOK, Image, Ids, Numbered
    <3>2. CASE g = f
      BY <1>1, <1>2, <1>3, <3>1, <3>2
    <3>3. CASE g # f
      BY <1>1, <1>2, <1>3, <3>1, <3>3
    <3> QED BY <3>2, <3>3
  <2> QED BY <1>1, <2>1 DEF Numbered
<1>9. ASSUME NEW g \in Files
      PROVE  \/ Quiet(g)'
             \/ \E w \in Worktrees : journal[w] # None /\ \E c \in journal[w].changed : g = File(w, c)
  <2>1. CASE g = f
    BY <1>1, <2>1 DEF Quiet
  <2>2. CASE g # f
    <3>1. Quiet(g) => Quiet(g)'
      BY <1>1, <1>3, <2>2 DEF Quiet, GitHolds
    <3> QED BY <3>1 DEF IndInv, Journals
  <2> QED BY <2>1, <2>2
<1>10. fresh <= fresh' /\ git \subseteq git' /\ git' \subseteq 1 .. fresh'
  BY <1>1, <1>2
<1> QED BY <1>1, <1>5, <1>6, <1>9, <1>10, EditStands, KeepOthers

\* Stock Git taking a lock disturbs no pending participant.
LEMMA GitLockStands ==
  ASSUME IndInv, NEW f \in Files, GitLock(f), NEW w \in Worktrees, NEW j, Pends(w, j),
         NEW c \in Participants[w]
  PROVE  Stands(w, j, c)
<1>1. /\ lock[f] = None /\ fresh' = fresh + 1 /\ git' = git \cup {fresh + 1}
      /\ lock' = [lock EXCEPT ![f] = [target[f] EXCEPT !.id = fresh + 1,
                                                      !.edits = @ \cup {fresh + 1}]]
      /\ UNCHANGED <<target, private, control, journal, claim, holder, op, done>>
  BY DEF GitLock
<1>2. /\ fresh \in Nat /\ git \subseteq 1 .. fresh /\ target[f] \in Image
      /\ target[f].edits \subseteq 0 .. fresh
  BY Identities
<1>3. /\ lock'[f].id = fresh + 1 /\ lock'[f].edits = target[f].edits \cup {fresh + 1}
      /\ \A g \in Files \ {f} : lock'[g] = lock[g]
  BY <1>1, <1>2 DEF IndInv, TypeOK, Image
<1>4. Quiet(f)'
  BY <1>1, <1>2, <1>3 DEF Quiet, GitHolds
<1>5. Stands(w, j, c)
  <2>1. IntentOK(w, j) /\ File(w, c) \in Files
    BY PendsOK, FileOfPart
  <2>2. CASE File(w, c) = f
    <3>1. j.before[c] # None /\ After(j, c) # None
      <4>1. j.before[c] \in Image /\ After(j, c) \in Image
        BY <2>1, AfterType DEF IntentOK, Intent
      <4> QED BY <4>1, AbsentAssumption
    <3>2. ~Locked(w, j, c) /\ ~Displaced(w, j, c)
      BY <1>1, <2>2, <3>1 DEF Locked, Displaced
    <3>3. Untouched(w, j, c) => Untouched(w, j, c)'
      BY <1>1 DEF Untouched
    <3>4. Images(j, f)' = Images(j, f)
      BY <1>1 DEF Images
    <3>5. Planning(w, j, c) => Planning(w, j, c)'
      BY <1>4, <2>2, <3>3 DEF Planning
    <3>6. Staged(w, j, c) => Staged(w, j, c)'
      BY <1>4, <2>2, <3>3, <3>4 DEF Staged
    <3>7. Out(w, j, c) => Out(w, j, c)'
      BY <1>1, <1>4, <2>2, <3>4 DEF Out
    <3> QED BY <3>2, <3>5, <3>6, <3>7 DEF Stands
  <2>3. CASE File(w, c) # f
    BY <1>1, <1>3, <2>1, <2>3, StandsApart
  <2> QED BY <2>2, <2>3
<1> QED BY <1>5

\* Stock Git taking a lock keeps the invariant.
LEMMA KeepGitLock ==
  ASSUME IndInv, TypeOK', NEW f \in Files, GitLock(f)
  PROVE  IndInv'
<1>1. /\ lock[f] = None /\ fresh' = fresh + 1 /\ git' = git \cup {fresh + 1}
      /\ lock' = [lock EXCEPT ![f] = [target[f] EXCEPT !.id = fresh + 1,
                                                      !.edits = @ \cup {fresh + 1}]]
      /\ UNCHANGED <<target, private, control, journal, claim, holder, op, done>>
  BY DEF GitLock
<1>2. /\ fresh \in Nat /\ git \subseteq 1 .. fresh /\ target[f] \in Image
      /\ target[f].edits \subseteq 0 .. fresh
  BY Identities
<1>3. /\ lock'[f].id = fresh + 1 /\ lock'[f].edits = target[f].edits \cup {fresh + 1}
      /\ \A g \in Files \ {f} : lock'[g] = lock[g]
  BY <1>1, <1>2 DEF IndInv, TypeOK, Image
<1>4. Quiet(f)'
  BY <1>1, <1>2, <1>3 DEF Quiet, GitHolds
<1>5. NoEditLost'
  BY <1>1 DEF IndInv, NoEditLost
<1>6. Numbered'
  <2>1. ASSUME NEW g \in Files
        PROVE  /\ target[g].id <= fresh' /\ target[g].edits \subseteq 0 .. fresh'
               /\ target[g].id \in git' => target[g].id \in target[g].edits
               /\ lock'[g] # None => lock'[g].id <= fresh'
               /\ \A i \in private[g] : i.id <= fresh'
    <3>1. /\ target[g].id \in Nat /\ target[g].id <= fresh /\ target[g].edits \subseteq 0 .. fresh
          /\ target[g].id \in git => target[g].id \in target[g].edits
          /\ lock[g] # None => lock[g].id \in Nat /\ lock[g].id <= fresh
          /\ \A i \in private[g] : i.id \in Nat /\ i.id <= fresh
      BY DEF IndInv, TypeOK, Image, Ids, Numbered
    <3>2. lock'[g] # None => lock'[g].id <= fresh'
      BY <1>1, <1>2, <1>3, <3>1
    <3> QED BY <1>1, <1>2, <3>1, <3>2
  <2> QED BY <1>1, <2>1 DEF Numbered
<1>8. ASSUME NEW g \in Files
      PROVE  \/ Quiet(g)'
             \/ \E w \in Worktrees : journal[w] # None /\ \E c \in journal[w].changed : g = File(w, c)
  <2>1. CASE g = f
    BY <1>4, <2>1
  <2>2. CASE g # f
    <3>1. Quiet(g) => Quiet(g)'
      BY <1>1, <1>3, <2>2 DEF Quiet, GitHolds
    <3> QED BY <3>1 DEF IndInv, Journals
  <2> QED BY <2>1, <2>2
<1>9. /\ fresh <= fresh' /\ git \subseteq git' /\ git' \subseteq 1 .. fresh'
      /\ \A i \in git' : i \in git \/ i > fresh
  BY <1>1, <1>2
<1> QED BY <1>1, <1>5, <1>6, <1>8, <1>9, GitLockStands, KeepOthers

\* What stock Git finds under the lock it took is the target and its edit.
LEMMA GitOwnsLock ==
  ASSUME IndInv, NEW f \in Files, lock[f] # None, lock[f].id \in git \ target[f].edits
  PROVE  GitHolds(f)
<1>1. CASE Quiet(f)
  BY <1>1 DEF Quiet
<1>2. CASE ~Quiet(f)
  <2>1. PICK w \in Worktrees : journal[w] # None /\ \E c \in journal[w].changed : f = File(w, c)
    BY <1>2 DEF IndInv, Journals
  <2>2. PICK c \in journal[w].changed : f = File(w, c)
    BY <2>1
  <2>3. PICK j : j = journal[w]
    OBVIOUS
  <2>4. JournalOK(w)
    BY <2>1 DEF IndInv, Journals
  <2>5. IntentOK(w, j) /\ FileOK(w, j, c) /\ c \in Participants[w]
    BY <2>2, <2>3, <2>4 DEF JournalOK, IntentOK
  <2>6. After(j, c).id = j.tx /\ j.tx \notin git /\ After(j, c).edits = j.before[c].edits
    BY <2>2, <2>3, <2>5, Participant
  <2>7. ~Locked(w, j, c)
    BY <2>2, <2>6 DEF Locked
  <2>8. ~Displaced(w, j, c)
    BY <2>2, <2>5, <2>6 DEF Displaced, IntentOK
  <2>9. Quiet(f)
    BY <2>2, <2>5, <2>7, <2>8 DEF FileOK, Planning, Publishing, Staged, Out
  <2> QED BY <1>2, <2>9
<1> QED BY <1>1, <1>2

\* Stock Git committing disturbs no participant that is still to be published.
LEMMA GitCommitStands ==
  ASSUME IndInv, NEW f \in Files, GitCommit(f), NEW w \in Worktrees, NEW j, Pends(w, j),
         NEW c \in Participants[w]
  PROVE  Stands(w, j, c)
<1>1. /\ lock[f] # None /\ lock[f].id \in git \ target[f].edits
      /\ target' = [target EXCEPT ![f] = lock[f]] /\ lock' = [lock EXCEPT ![f] = None]
      /\ done' = [done EXCEPT ![f] = @ \cup {lock[f].id}]
      /\ UNCHANGED <<private, control, journal, claim, holder, op, fresh, git>>
  BY DEF GitCommit
<1>2. GitHolds(f)
  BY <1>1, GitOwnsLock
<1>3. /\ target'[f] = lock[f] /\ lock'[f] = None /\ done'[f] = done[f] \cup {lock[f].id}
      /\ \A g \in Files \ {f} : /\ target'[g] = target[g] /\ lock'[g] = lock[g]
                                /\ done'[g] = done[g]
  BY <1>1 DEF IndInv, TypeOK
<1>4. lock[f].edits = target[f].edits \cup {lock[f].id} /\ lock[f].id \in git
  BY <1>2 DEF GitHolds
<1>5. Quiet(f)'
  BY <1>3 DEF Quiet
<1>6. Stands(w, j, c)
  <2>1. IntentOK(w, j) /\ File(w, c) \in Files
    BY PendsOK, FileOfPart
  <2>2. CASE File(w, c) = f
    <3>1. After(j, c).id = j.tx /\ j.tx \notin git /\ After(j, c).edits = j.before[c].edits
      BY <2>1 DEF After, IntentOK
    <3>2. ~Locked(w, j, c)
      BY <1>4, <2>2, <3>1 DEF Locked
    <3>3. ~Displaced(w, j, c)
      BY <1>1, <1>4, <2>1, <2>2, <3>1 DEF Displaced, IntentOK
    <3>4. Untouched(w, j, c)' /\ target'[f].id \in git'
      BY <1>1, <1>3, <1>4, <2>2 DEF Untouched
    <3>5. Images(j, f)' = Images(j, f)
      BY <1>1 DEF Images
    <3>6. Planning(w, j, c) => Planning(w, j, c)'
      BY <1>5, <2>2, <3>4 DEF Planning
    <3>7. Staged(w, j, c) => Staged(w, j, c)'
      BY <1>5, <2>2, <3>4, <3>5 DEF Staged
    <3>8. Out(w, j, c) => Out(w, j, c)'
      BY <1>5, <2>2, <3>4, <3>5 DEF Out
    <3> QED BY <3>2, <3>3, <3>6, <3>7, <3>8 DEF Stands
  <2>3. CASE File(w, c) # f
    BY <1>1, <1>3, <2>1, <2>3, StandsApart
  <2> QED BY <2>2, <2>3
<1> QED BY <1>6

\* Stock Git committing keeps the invariant.
LEMMA KeepGitCommit ==
  ASSUME IndInv, TypeOK', NEW f \in Files, GitCommit(f)
  PROVE  IndInv'
<1>1. /\ lock[f] # None /\ lock[f].id \in git \ target[f].edits
      /\ target' = [target EXCEPT ![f] = lock[f]] /\ lock' = [lock EXCEPT ![f] = None]
      /\ done' = [done EXCEPT ![f] = @ \cup {lock[f].id}]
      /\ UNCHANGED <<private, control, journal, claim, holder, op, fresh, git>>
  BY DEF GitCommit
<1>2. GitHolds(f)
  BY <1>1, GitOwnsLock
<1>3. /\ target'[f] = lock[f] /\ lock'[f] = None /\ done'[f] = done[f] \cup {lock[f].id}
      /\ \A g \in Files \ {f} : /\ target'[g] = target[g] /\ lock'[g] = lock[g]
                                /\ done'[g] = done[g]
  BY <1>1 DEF IndInv, TypeOK
<1>4. lock[f].edits = target[f].edits \cup {lock[f].id} /\ lock[f].id \in git
  BY <1>2 DEF GitHolds
<1>5. Quiet(f)'
  BY <1>3 DEF Quiet
<1>6. NoEditLost'
  BY <1>3, <1>4 DEF IndInv, NoEditLost
<1>7. Numbered'
  <2>1. /\ fresh \in Nat /\ git \subseteq 1 .. fresh
        /\ lock[f].id \in Nat /\ lock[f].id <= fresh
        /\ target[f].edits \subseteq 0 .. fresh
    BY <1>1, Identities
  <2>2. lock[f].edits \subseteq 0 .. fresh
    BY <1>4, <2>1
  <2> QED BY <1>1, <1>3, <1>4, <2>1, <2>2 DEF IndInv, Numbered
<1>9. ASSUME NEW g \in Files
      PROVE  \/ Quiet(g)'
             \/ \E w \in Worktrees : journal[w] # None /\ \E c \in journal[w].changed : g = File(w, c)
  <2>1. CASE g = f
    BY <1>5, <2>1
  <2>2. CASE g # f
    <3>1. Quiet(g) => Quiet(g)'
      BY <1>1, <1>3, <2>2 DEF Quiet, GitHolds
    <3> QED BY <3>1 DEF IndInv, Journals
  <2> QED BY <2>1, <2>2
<1>10. fresh <= fresh' /\ git' \subseteq 1 .. fresh'
  BY <1>1, Identities
<1> QED BY <1>1, <1>6, <1>7, <1>9, <1>10, GitCommitStands, KeepOthers

-----------------------------------------------------------------------------
(* The theorems *)

\* The invariant holds initially.
LEMMA InitInv == Init => IndInv
<1> SUFFICES ASSUME Init PROVE IndInv
  OBVIOUS
<1>1. PICK url \in InitialUrls :
        target = [f \in Files |-> [id |-> 0, url |-> url[f], edits |-> {}]]
  BY DEF Init
<1>2. 0 \in Ids /\ url \in [Files -> Urls]
  BY InitialAssumption, BoundsAssumption DEF Ids
<1>3. \A f \in Files : target[f].id = 0 /\ target[f].edits = {}
  BY <1>1
<1>4. TypeOK
  <2>1. target \in [Files -> Image]
    BY <1>1, <1>2 DEF Image
  <2>2. op \in [Procs -> ProcState]
    BY IdleType DEF Init
  <2>3. crashes \in 0 .. MaxCrashes
    BY BoundsAssumption DEF Init
  <2> QED BY <1>2, <2>1, <2>2, <2>3 DEF Init, TypeOK, ProcState
<1>5. \A p \in Procs : op[p].pc = "idle"
  BY DEF Init, Idle
<1>6. Exclusive
  BY <1>5, NoneAssumption DEF Init, Exclusive
<1>7. Numbered
  BY <1>3 DEF Init, Numbered
<1>8. Journals
  BY DEF Init, Journals, Quiet
<1>9. Processes
  BY <1>5 DEF Processes, StateOK, Drafting, Journalled, Staging, Applying
<1>10. NoEditLost
  BY DEF Init, NoEditLost
<1> QED BY <1>4, <1>6, <1>7, <1>8, <1>9, <1>10 DEF IndInv

\* Every step keeps the invariant.
LEMMA InvStep == IndInv /\ [Next]_vars => IndInv'
<1> SUFFICES ASSUME IndInv, [Next]_vars PROVE IndInv'
  OBVIOUS
<1>1. TypeOK'
  BY TypeStep
<1>2. ASSUME NEW p \in Procs, Step(p) PROVE IndInv'
  BY <1>1, <1>2, KeepCheck, KeepClearOrphan, KeepPlan, KeepPublishClaim, KeepMakeControl,
     KeepPublishIntent, KeepReserve, KeepRecord, KeepPrepare, KeepMarkReady, KeepApply,
     KeepSwap, KeepUnlock, KeepAdvance, KeepValidate, KeepDiscard, KeepRetire, KeepUnclaim,
     KeepFail DEF Step
<1>3. ASSUME NEW p \in Procs, Crash(p) \/ Cancel(p) PROVE IndInv'
  BY <1>1, <1>3, KeepFail, KeepCancel
<1>4. ASSUME NEW p \in Procs, NEW w \in Worktrees, NEW u \in Urls \cup {None}, Start(p, w, u)
      PROVE  IndInv'
  BY <1>1, <1>4, KeepStart
<1>5. ASSUME NEW f \in Files, Edit(f) \/ GitLock(f) \/ GitCommit(f) PROVE IndInv'
  BY <1>1, <1>5, KeepEdit, KeepGitLock, KeepGitCommit
<1>6. CASE UNCHANGED vars
  <2>1. UNCHANGED <<disk, fresh, git, done>> /\ op' = op /\ holder' = holder
    BY <1>6 DEF vars, count
  <2>2. Journals' /\ Numbered' /\ NoEditLost'
    BY <1>1, <2>1, SameDisk
  <2>3. Exclusive'
    BY <2>1 DEF IndInv, Exclusive, disk
  <2>4. Processes'
    <3>1. ASSUME NEW p \in Procs PROVE StateOK(op[p])'
      <4>1. StateOK(op[p])
        BY DEF IndInv, Processes
      <4> QED BY <2>1, <4>1 DEF StateOK, DraftOK, StageOK, ApplyOK, IntentOK, Planning,
                Untouched, Locked, Displaced, Out, Images, Quiet, GitHolds, disk
    <3> QED BY <3>1 DEF Processes
  <2> QED BY <1>1, <2>2, <2>3, <2>4 DEF IndInv
<1> QED BY <1>2, <1>3, <1>4, <1>5, <1>6 DEF Next

\* The inductive invariant holds in every reachable state.
THEOREM Invariant == Spec => []IndInv
BY InitInv, InvStep, PTL DEF Spec

\* Every variable of the set-url protocol keeps its type.
THEOREM TypeCorrect == Spec => []TypeOK
<1>1. IndInv => TypeOK
  BY DEF IndInv
<1> QED BY <1>1, Invariant, PTL

\* However many transactions, recoveries, crashes, cancelled callers, other
\* gitana commands and stock Git commands interleave, an edit that returned to
\* its writer stays in its file: publish_prepared_file_at exchanges the target
\* only while it is the image the after-image was rendered from.
THEOREM EditsSurvive == Spec => []NoEditLost
<1>1. IndInv => NoEditLost
  BY DEF IndInv
<1> QED BY <1>1, Invariant, PTL

\* While a journal is pending, only stock Git can replace a participant's file:
\* the journal directory and the claim keep every other gitana command away,
\* also between a crash and the recovery.
THEOREM RecoveryIsPossible == Spec => []OnlyGitOvertakes
<1>1. ASSUME IndInv PROVE OnlyGitOvertakes
  <2>1. ASSUME NEW w \in Worktrees, journal[w] # None, NEW c \in Participants[w]
        PROVE  LET now == target[File(w, c)].id
               IN now = journal[w].before[c].id \/ now = journal[w].tx \/ now \in git
    <3>1. FileOK(w, journal[w], c)
      BY <1>1, <2>1 DEF IndInv, Journals, JournalOK
    <3> QED BY <3>1 DEF FileOK, Planning, Publishing, Staged, Locked, Displaced, Out,
              Untouched, After
  <2> QED BY <2>1 DEF OnlyGitOvertakes
<1> QED BY <1>1, Invariant, PTL

\* From Ready on, what recovery needs is on the disk whatever was interrupted:
\* every after-image still to be published is complete under the one name
\* publish_prepared_file_at looks for, and the claim is there.
THEOREM RecoveryIsComplete == Spec => []ReadyCanFinish
<1>1. ASSUME IndInv PROVE ReadyCanFinish
  <2>1. ASSUME NEW w \in Worktrees, journal[w] # None, journal[w].phase >= Ready,
               NEW c \in journal[w].changed
        PROVE  LET j == journal[w]
                   f == File(w, c)
                   staged == After(j, c) \in private[f]
                   locked == lock[f] = After(j, c)
                   out == j.tx \notin {i.id : i \in private[f]} /\ ~locked
               IN \/ staged /\ ~locked
                  \/ locked /\ ~staged
                  \/ out /\ (target[f] = After(j, c) \/ target[f].id \in git)
    <3>1. PICK j : j = journal[w]
      OBVIOUS
    <3>2. JournalOK(w)
      BY <1>1, <2>1 DEF IndInv, Journals
    <3>3. IntentOK(w, j) /\ c \in j.changed /\ j.phase >= Ready
      BY <2>1, <3>1, <3>2 DEF JournalOK
    <3>4. Publishing(w, j, c)
      BY <3>1, <3>2, <3>3 DEF JournalOK, FileOK, IntentOK
    <3>5. /\ After(j, c).id = j.tx /\ After(j, c) # None /\ After(j, c) # j.before[c]
          /\ j.tx \notin git
      BY <1>1, <3>3, Participant
    <3>6. Quiet(File(w, c)) => lock[File(w, c)] # After(j, c)
      BY <3>5 DEF Quiet, GitHolds
    <3>7. /\ Images(j, File(w, c)) = {} =>
               /\ After(j, c) \notin private[File(w, c)]
               /\ j.tx \notin {i.id : i \in private[File(w, c)]}
          /\ Images(j, File(w, c)) = {After(j, c)} => After(j, c) \in private[File(w, c)]
      BY <3>5 DEF Images
    <3> QED BY <3>1, <3>4, <3>5, <3>6, <3>7 DEF Publishing, Staged, Locked, Displaced, Out
  <2>2. ASSUME NEW w \in Worktrees, journal[w] # None, HasModule(w)
        PROVE  claim[w] = journal[w].tx
    BY <1>1, <2>2 DEF IndInv, Journals, JournalOK
  <2> QED BY <2>1, <2>2 DEF ReadyCanFinish
<1> QED BY <1>1, Invariant, PTL

-----------------------------------------------------------------------------
(* The refinement of the roll-forward contract *)

\* A participant is published where its file has left the lock, and only there.
LEMMA PublishedFiles ==
  ASSUME IndInv, NEW w \in Worktrees, journal[w] # None, journal[w].phase >= Ready,
         NEW c \in journal[w].changed
  PROVE  LET j == journal[w]
         IN /\ Publishing(w, j, c)
            /\ Staged(w, j, c) \/ Locked(w, j, c) => ~IsPublished(w, c)
            /\ Displaced(w, j, c) \/ Out(w, j, c) => IsPublished(w, c)
<1>1. PICK j : j = journal[w]
  OBVIOUS
<1>2. PICK f : f = File(w, c)
  OBVIOUS
<1>3. JournalOK(w) /\ IntentOK(w, j)
  BY <1>1 DEF IndInv, Journals, JournalOK
<1>4. Publishing(w, j, c)
  BY <1>1, <1>3 DEF JournalOK, FileOK, IntentOK
<1>5. /\ After(j, c).id = j.tx /\ After(j, c) # None /\ j.before[c].id # j.tx
      /\ j.tx \notin git
  BY <1>1, <1>3, Participant
<1>6. IsPublished(w, c) <=>
        \/ target[f].id = j.tx
        \/ /\ target[f].id \in git
           /\ \A i \in private[f] \cup {lock[f]} : i = None \/ i.id # j.tx
  BY <1>1, <1>2 DEF IsPublished
<1>7. Staged(w, j, c) => ~IsPublished(w, c)
  <2>1. ASSUME Staged(w, j, c) PROVE After(j, c) \in private[f] /\ target[f].id # j.tx
    BY <1>2, <1>5, <2>1 DEF Staged, Untouched, Images
  <2> QED BY <1>5, <1>6, <2>1
<1>8. Locked(w, j, c) => ~IsPublished(w, c)
  BY <1>2, <1>5, <1>6 DEF Locked
<1>9. Displaced(w, j, c) => IsPublished(w, c)
  BY <1>2, <1>5, <1>6 DEF Displaced
<1>10. Out(w, j, c) => IsPublished(w, c)
  <2>1. ASSUME Out(w, j, c), target[f].id # j.tx
        PROVE  \A i \in private[f] \cup {lock[f]} : i = None \/ i.id # j.tx
    BY <1>2, <1>5, <2>1 DEF Out, Images, Quiet, GitHolds
  <2>2. Out(w, j, c) => target[f].id = j.tx \/ target[f].id \in git
    BY <1>2, <1>5 DEF Out
  <2> QED BY <1>6, <2>1, <2>2
<1> QED BY <1>1, <1>4, <1>7, <1>8, <1>9, <1>10

\* What the contract sees of a worktree, and that a participant is either still
\* to be published or published.
View(w) ==
  LET j == journal[w]
  IN /\ j = None => StageOf(w) = "none" /\ LeftOf(w) = {}
     /\ j # None /\ j.phase < Ready => StageOf(w) = "open" /\ LeftOf(w) = j.changed
     /\ j # None /\ j.phase >= Ready =>
          /\ StageOf(w) = "decided"
          /\ LeftOf(w) = {c \in j.changed : Staged(w, j, c) \/ Locked(w, j, c)}
          /\ \A c \in j.changed :
               /\ Publishing(w, j, c)
               /\ Staged(w, j, c) \/ Locked(w, j, c) => ~(Displaced(w, j, c) \/ Out(w, j, c))

\* The contract's view of every worktree follows from the invariant.
LEMMA Views == IndInv => \A w \in Worktrees : View(w)
<1> SUFFICES ASSUME IndInv, NEW w \in Worktrees PROVE View(w)
  OBVIOUS
<1>1. journal[w] # None => journal[w].phase \in 0 .. 4
  BY DEF IndInv, TypeOK, Intent, Planned, Applied
<1>2. ASSUME journal[w] # None, journal[w].phase >= Ready
      PROVE  /\ LeftOf(w) = {c \in journal[w].changed :
                               Staged(w, journal[w], c) \/ Locked(w, journal[w], c)}
             /\ \A c \in journal[w].changed :
                  /\ Publishing(w, journal[w], c)
                  /\ Staged(w, journal[w], c) \/ Locked(w, journal[w], c)
                       => ~(Displaced(w, journal[w], c) \/ Out(w, journal[w], c))
  <2>1. \A c \in journal[w].changed :
          /\ Publishing(w, journal[w], c)
          /\ ~IsPublished(w, c) <=> Staged(w, journal[w], c) \/ Locked(w, journal[w], c)
          /\ IsPublished(w, c) <=> Displaced(w, journal[w], c) \/ Out(w, journal[w], c)
    BY <1>2, PublishedFiles DEF Publishing
  <2> QED BY <1>1, <1>2, <2>1 DEF LeftOf, Ready
<1>3. /\ journal[w] = None => StageOf(w) = "none" /\ LeftOf(w) = {}
      /\ journal[w] # None /\ journal[w].phase < Ready =>
           StageOf(w) = "open" /\ LeftOf(w) = journal[w].changed
  BY DEF StageOf, LeftOf
<1>4. journal[w] # None /\ journal[w].phase >= Ready => StageOf(w) = "decided"
  BY <1>1 DEF StageOf, Ready
<1> QED BY <1>2, <1>3, <1>4 DEF View

\* So does the view after a step.
LEMMA ViewsNext == IndInv' => (\A w \in Worktrees : View(w))'
BY Views, PTL

\* A step the contract does not see at w: the journal keeps its transaction, its
\* participants and its stage, and each participant what was still to be done.
Unseen(w) ==
  \/ journal[w] = None /\ journal'[w] = None
  \/ \E j, i :
       /\ journal[w] = j /\ journal'[w] = i /\ j # None /\ i # None
       /\ i.tx = j.tx /\ i.url = j.url /\ i.before = j.before /\ i.changed = j.changed
       /\ \/ i.phase < Ready /\ j.phase < Ready
          \/ /\ i.phase >= Ready /\ j.phase >= Ready
             /\ \A c \in j.changed :
                  /\ Staged(w, j, c) \/ Locked(w, j, c) =>
                       Staged(w, j, c)' \/ Locked(w, j, c)'
                  /\ Displaced(w, j, c) \/ Out(w, j, c) =>
                       Displaced(w, j, c)' \/ Out(w, j, c)'

\* Where a file stands depends on a few fields of the intent.
LEMMA SameIntentNext ==
  ASSUME NEW i, NEW j, i.tx = j.tx, i.url = j.url, i.before = j.before, NEW w, NEW c
  PROVE  /\ Staged(w, i, c)' <=> Staged(w, j, c)'
         /\ Locked(w, i, c)' <=> Locked(w, j, c)'
         /\ Displaced(w, i, c)' <=> Displaced(w, j, c)'
         /\ Out(w, i, c)' <=> Out(w, j, c)'
BY DEF Staged, Locked, Displaced, Out, Untouched, Images, After

\* What the contract sees after a step that leaves intent i in the journal.
LEMMA ViewNext ==
  ASSUME IndInv', NEW w \in Worktrees, NEW i, journal'[w] = i
  PROVE  /\ i = None => StageOf(w)' = "none" /\ LeftOf(w)' = {}
         /\ i # None /\ i.phase < Ready => StageOf(w)' = "open" /\ LeftOf(w)' = i.changed
         /\ i # None /\ i.phase >= Ready =>
              /\ StageOf(w)' = "decided"
              /\ LeftOf(w)' = {c \in i.changed : Staged(w, i, c)' \/ Locked(w, i, c)'}
              /\ \A c \in i.changed :
                   /\ Publishing(w, i, c)'
                   /\ Staged(w, i, c)' \/ Locked(w, i, c)'
                        => ~(Displaced(w, i, c)' \/ Out(w, i, c)')
<1>1. View(w)'
  BY ViewsNext
<1> QED BY <1>1 DEF View, Publishing, Untouched, Staged, Locked, Displaced, Out, Images

\* A step that is not seen changes neither the stage nor what is left.
LEMMA UnseenStutters ==
  ASSUME IndInv, IndInv', NEW w \in Worktrees, Unseen(w)
  PROVE  StageOf(w)' = StageOf(w) /\ LeftOf(w)' = LeftOf(w)
<1>1. View(w)
  BY Views
<1>2. CASE journal[w] = None /\ journal'[w] = None
  BY <1>1, <1>2, ViewNext DEF View
<1>3. CASE ~(journal[w] = None /\ journal'[w] = None)
  <2>1. PICK j, i :
          /\ journal[w] = j /\ journal'[w] = i /\ j # None /\ i # None
          /\ i.tx = j.tx /\ i.url = j.url /\ i.before = j.before /\ i.changed = j.changed
          /\ \/ i.phase < Ready /\ j.phase < Ready
             \/ /\ i.phase >= Ready /\ j.phase >= Ready
                /\ \A c \in j.changed :
                     /\ Staged(w, j, c) \/ Locked(w, j, c) =>
                          Staged(w, j, c)' \/ Locked(w, j, c)'
                     /\ Displaced(w, j, c) \/ Out(w, j, c) =>
                          Displaced(w, j, c)' \/ Out(w, j, c)'
    BY <1>3 DEF Unseen
  <2>2. CASE i.phase < Ready /\ j.phase < Ready
    BY <1>1, <2>1, <2>2, ViewNext DEF View
  <2>3. CASE i.phase >= Ready /\ j.phase >= Ready
                /\ \A c \in j.changed :
                     /\ Staged(w, j, c) \/ Locked(w, j, c) =>
                          Staged(w, j, c)' \/ Locked(w, j, c)'
                     /\ Displaced(w, j, c) \/ Out(w, j, c) =>
                          Displaced(w, j, c)' \/ Out(w, j, c)'
    <3>1. StageOf(w)' = "decided" /\ StageOf(w) = "decided"
      BY <1>1, <2>1, <2>3, ViewNext DEF View
    <3>2. /\ LeftOf(w) = {c \in j.changed : Staged(w, j, c) \/ Locked(w, j, c)}
          /\ \A c \in j.changed : Publishing(w, j, c)
      BY <1>1, <2>1, <2>3 DEF View
    <3>3. /\ LeftOf(w)' = {c \in j.changed : Staged(w, i, c)' \/ Locked(w, i, c)'}
          /\ \A c \in j.changed :
                Staged(w, i, c)' \/ Locked(w, i, c)'
                  => ~(Displaced(w, i, c)' \/ Out(w, i, c)')
      BY <2>1, <2>3, ViewNext
    <3>4. ASSUME NEW c \in j.changed
          PROVE  Staged(w, i, c)' \/ Locked(w, i, c)' <=> Staged(w, j, c) \/ Locked(w, j, c)
      <4>1. /\ Staged(w, i, c)' <=> Staged(w, j, c)'
            /\ Locked(w, i, c)' <=> Locked(w, j, c)'
            /\ Displaced(w, i, c)' <=> Displaced(w, j, c)'
            /\ Out(w, i, c)' <=> Out(w, j, c)'
        BY <2>1, SameIntentNext
      <4> QED BY <2>3, <3>2, <3>3, <4>1 DEF Publishing
    <3> QED BY <3>1, <3>2, <3>3, <3>4
  <2> QED BY <2>1, <2>2, <2>3
<1> QED BY <1>2, <1>3

\* The journal stays, and so does every participant of a ready transaction.
LEMMA UnseenStands ==
  ASSUME IndInv, NEW w \in Worktrees, journal'[w] = journal[w],
         journal[w] # None /\ journal[w].phase >= Ready =>
           \A c \in journal[w].changed : Stands(w, journal[w], c)
  PROVE  Unseen(w)
<1>1. journal[w] # None => journal[w].phase \in 0 .. 4
  BY DEF IndInv, TypeOK, Intent, Planned, Applied
<1>2. PICK j : j = journal[w]
  OBVIOUS
<1>3. ASSUME j # None, j.phase >= Ready, NEW c \in j.changed
      PROVE  /\ Staged(w, j, c) \/ Locked(w, j, c) => Staged(w, j, c)' \/ Locked(w, j, c)'
             /\ Displaced(w, j, c) \/ Out(w, j, c) => Displaced(w, j, c)' \/ Out(w, j, c)'
  BY <1>2, <1>3 DEF Stands, Staged, Locked, Displaced, Out, Images, Untouched
<1>4. CASE j # None /\ j.phase < Ready
  BY <1>2, <1>4 DEF Unseen
<1>5. CASE j # None /\ j.phase >= Ready
  BY <1>2, <1>3, <1>5 DEF Unseen
<1>6. CASE j = None
  BY <1>2, <1>6 DEF Unseen
<1> QED BY <1>1, <1>2, <1>4, <1>5, <1>6 DEF Ready

\* No file changes, and the journal keeps its fields and its stage.
LEMMA UnseenFiles ==
  ASSUME NEW w \in Worktrees, UNCHANGED <<target, lock, private, git>>,
         NEW j, journal[w] = j, NEW i, journal'[w] = i, j # None, i # None,
         i.tx = j.tx, i.url = j.url, i.before = j.before, i.changed = j.changed,
         \/ i.phase < Ready /\ j.phase < Ready
         \/ i.phase >= Ready /\ j.phase >= Ready
  PROVE  Unseen(w)
BY Frame DEF Unseen

\* A step that changes no file and no journal is not seen.
LEMMA UnseenSame ==
  ASSUME IndInv, NEW w \in Worktrees, UNCHANGED <<target, lock, private, git, journal>>
  PROVE  Unseen(w)
<1>1. \A c : Stands(w, journal[w], c)
  BY SameStands, Frame DEF Stands
<1> QED BY <1>1, UnseenStands

\* Steps that change no file: the journal, if it changes, keeps its stage.
LEMMA UnseenQuiet ==
  ASSUME IndInv, NEW p \in Procs, NEW v \in Worktrees,
         \/ \E w \in Worktrees, u \in Urls \cup {None} : Start(p, w, u)
         \/ Check(p) \/ ClearOrphan(p) \/ Plan(p) \/ PublishClaim(p) \/ MakeControl(p)
         \/ Validate(p) \/ Unclaim(p) \/ Fail(p) \/ Crash(p) \/ Cancel(p)
  PROVE  Unseen(v)
<1>1. UNCHANGED <<target, lock, private, git, journal>>
  BY DEF Start, Check, ClearOrphan, Plan, PublishClaim, MakeControl, Validate, Unclaim, Fail,
         Crash, Cancel, disk, count
<1> QED BY <1>1, UnseenSame

\* Recording a private file or the phase is not seen.
LEMMA UnseenRecord ==
  ASSUME IndInv, NEW p \in Procs, NEW v \in Worktrees, Record(p) \/ Advance(p)
  PROVE  Unseen(v)
<1>1. PICK o : o = op[p]
  OBVIOUS
<1>2. PICK w : w = o.wt
  OBVIOUS
<1>3. PICK j : j = o.seen
  OBVIOUS
<1>4. o.pc \in {"record", "advance"} /\ o.pc \in Journalled
  BY <1>1 DEF Record, Advance, Journalled, Staging, Applying
<1>5. /\ w \in Worktrees /\ StateOK(o) /\ journal[w] = j /\ j # None /\ IntentOK(w, j)
      /\ \A u \in Worktrees \ {w} : journal[u] = None
  BY <1>1, <1>2, <1>3, <1>4, AtWork
<1>6. UNCHANGED <<target, lock, private, git>>
  BY DEF Record, Advance, count
<1>7. \E i : /\ journal' = [journal EXCEPT ![w] = i] /\ i # None
             /\ i.tx = j.tx /\ i.url = j.url /\ i.before = j.before /\ i.changed = j.changed
             /\ \/ i.phase < Ready /\ j.phase < Ready
                \/ i.phase >= Ready /\ j.phase >= Ready
  <2>1. CASE Record(p)
    <3>1. PICK i : i = [j EXCEPT !.reserved = IF Joins(p) THEN @ \cup {Part(p)} ELSE @]
      OBVIOUS
    <3>2. journal' = [journal EXCEPT ![w] = i]
      BY <1>1, <1>2, <1>3, <2>1, <3>1 DEF Record
    <3>3. /\ i.tx = j.tx /\ i.url = j.url /\ i.before = j.before /\ i.changed = j.changed
          /\ i.phase = j.phase
      BY <1>5, <3>1 DEF IntentOK, Intent
    <3>4. j.phase = Planned
      BY <1>3, <1>5, <2>1, <1>1 DEF Record, StateOK, StageOK, Staging
    <3>5. i # None
      <4>1. Part(p) \in Parts
        BY OpType, Ordered DEF IndInv, ProcState, Part
      <4>2. i \in Intent
        BY <1>5, <3>1, <4>1 DEF IntentOK, Intent
      <4> QED BY <4>2, AbsentAssumption
    <3>6. i.phase < Ready /\ j.phase < Ready
      BY <3>3, <3>4 DEF Planned, Ready
    <3> QED BY <3>2, <3>3, <3>5, <3>6
  <2>2. CASE Advance(p)
    <3>1. PICK k : k = o.k
      OBVIOUS
    <3>2. PICK i : i = IF j.phase < Applied(k) THEN [j EXCEPT !.phase = Applied(k)] ELSE j
      OBVIOUS
    <3>3. journal' = [journal EXCEPT ![w] = i]
      BY <1>1, <1>2, <1>3, <2>2, <3>1, <3>2 DEF Advance
    <3>4. k \in 1 .. 3 /\ j.phase >= k /\ j.phase \in 0 .. 4
      BY <1>1, <1>3, <1>5, <2>2, <3>1, OpType
      DEF Advance, StateOK, ApplyOK, Applying, IndInv, ProcState, IntentOK, Intent, Planned,
          Applied
    <3>5. /\ i.tx = j.tx /\ i.url = j.url /\ i.before = j.before /\ i.changed = j.changed
          /\ i.phase = IF j.phase < k + 1 THEN k + 1 ELSE j.phase
      BY <1>5, <3>2 DEF IntentOK, Intent, Applied
    <3>6. i # None
      <4>1. i \in Intent
        BY <1>5, <3>2, <3>4 DEF IntentOK, Intent, Planned, Applied
      <4> QED BY <4>1, AbsentAssumption
    <3>7. i.phase >= Ready /\ j.phase >= Ready
      BY <3>4, <3>5 DEF Ready
    <3> QED BY <3>3, <3>5, <3>6, <3>7
  <2> QED BY <2>1, <2>2 DEF Record, Advance
<1>8. PICK i : /\ journal' = [journal EXCEPT ![w] = i] /\ i # None
               /\ i.tx = j.tx /\ i.url = j.url /\ i.before = j.before /\ i.changed = j.changed
               /\ \/ i.phase < Ready /\ j.phase < Ready
                  \/ i.phase >= Ready /\ j.phase >= Ready
  BY <1>7
<1>9. journal'[w] = i /\ (v # w => journal'[v] = journal[v])
  BY <1>5, <1>8 DEF IndInv, TypeOK
<1>10. CASE v = w
  BY <1>5, <1>6, <1>8, <1>9, <1>10, UnseenFiles
<1>11. CASE v # w
  BY <1>5, <1>9, <1>11 DEF Unseen
<1> QED BY <1>10, <1>11

\* Before Ready nothing is published, whatever happens to the private files.
LEMMA UnseenPlanned ==
  ASSUME IndInv, NEW p \in Procs, NEW v \in Worktrees, Reserve(p) \/ Prepare(p) \/ Discard(p)
  PROVE  Unseen(v)
<1>1. PICK o : o = op[p]
  OBVIOUS
<1>2. o.pc \in {"reserve", "prepare", "discard"} /\ o.pc \in Journalled
  BY <1>1 DEF Reserve, Prepare, Discard, Journalled, Staging
<1>3. /\ o.wt \in Worktrees /\ StateOK(o) /\ journal[o.wt] = o.seen
      /\ \A u \in Worktrees \ {o.wt} : journal[u] = None
  BY <1>1, <1>2, AtWork
<1>4. o.seen.phase = Planned
  BY <1>2, <1>3 DEF StateOK, StageOK, Staging
<1>5. journal' = journal
  BY DEF Reserve, Prepare, Discard
<1> QED BY <1>3, <1>4, <1>5, UnseenStands DEF Planned, Ready

\* A step on the k-th participant leaves the others standing.
LEMMA UnseenOther ==
  ASSUME IndInv, NEW p, NEW v \in Worktrees,
         \/ p \in Procs /\ (Apply(p) \/ Unlock(p))
         \/ \E f \in Files : Edit(f) \/ GitLock(f) \/ GitCommit(f),
         IndInv'
  PROVE  Unseen(v)
<1>1. CASE p \in Procs /\ (Apply(p) \/ Unlock(p))
  <2>1. PICK o : o = op[p]
    OBVIOUS
  <2>2. PICK w : w = o.wt
    OBVIOUS
  <2>3. PICK j : j = o.seen
    OBVIOUS
  <2>4. PICK c : c = Order[o.k]
    OBVIOUS
  <2>5. PICK f : f = File(w, c)
    OBVIOUS
  <2>6. o.pc \in {"apply", "unlock"} /\ o.pc \in Journalled /\ o.pc \in Applying
    BY <1>1, <2>1 DEF Apply, Unlock, Journalled, Applying
  <2>7. /\ w \in Worktrees /\ StateOK(o) /\ journal[w] = j /\ j # None /\ IntentOK(w, j)
        /\ (\A u \in Worktrees \ {w} : journal[u] = None) /\ o.k \in 1 .. 3
    BY <1>1, <2>1, <2>2, <2>3, <2>6, AtWork
  <2>8. j.phase >= Ready
    <3>1. j.phase >= o.k /\ j.phase \in 0 .. 4
      BY <2>3, <2>6, <2>7 DEF StateOK, ApplyOK, IntentOK, Intent, Planned, Applied
    <3> QED BY <2>7, <3>1 DEF Ready
  <2>9. journal' = journal /\ target' = target /\ git' = git
        /\ \A g \in Files \ {f} : lock'[g] = lock[g] /\ private'[g] = private[g]
    BY <1>1, <2>1, <2>2, <2>4, <2>5 DEF Apply, Unlock, Here, Part, count, IndInv, TypeOK
  <2>10. CASE v = w
    <3>1. ASSUME NEW d \in j.changed
          PROVE  /\ Staged(w, j, d) \/ Locked(w, j, d) =>
                      Staged(w, j, d)' \/ Locked(w, j, d)'
                 /\ Displaced(w, j, d) \/ Out(w, j, d) =>
                      Displaced(w, j, d)' \/ Out(w, j, d)'
      <4>1. File(w, d) \in Files /\ d \in Participants[w]
        BY <2>7, Participant
      <4>2. CASE d # c
        <5>1. File(w, d) # f
          BY <2>5, <4>2, FileOfPart
        <5> QED BY <2>9, <4>1, <5>1, Frame
      <4>3. CASE d = c
        <5>1. Publishing(w, j, c) /\ Publishing(w, j, c)'
          BY <2>7, <2>8, <2>9, <3>1, <4>3, PublishedFiles, ViewNext
        <5>2. /\ j.before[c] # None /\ After(j, c) # None /\ After(j, c).id = j.tx
              /\ After(j, c) # j.before[c] /\ j.tx \notin git /\ f \in Files
          BY <2>5, <2>7, <3>1, <4>3, Participant
        <5>3. Part(p) = c /\ Here(p) = f /\ Before(p) = j.before[c] /\ Published(p) = After(j, c)
          BY <2>1, <2>2, <2>3, <2>4, <2>5 DEF Here, Part, Before, Published
        <5>4. CASE Apply(p) /\ Changes(p) /\ AtPrivate(p)
          <6>1. After(j, c) \in private[f] /\ lock'[f] = After(j, c)
            BY <5>2, <5>3, <5>4 DEF Apply, AtPrivate, IndInv, TypeOK
          <6>2. ~Displaced(w, j, c) /\ ~Out(w, j, c)
            BY <2>5, <5>2, <6>1 DEF Displaced, Out, Images
          <6>3. ~Displaced(w, j, c)' /\ ~Out(w, j, c)'
            BY <2>5, <2>9, <5>2, <6>1 DEF Displaced, Out, Quiet, GitHolds
          <6> QED BY <4>3, <5>1, <6>2, <6>3 DEF Publishing
        <5>5. CASE Apply(p) /\ ~(Changes(p) /\ AtPrivate(p))
          <6>1. UNCHANGED <<lock, private>>
            BY <5>5 DEF Apply
          <6> QED BY <2>9, <4>3, <6>1, Frame
        <5>6. CASE Unlock(p)
          <6>1. Displaced(w, j, c) \/ Out(w, j, c)
            BY <2>1, <2>2, <2>3, <2>4, <2>6, <2>7, <5>6 DEF Unlock, StateOK, ApplyOK
          <6>2. Images(j, f) = {} /\ private' = private /\ lock'[f] = None
            BY <2>5, <5>2, <5>3, <5>6, <6>1 DEF Unlock, Displaced, Out, IndInv, TypeOK
          <6>3. Displaced(w, j, c)' \/ Out(w, j, c)'
            BY <2>5, <5>1, <5>2, <6>2 DEF Publishing, Staged, Locked, Images
          <6>4. ~(Staged(w, j, c) \/ Locked(w, j, c))
            BY <2>5, <2>7, <2>8, <3>1, <4>3, <6>1, PublishedFiles
          <6> QED BY <4>3, <6>3, <6>4
        <5> QED BY <1>1, <5>4, <5>5, <5>6
      <4> QED BY <4>2, <4>3
    <3>2. journal'[v] = j
      BY <2>7, <2>9, <2>10
    <3> QED BY <2>7, <2>8, <2>10, <3>1, <3>2 DEF Unseen
  <2>11. CASE v # w
    BY <2>7, <2>9, <2>11 DEF Unseen
  <2> QED BY <2>10, <2>11
<1>2. ASSUME NEW f \in Files, Edit(f) \/ GitLock(f) \/ GitCommit(f) PROVE Unseen(v)
  <2>1. journal' = journal
    BY <1>2 DEF Edit, GitLock, GitCommit
  <2>2. PICK j : j = journal[v]
    OBVIOUS
  <2>3. ASSUME j # None, NEW c \in j.changed PROVE Stands(v, j, c)
    <3>1. Pends(v, j) /\ IntentOK(v, j)
      BY <2>2, <2>3, PendsOK DEF Pends
    <3>2. c \in Participants[v]
      BY <2>3, <3>1 DEF IntentOK
    <3> QED BY <1>2, <3>1, <3>2, EditStands, GitLockStands, GitCommitStands
  <2>4. ASSUME j # None, NEW c \in j.changed
        PROVE  /\ Staged(v, j, c) \/ Locked(v, j, c) => Staged(v, j, c)' \/ Locked(v, j, c)'
               /\ Displaced(v, j, c) \/ Out(v, j, c) => Displaced(v, j, c)' \/ Out(v, j, c)'
    BY <2>3, <2>4 DEF Stands
  <2>5. j # None => j.phase \in 0 .. 4
    BY <2>2 DEF IndInv, TypeOK, Intent, Planned, Applied
  <2>6. CASE j = None
    BY <2>1, <2>2, <2>6 DEF Unseen
  <2>7. CASE j # None /\ j.phase < Ready
    BY <2>1, <2>2, <2>7 DEF Unseen
  <2>8. CASE j # None /\ j.phase >= Ready
    BY <2>1, <2>2, <2>4, <2>8 DEF Unseen
  <2> QED BY <2>5, <2>6, <2>7, <2>8 DEF Ready
<1> QED BY <1>1, <1>2

\* The contract's variables.
Stages == [w \in Worktrees |-> StageOf(w)]
Lefts == [w \in Worktrees |-> LeftOf(w)]

\* Only one worktree is seen to change.
LEMMA OneChange ==
  ASSUME IndInv, IndInv', NEW w \in Worktrees, \A v \in Worktrees \ {w} : Unseen(v)
  PROVE  /\ Stages' = [Stages EXCEPT ![w] = StageOf(w)']
         /\ Lefts' = [Lefts EXCEPT ![w] = LeftOf(w)']
<1>1. \A v \in Worktrees \ {w} : StageOf(v)' = StageOf(v) /\ LeftOf(v)' = LeftOf(v)
  BY UnseenStutters
<1> QED BY <1>1 DEF Stages, Lefts

\* When no worktree is seen to change, the contract's variables stay.
LEMMA NoChange ==
  ASSUME IndInv, IndInv', \A v \in Worktrees : Unseen(v)
  PROVE  Stages' = Stages /\ Lefts' = Lefts
<1>1. \A v \in Worktrees : StageOf(v)' = StageOf(v) /\ LeftOf(v)' = LeftOf(v)
  BY UnseenStutters
<1> QED BY <1>1 DEF Stages, Lefts

\* Publishing the journal opens the transaction.
LEMMA OpenStep ==
  ASSUME IndInv, IndInv', NEW p \in Procs, PublishIntent(p)
  PROVE  \E w \in Worktrees, cs \in SUBSET Parts :
           /\ (\A v \in Worktrees : Stages[v] = "none") /\ cs # {}
           /\ Stages' = [Stages EXCEPT ![w] = "open"] /\ Lefts' = [Lefts EXCEPT ![w] = cs]
<1>1. PICK o : o = op[p]
  OBVIOUS
<1>2. PICK w : w = o.wt
  OBVIOUS
<1>3. PICK j : j = o.seen
  OBVIOUS
<1>4. o.pc = "intent" /\ o.pc \in Drafting
  BY <1>1 DEF PublishIntent, Drafting
<1>5. /\ w \in Worktrees /\ IntentOK(w, j) /\ j.phase = Planned
      /\ \A v \in Worktrees : journal[v] = None
  BY <1>1, <1>2, <1>3, <1>4, Drafted
<1>6. journal' = [journal EXCEPT ![w] = j]
  BY <1>1, <1>2, <1>3 DEF PublishIntent
<1>7. journal'[w] = j /\ \A v \in Worktrees \ {w} : journal'[v] = None
  BY <1>5, <1>6 DEF IndInv, TypeOK
<1>8. \A v \in Worktrees \ {w} : Unseen(v)
  BY <1>5, <1>7 DEF Unseen
<1>9. j # None /\ j.changed \in SUBSET Parts /\ j.changed # {} /\ j.phase < Ready
  BY <1>5, AbsentAssumption DEF IntentOK, Intent, Planned, Ready
<1>10. StageOf(w)' = "open" /\ LeftOf(w)' = j.changed
  BY <1>5, <1>7, <1>9, ViewNext
<1>11. \A v \in Worktrees : Stages[v] = "none"
  BY <1>5, Views DEF View, Stages
<1> QED BY <1>5, <1>8, <1>9, <1>10, <1>11, OneChange

\* Recording Ready decides it, with everything still to be published.
LEMMA DecideStep ==
  ASSUME IndInv, IndInv', NEW p \in Procs, MarkReady(p)
  PROVE  \E w \in Worktrees :
           /\ Stages[w] = "open" /\ Stages' = [Stages EXCEPT ![w] = "decided"]
           /\ Lefts' = Lefts
<1>1. PICK o : o = op[p]
  OBVIOUS
<1>2. PICK w : w = o.wt
  OBVIOUS
<1>3. PICK j : j = o.seen
  OBVIOUS
<1>4. PICK i : i = [j EXCEPT !.phase = Ready]
  OBVIOUS
<1>5. o.pc = "ready" /\ o.pc \in Journalled /\ o.pc \in Staging
  BY <1>1 DEF MarkReady, Journalled, Staging
<1>6. /\ w \in Worktrees /\ StateOK(o) /\ journal[w] = j /\ j # None /\ IntentOK(w, j)
      /\ \A v \in Worktrees \ {w} : journal[v] = None
  BY <1>1, <1>2, <1>3, <1>5, AtWork
<1>7. StageOK(o) /\ j.phase = Planned
  BY <1>3, <1>5, <1>6 DEF StateOK, StageOK
<1>8. journal' = [journal EXCEPT ![w] = i] /\ private' = private
  BY <1>1, <1>2, <1>3, <1>4 DEF MarkReady
<1>9. journal'[w] = i /\ \A v \in Worktrees \ {w} : journal'[v] = None
  BY <1>6, <1>8 DEF IndInv, TypeOK
<1>10. i.phase = Ready /\ i.tx = j.tx /\ i.changed = j.changed /\ i # None
  <2>1. i \in Intent
    BY <1>4, <1>6 DEF IntentOK, Intent, Ready, Planned, Applied
  <2> QED BY <1>4, <1>6, <2>1, AbsentAssumption DEF IntentOK, Intent
<1>11. \A v \in Worktrees \ {w} : Unseen(v)
  BY <1>6, <1>9 DEF Unseen
<1>12. Stages[w] = "open" /\ Lefts[w] = j.changed
  BY <1>6, <1>7, Views DEF View, Stages, Lefts, Planned, Ready
<1>13. ASSUME NEW c \in i.changed PROVE Staged(w, i, c)'
  <2>1. PICK m \in 1 .. 3 : c = Order[m]
    BY <1>6, <1>10, <1>13, FileOfPart, Ordered DEF IntentOK
  <2>2. Images(j, File(w, c)) = {After(j, c)}
    BY <1>2, <1>3, <1>5, <1>7, <1>10, <1>13, <2>1 DEF StageOK
  <2>3. Images(i, File(w, c))' # {}
    BY <1>8, <1>10, <2>2 DEF Images
  <2>4. Publishing(w, i, c)'
    BY <1>6, <1>9, <1>10, <1>13, ViewNext DEF Ready
  <2> QED BY <2>3, <2>4 DEF Publishing, Locked, Displaced, Out
<1>14. StageOf(w)' = "decided" /\ LeftOf(w)' = i.changed
  <2>1. /\ StageOf(w)' = "decided"
        /\ LeftOf(w)' = {c \in i.changed : Staged(w, i, c)' \/ Locked(w, i, c)'}
    BY <1>6, <1>9, <1>10, ViewNext DEF Ready
  <2> QED BY <1>13, <2>1
<1>15. Lefts' = Lefts
  <2>1. Lefts' = [Lefts EXCEPT ![w] = Lefts[w]]
    BY <1>6, <1>10, <1>11, <1>12, <1>14, OneChange
  <2> QED BY <2>1 DEF Lefts
<1> QED BY <1>6, <1>11, <1>12, <1>14, <1>15, OneChange

\* Exchanging the target publishes a participant.
LEMMA PublishStep ==
  ASSUME IndInv, IndInv', NEW p \in Procs, Swap(p)
  PROVE  \E w \in Worktrees, c \in Parts :
           /\ Stages[w] = "decided" /\ c \in Lefts[w] /\ Stages' = Stages
           /\ Lefts' = [Lefts EXCEPT ![w] = @ \ {c}]
<1>1. PICK o : o = op[p]
  OBVIOUS
<1>2. PICK w : w = o.wt
  OBVIOUS
<1>3. PICK j : j = o.seen
  OBVIOUS
<1>4. PICK c : c = Order[o.k]
  OBVIOUS
<1>5. PICK f : f = File(w, c)
  OBVIOUS
<1>6. o.pc = "swap" /\ o.pc \in Journalled /\ o.pc \in Applying
  BY <1>1 DEF Swap, Journalled, Applying
<1>7. /\ w \in Worktrees /\ StateOK(o) /\ journal[w] = j /\ j # None /\ IntentOK(w, j)
      /\ (\A v \in Worktrees \ {w} : journal[v] = None) /\ o.k \in 1 .. 3
  BY <1>1, <1>2, <1>3, <1>6, AtWork
<1>8. j.phase >= Ready /\ c \in j.changed /\ Locked(w, j, c)
  <2>1. j.phase >= o.k /\ j.phase \in 0 .. 4
    BY <1>3, <1>6, <1>7 DEF StateOK, ApplyOK, IntentOK, Intent, Planned, Applied
  <2> QED BY <1>2, <1>3, <1>4, <1>6, <1>7, <2>1 DEF StateOK, ApplyOK, Ready
<1>9. c \in Parts /\ f \in Files
  BY <1>4, <1>5, <1>7, <1>8, Ordered, Participant
<1>10. /\ journal' = journal /\ git' = git /\ private' = private
       /\ target'[f] = After(j, c)
       /\ \A g \in Files \ {f} : target'[g] = target[g] /\ lock'[g] = lock[g]
  BY <1>1, <1>2, <1>3, <1>4, <1>5, <1>9
  DEF Swap, Here, Part, Published, count, IndInv, TypeOK
<1>11. \A v \in Worktrees \ {w} : Unseen(v)
  BY <1>7, <1>10 DEF Unseen
<1>12. /\ Stages[w] = "decided"
       /\ Lefts[w] = {d \in j.changed : Staged(w, j, d) \/ Locked(w, j, d)}
       /\ \A d \in j.changed : Publishing(w, j, d)
  BY <1>7, <1>8, Views DEF View, Stages, Lefts
<1>13. /\ StageOf(w)' = "decided"
       /\ LeftOf(w)' = {d \in j.changed : Staged(w, j, d)' \/ Locked(w, j, d)'}
       /\ \A d \in j.changed :
            Staged(w, j, d)' \/ Locked(w, j, d)' => ~(Displaced(w, j, d)' \/ Out(w, j, d)')
  BY <1>7, <1>8, <1>10, ViewNext
<1>14. ASSUME NEW d \in j.changed, d # c
       PROVE  Staged(w, j, d)' \/ Locked(w, j, d)' <=> Staged(w, j, d) \/ Locked(w, j, d)
  <2>1. File(w, d) \in Files /\ File(w, d) # f
    BY <1>5, <1>7, <1>14, FileOfPart, Participant
  <2>2. /\ Staged(w, j, d) => Staged(w, j, d)'
        /\ Locked(w, j, d) => Locked(w, j, d)'
        /\ Displaced(w, j, d) => Displaced(w, j, d)'
        /\ Out(w, j, d) => Out(w, j, d)'
    BY <1>10, <2>1, Frame
  <2> QED BY <1>12, <1>13, <2>2 DEF Publishing
<1>15. ~(Staged(w, j, c)' \/ Locked(w, j, c)')
  <2>1. After(j, c) # j.before[c] /\ After(j, c).id = j.tx /\ j.tx \notin git
    BY <1>7, <1>8, Participant
  <2>2. Images(j, f)' = {}
    BY <1>5, <1>8, <1>10 DEF Locked, Images
  <2> QED BY <1>5, <1>10, <2>1, <2>2 DEF Staged, Locked
<1>16. LeftOf(w)' = Lefts[w] \ {c} /\ c \in Lefts[w]
  BY <1>8, <1>12, <1>13, <1>14, <1>15
<1>17. Stages' = Stages
  <2>1. Stages' = [Stages EXCEPT ![w] = Stages[w]]
    BY <1>7, <1>11, <1>12, <1>13, OneChange
  <2> QED BY <2>1 DEF Stages
<1>18. Lefts' = [Lefts EXCEPT ![w] = @ \ {c}]
  BY <1>7, <1>11, <1>16, OneChange
<1> QED BY <1>7, <1>9, <1>12, <1>16, <1>17, <1>18

\* Retiring the journal abandons a transaction that is not ready and finishes one
\* whose participants are all published.
LEMMA RetireStep ==
  ASSUME IndInv, IndInv', NEW p \in Procs, Retire(p)
  PROVE  \E w \in Worktrees :
           /\ Stages' = [Stages EXCEPT ![w] = "none"]
           /\ \/ Stages[w] = "open" /\ Lefts' = [Lefts EXCEPT ![w] = {}]
              \/ Stages[w] = "decided" /\ Lefts[w] = {} /\ Lefts' = Lefts
<1>1. PICK o : o = op[p]
  OBVIOUS
<1>2. PICK w : w = o.wt
  OBVIOUS
<1>3. PICK j : j = o.seen
  OBVIOUS
<1>4. o.pc = "retire" /\ o.pc \in Journalled
  BY <1>1 DEF Retire, Journalled
<1>5. /\ w \in Worktrees /\ StateOK(o) /\ journal[w] = j /\ j # None /\ IntentOK(w, j)
      /\ (\A v \in Worktrees \ {w} : journal[v] = None) /\ PhaseOK(w, j)
  BY <1>1, <1>2, <1>3, <1>4, AtWork
<1>6. journal' = [journal EXCEPT ![w] = None]
  BY <1>1, <1>2 DEF Retire
<1>7. \A v \in Worktrees : journal'[v] = None
  BY <1>5, <1>6 DEF IndInv, TypeOK
<1>8. \A v \in Worktrees \ {w} : Unseen(v)
  BY <1>5, <1>7 DEF Unseen
<1>9. StageOf(w)' = "none" /\ LeftOf(w)' = {}
  BY <1>5, <1>7, ViewNext
<1>10. Stages' = [Stages EXCEPT ![w] = "none"] /\ Lefts' = [Lefts EXCEPT ![w] = {}]
  BY <1>5, <1>8, <1>9, OneChange
<1>11. j.phase \in {Planned, Applied(3)}
  BY <1>3, <1>4, <1>5 DEF StateOK
<1>12. CASE j.phase = Planned
  <2>1. Stages[w] = "open"
    BY <1>5, <1>12, Views DEF View, Stages, Planned, Ready
  <2> QED BY <1>5, <1>10, <2>1
<1>13. CASE j.phase = Applied(3)
  <2>1. j.phase >= Ready
    BY <1>13 DEF Ready, Applied
  <2>2. ASSUME NEW c \in j.changed PROVE ~(Staged(w, j, c) \/ Locked(w, j, c))
    <3>1. PICK m \in 1 .. 3 : c = Order[m]
      BY <1>5, <2>2, FileOfPart, Ordered DEF IntentOK
    <3>2. Out(w, j, c)
      BY <1>5, <1>13, <2>2, <3>1 DEF PhaseOK, Applied
    <3> QED BY <1>5, <2>1, <2>2, <3>2, Views DEF View
  <2>3. Stages[w] = "decided" /\ Lefts[w] = {}
    BY <1>5, <2>1, <2>2, Views DEF View, Stages, Lefts
  <2>4. Lefts' = Lefts
    BY <1>5, <1>10, <2>3 DEF Lefts
  <2> QED BY <1>5, <1>10, <2>3, <2>4
<1> QED BY <1>11, <1>12, <1>13

\* A step of a process that sees no participant published changes nothing the
\* contract sees.
LEMMA QuietSteps ==
  ASSUME IndInv, IndInv', NEW p \in Procs,
         \/ Step(p) /\ ~(PublishIntent(p) \/ MarkReady(p) \/ Swap(p) \/ Retire(p))
         \/ Crash(p) \/ Cancel(p)
         \/ \E w \in Worktrees, u \in Urls \cup {None} : Start(p, w, u)
  PROVE  Stages' = Stages /\ Lefts' = Lefts
<1>1. ASSUME NEW v \in Worktrees PROVE Unseen(v)
  <2>1. CASE Record(p) \/ Advance(p)
    BY <1>1, <2>1, UnseenRecord
  <2>2. CASE Reserve(p) \/ Prepare(p) \/ Discard(p)
    BY <1>1, <2>2, UnseenPlanned
  <2>3. CASE Apply(p) \/ Unlock(p)
    BY <1>1, <2>3, UnseenOther
  <2>4. CASE \/ \E w \in Worktrees, u \in Urls \cup {None} : Start(p, w, u)
             \/ Check(p) \/ ClearOrphan(p) \/ Plan(p) \/ PublishClaim(p) \/ MakeControl(p)
             \/ Validate(p) \/ Unclaim(p) \/ Fail(p) \/ Crash(p) \/ Cancel(p)
    BY <1>1, <2>4, UnseenQuiet
  <2> QED BY <2>1, <2>2, <2>3, <2>4 DEF Step
<1> QED BY <1>1, NoChange

\* The step lemmas speak of the contract's own variables.
LEMMA ContractStep ==
  ASSUME IndInv, IndInv', [Next]_vars
  PROVE  [Contract!ContractNext]_(Contract!contractVars)
<1>1. CASE \E p \in Procs : PublishIntent(p)
  <2>1. \E w \in Worktrees, cs \in SUBSET Parts : Contract!Open(w, cs)
    BY <1>1, OpenStep DEF Contract!Open, Stages, Lefts
  <2> QED BY <2>1 DEF Contract!ContractNext
<1>2. CASE \E p \in Procs : MarkReady(p)
  <2>1. \E w \in Worktrees : Contract!Decide(w)
    BY <1>2, DecideStep DEF Contract!Decide, Stages, Lefts
  <2> QED BY <2>1 DEF Contract!ContractNext
<1>3. CASE \E p \in Procs : Swap(p)
  <2>1. \E w \in Worktrees, c \in Parts : Contract!Publish(w, c)
    BY <1>3, PublishStep DEF Contract!Publish, Stages, Lefts
  <2> QED BY <2>1 DEF Contract!ContractNext
<1>4. CASE \E p \in Procs : Retire(p)
  <2>1. \E w \in Worktrees : Contract!Abandon(w) \/ Contract!Finish(w)
    BY <1>4, RetireStep DEF Contract!Abandon, Contract!Finish, Stages, Lefts
  <2> QED BY <2>1 DEF Contract!ContractNext
<1>5. ASSUME NEW p \in Procs,
             \/ Step(p) /\ ~(PublishIntent(p) \/ MarkReady(p) \/ Swap(p) \/ Retire(p))
             \/ Crash(p) \/ Cancel(p)
             \/ \E w \in Worktrees, u \in Urls \cup {None} : Start(p, w, u)
      PROVE  UNCHANGED Contract!contractVars
  BY <1>5, QuietSteps DEF Contract!contractVars, Stages, Lefts
<1>6. CASE \E f \in Files : Edit(f) \/ GitLock(f) \/ GitCommit(f)
  <2>1. \A v \in Worktrees : Unseen(v)
    BY <1>6, UnseenOther
  <2> QED BY <2>1, NoChange DEF Contract!contractVars, Stages, Lefts
<1>7. CASE UNCHANGED vars
  <2>1. UNCHANGED <<target, lock, private, git, journal>>
    BY <1>7 DEF vars, disk, count
  <2>2. \A v \in Worktrees : Unseen(v)
    BY <2>1, UnseenSame
  <2> QED BY <2>2, NoChange DEF Contract!contractVars, Stages, Lefts
<1> QED BY <1>1, <1>2, <1>3, <1>4, <1>5, <1>6, <1>7 DEF Next

\* Set-url, with its crashes, cancelled callers, recoveries and foreign writers,
\* implements the roll-forward contract: one transaction at a time, nothing
\* published before the decision, each participant once after it, and no end
\* before the last of them.
THEOREM Implements == Spec => ImplementsRollForward
<1>1. Init => Contract!ContractInit
  BY DEF Init, Contract!ContractInit, StageOf, LeftOf
<1>2. IndInv /\ IndInv' /\ [Next]_vars => [Contract!ContractNext]_(Contract!contractVars)
  BY ContractStep
<1> QED BY <1>1, <1>2, Invariant, PTL DEF Spec, ImplementsRollForward, Contract!ContractSpec

=============================================================================
