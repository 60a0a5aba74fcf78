--------------------------- MODULE ObjectStoreProofs ---------------------------
(***************************************************************************)
(* What a repack, a publication and a read promise each other, proved for   *)
(* every store, every number of processes and every bound, as long as no    *)
(* two repacks delete at the same time that have written several packs.     *)
(* The code does not exclude that, and then the theorems fail, as the run   *)
(* of ObjectsTwoRepacks shows.                                              *)
(***************************************************************************)
EXTENDS ObjectStore, FiniteSetTheorems, TLAPS

Dropping(r) == job[r].pc \in {"drop", "dropidx"}
OnePack(r) == \A P, Q \in job[r].made : P = Q

\* Two repacks that delete their sources at the same time have written one pack each.
Compatible ==
    \A r, s \in Repackers : r # s /\ Dropping(r) /\ Dropping(s) => OnePack(r) /\ OnePack(s)

-----------------------------------------------------------------------------
(* Types *)

JobFields ==
    [pc : {"idle", "list", "plan", "write", "index", "flush", "drop", "dropidx", "midx", "done"},
     limit : Limits \cup {0}, mode : Modes \cup {"none"}, batch : SUBSET Packs,
     kept : SUBSET Packs, loose : SUBSET Objects, todo : SUBSET Packs, made : SUBSET Packs,
     cur : Packs \cup {{}}]
PubFields ==
    [pc : {"idle", "write", "fill", "index", "look", "flush", "check", "error"},
     way : Ways \cup {"none"}, objs : SUBSET Objects, todo : SUBSET Objects,
     cur : Objects \cup {None}, seen : SUBSET [obj : Objects, in : SUBSET File],
     tries : 0 .. StabilityAttempts - 1, failed : BOOLEAN]
ReadState ==
    [pc : {"idle", "loose", "list", "search", "probe", "fetch",
           "found", "notfound", "noindex", "limit", "corrupt"},
     obj : Objects \cup {None}, observed : SUBSET Packs, listed : SUBSET Packs,
     searched : SUBSET Packs, cur : Packs \cup {{}}, gone : BOOLEAN, noidx : BOOLEAN,
     passes : 0 .. MaxPackCount + 1]

\* An index is written only where a pack was, a pack is never empty, and a loose
\* file that is being written is an object's.
JobState == {j \in JobFields : j.pc = "index" => j.cur # {}}
PubState ==
    {u \in PubFields : /\ u.pc \in {"write", "fill", "index"} => u.objs # {}
                       /\ u.pc = "fill" => u.cur \in Objects}

DiskOK ==
    /\ files \subseteq File /\ flushed \subseteq files /\ torn \subseteq files
    /\ open \subseteq Publishers
    /\ midx = None \/ midx \subseteq Packs

\* The type invariant that is inductive.
Typed ==
    /\ DiskOK
    /\ job \in [Repackers -> JobState] /\ pub \in [Publishers -> PubState]
    /\ durable \subseteq Objects /\ read \in [Readers -> ReadState]
    /\ repacks \in 0 .. MaxRepacks /\ writes \in 0 .. MaxWrites
    /\ reads \in 0 .. MaxReads /\ stops \in 0 .. MaxStops

\* It implies the one the runs check.
LEMMA TypedIsOK == Typed => TypeOK
BY DEF Typed, TypeOK, DiskOK, JobState, PubState, JobFields, PubFields, ReadState

\* Every name of a file is a file.
LEMMA FileNames ==
  /\ \A o \in Objects : Loose(o) \in File
  /\ \A P \in Packs : Pack(P) \in File /\ Idx(P) \in File
BY DEF File, Loose, Pack, Idx

\* What is read off the disk is objects and packs.
LEMMA DiskReads == \A F : LooseObjects(F) \subseteq Objects /\ PacksOn(F) \subseteq Packs
BY DEF LooseObjects, PacksOn

\* A process that has nothing to do is in a state of its kind.
LEMMA NothingYet ==
  /\ NoJob \in JobState /\ NoPub \in PubState /\ NoRead \in ReadState
BY LimitAssumption DEF NoJob, NoPub, NoRead, JobState, JobFields, PubState, PubFields, ReadState

\* A pack is a set of objects, and not empty.
LEMMA PackIs == \A P : P \in Packs <=> P \subseteq Objects /\ P # {}
<1> TAKE P
<1>1. P \in SUBSET Objects <=> P \subseteq Objects
  OBVIOUS
<1>2. P \in {{}} <=> P = {}
  OBVIOUS
<1> QED BY <1>1, <1>2 DEF Packs

\* A partition consists of packs.
LEMMA PartitionPacks ==
  ASSUME NEW ids \in SUBSET Objects, NEW limit
  PROVE  Partition(ids, limit) \subseteq Packs
<1>1. ASSUME NEW P \in Partition(ids, limit) PROVE P \subseteq ids /\ P # {}
  BY <1>1, Zenon DEF Partition
<1> QED BY <1>1, PackIs

\* A batch is of objects.
LEMMA BatchOfObjects ==
  ASSUME job \in [Repackers -> JobState], NEW r \in Repackers
  PROVE  BatchObjects(r) \subseteq Objects
<1>1. job[r].batch \subseteq Packs /\ job[r].loose \subseteq Objects
  BY DEF JobState, JobFields
<1>2. \A P \in job[r].batch : P \subseteq Objects
  BY <1>1, PackIs
<1>3. ASSUME NEW o \in BatchObjects(r) PROVE o \in Objects
  <2>1. o \in job[r].loose \/ \E P \in job[r].batch : o \in P
    BY <1>3 DEF BatchObjects
  <2> QED BY <1>1, <1>2, <2>1
<1> QED BY <1>3

\* Creating, deleting and flushing files keep the disk well-typed.
LEMMA DiskKept ==
  ASSUME DiskOK, NEW f \in File, NEW F, Create(f) \/ Delete(f) \/ Barrier(F) \/ UNCHANGED disk
  PROVE  DiskOK'
BY DEF DiskOK, Create, Delete, Barrier, disk

\* A geometric batch is what the split does not keep, and the loose objects.
LEMMA GeometricPlan ==
  ASSUME NEW r, GeometricBatch(r)
  PROVE  \E kept \in SUBSET job[r].batch, next \in {"plan", "done", "midx"} :
           job' = [job EXCEPT ![r].pc = next, ![r].batch = @ \ kept, ![r].kept = kept,
                              ![r].loose = LooseObjects(files)]
BY DEF GeometricBatch

\* A repacker's step keeps the types.
LEMMA RepackType == ASSUME Typed, NEW r \in Repackers, Repack(r) PROVE Typed'
<1>1. /\ DiskOK /\ job \in [Repackers -> JobState] /\ job[r] \in JobState
      /\ repacks \in 0 .. MaxRepacks /\ stops \in 0 .. MaxStops
  BY DEF Typed
<1>2. /\ DiskOK' /\ job' \in [Repackers -> JobState]
      /\ repacks' \in 0 .. MaxRepacks /\ stops' \in 0 .. MaxStops
      /\ UNCHANGED <<pub, durable, read, writes, reads>>
  <2>1. CASE StartRepack(r)
    <3>1. PICK limit \in Limits, mode \in Modes :
            job' = [job EXCEPT ![r] = [NoJob EXCEPT !.pc = "list", !.limit = limit, !.mode = mode,
                                                    !.batch = PacksOn(files)]]
      BY <2>1 DEF StartRepack
    <3>2. [NoJob EXCEPT !.pc = "list", !.limit = limit, !.mode = mode, !.batch = PacksOn(files)]
            \in JobState
      BY DiskReads DEF NoJob, JobState, JobFields
    <3>3. job' \in [Repackers -> JobState]
      BY <1>1, <3>1, <3>2
    <3> QED BY <1>1, <2>1, <3>3, BoundsAssumption DEF StartRepack, disk, DiskOK
  <2>2. CASE FullNoop(r) \/ FullBatch(r)
    BY <1>1, <2>2, DiskReads DEF FullNoop, FullBatch, RepackUnchanged, JobState, JobFields, disk, DiskOK
  <2>3. CASE GeometricBatch(r)
    <3>1. PICK kept \in SUBSET job[r].batch, next \in {"plan", "done", "midx"} :
            job' = [job EXCEPT ![r].pc = next, ![r].batch = @ \ kept, ![r].kept = kept,
                               ![r].loose = LooseObjects(files)]
      BY <2>3, GeometricPlan
    <3>2. PICK n : n = [job[r] EXCEPT !.pc = next, !.batch = @ \ kept, !.kept = kept,
                                      !.loose = LooseObjects(files)]
      OBVIOUS
    <3>3. n \in JobState
      BY <1>1, <3>2, DiskReads DEF JobState, JobFields
    <3>4. job' = [job EXCEPT ![r] = n]
      BY <3>1, <3>2
    <3>5. UNCHANGED disk /\ RepackUnchanged
      BY <2>3, Zenon DEF GeometricBatch
    <3> QED BY <1>1, <3>3, <3>4, <3>5 DEF RepackUnchanged, disk, DiskOK
  <2>4. CASE PlanPacks(r)
    <3>1. BatchObjects(r) \subseteq Objects
      BY <1>1, BatchOfObjects
    <3>2. Partition(BatchObjects(r), job[r].limit) \subseteq Packs
      BY <3>1, PartitionPacks
    <3> QED BY <1>1, <2>4, <3>2 DEF PlanPacks, RepackUnchanged, JobState, JobFields, disk, DiskOK
  <2>5. CASE WritePack(r)
    <3>1. PICK P \in job[r].todo :
            /\ Create(Pack(P)) /\ job' = [job EXCEPT ![r].pc = "index", ![r].cur = P]
      BY <2>5 DEF WritePack
    <3>2. P \in Packs
      BY <1>1 DEF JobState, JobFields
    <3>3. DiskOK'
      BY <1>1, <3>1, <3>2, FileNames, DiskKept
    <3>4. PICK n : n = [job[r] EXCEPT !.pc = "index", !.cur = P]
      OBVIOUS
    <3>5. n \in JobState
      BY <1>1, <3>2, <3>4, PackIs DEF JobState, JobFields
    <3>6. job' = [job EXCEPT ![r] = n]
      BY <3>1, <3>4
    <3> QED BY <1>1, <2>5, <3>3, <3>5, <3>6 DEF WritePack, RepackUnchanged
  <2>6. CASE WriteIdx(r)
    <3>1. job[r].cur \in Packs
      BY <1>1, <2>6 DEF WriteIdx, JobState, JobFields
    <3>2. DiskOK'
      BY <1>1, <2>6, <3>1, FileNames, DiskKept DEF WriteIdx
    <3>3. PICK P, n : P = job[r].cur
            /\ n = [job[r] EXCEPT !.pc = IF job[r].todo = {P} THEN "flush" ELSE "write",
                                  !.todo = @ \ {P}, !.made = @ \cup {P}, !.cur = {}]
      OBVIOUS
    <3>4. n \in JobState
      BY <1>1, <3>1, <3>3 DEF JobState, JobFields
    <3>5. job' = [job EXCEPT ![r] = n]
      BY <2>6, <3>3 DEF WriteIdx
    <3>6. RepackUnchanged
      BY <2>6 DEF WriteIdx
    <3> QED BY <1>1, <3>2, <3>4, <3>5, <3>6 DEF RepackUnchanged
  <2>7. CASE FlushPacks(r)
    BY <1>1, <2>7 DEF FlushPacks, RepackUnchanged, JobState, JobFields, Barrier, DiskOK
  <2>8. CASE DropPack(r)
    <3>1. PICK P \in Sources(r) :
            /\ Delete(Pack(P)) /\ job' = [job EXCEPT ![r].pc = "dropidx", ![r].cur = P]
      BY <2>8 DEF DropPack
    <3>2. P \in Packs
      BY <1>1 DEF JobState, JobFields, Sources
    <3>3. DiskOK'
      BY <1>1, <3>1, <3>2, FileNames, DiskKept
    <3> QED BY <1>1, <2>8, <3>1, <3>2, <3>3 DEF DropPack, RepackUnchanged, JobState, JobFields
  <2>9. CASE DropIdx(r)
    <3>1. PICK j : j = job[r]
      OBVIOUS
    <3>2. PICK n : n = [j EXCEPT !.pc = "drop", !.batch = @ \ {j.cur}, !.cur = {}]
      OBVIOUS
    <3>3. job' = [job EXCEPT ![r] = n]
      BY <2>9, <3>1, <3>2 DEF DropIdx
    <3>4. n \in JobState
      BY <1>1, <3>1, <3>2 DEF JobState, JobFields
    <3>5. Delete(Idx(j.cur)) /\ RepackUnchanged
      BY <2>9, <3>1 DEF DropIdx
    <3>6. DiskOK'
      BY <1>1, <3>5 DEF Delete, DiskOK
    <3> QED BY <1>1, <3>3, <3>4, <3>5, <3>6 DEF RepackUnchanged
  <2>10. CASE DropLoose(r)
    BY <1>1, <2>10 DEF DropLoose, Delete, RepackUnchanged, JobState, JobFields, DiskOK
  <2>11. CASE WriteMidx(r)
    BY <1>1, <2>11 DEF WriteMidx, MidxPacks, RepackUnchanged, JobState, JobFields, DiskOK
  <2>12. CASE RepackFails(r) \/ DeleteContended(r)
    BY <1>1, <2>12, NothingYet DEF RepackFails, DeleteContended, RepackUnchanged, disk, DiskOK
  <2>13. CASE StopRepack(r)
    BY <1>1, <2>13, NothingYet, BoundsAssumption DEF StopRepack, disk, DiskOK
  <2> QED BY <2>1, <2>2, <2>3, <2>4, <2>5, <2>6, <2>7, <2>8, <2>9, <2>10, <2>11, <2>12, <2>13
          DEF Repack
<1> QED BY <1>2 DEF Typed

\* A publisher that has dealt with a loose file goes on in a state of its kind.
LEMMA WroteLooseType ==
  ASSUME NEW q \in Publishers, NEW o \in Objects, WroteLoose(q, o),
         pub \in [Publishers -> PubState], pub[q].pc \in {"write", "fill"}
  PROVE  pub' \in [Publishers -> PubState]
<1>1. PICK u : u = pub[q]
  OBVIOUS
<1>2. u \in PubState /\ u.pc \in {"write", "fill"}
  BY <1>1
<1>6. u \in PubFields /\ u.objs # {}
  BY <1>2 DEF PubState
<1>3. PICK n : n = IF u.todo = {o} THEN [u EXCEPT !.pc = "look", !.todo = u.objs, !.cur = None]
                   ELSE [u EXCEPT !.pc = "write", !.todo = @ \ {o}, !.cur = None]
  OBVIOUS
<1>4. n \in PubState
  <2>1. /\ n.pc \in {"look", "write"} /\ n.objs = u.objs /\ n \in PubFields
    BY <1>6, <1>3 DEF PubFields
  <2> QED BY <1>6, <2>1 DEF PubState
<1>5. pub' = [pub EXCEPT ![q] = n]
  BY <1>1, <1>3 DEF WroteLoose
<1> QED BY <1>4, <1>5

\* So does a publisher's step.
LEMMA PublishType == ASSUME Typed, NEW q \in Publishers, Publish(q) PROVE Typed'
<1>1. /\ DiskOK /\ pub \in [Publishers -> PubState] /\ pub[q] \in PubState
      /\ writes \in 0 .. MaxWrites /\ stops \in 0 .. MaxStops /\ durable \subseteq Objects
  BY DEF Typed
<1>2. /\ DiskOK' /\ pub' \in [Publishers -> PubState]
      /\ writes' \in 0 .. MaxWrites /\ stops' \in 0 .. MaxStops /\ durable' \subseteq Objects
      /\ UNCHANGED <<job, read, repacks, reads>>
  <2>1. CASE StartPublish(q)
    <3>1. PICK objs \in Pushes, way \in Ways :
            pub' = [pub EXCEPT ![q] = [NoPub EXCEPT !.pc = "write", !.way = way,
                                                    !.objs = objs, !.todo = objs]]
      BY <2>1 DEF StartPublish
    <3>2. [NoPub EXCEPT !.pc = "write", !.way = way, !.objs = objs, !.todo = objs] \in PubState
      <4>1. objs \in SUBSET Objects /\ objs # {} /\ 0 \in 0 .. StabilityAttempts - 1
        BY LimitAssumption, PackIs
      <4> QED BY <4>1 DEF NoPub, PubState, PubFields
    <3> QED BY <1>1, <2>1, <3>1, <3>2, BoundsAssumption DEF StartPublish, disk, DiskOK
  <2>2. CASE LooseExists(q) \/ FillLoose(q)
    <3>1. pub[q] \in PubFields /\ (pub[q].pc = "fill" => pub[q].cur \in Objects)
      BY <1>1 DEF PubState
    <3>2. pub[q].pc \in {"write", "fill"}
      BY <2>2 DEF LooseExists, FillLoose
    <3>3. PICK o \in Objects : WroteLoose(q, o)
      <4>1. CASE LooseExists(q)
        BY <3>1, <4>1 DEF LooseExists, PubFields
      <4>2. CASE FillLoose(q)
        <5>1. pub[q].pc = "fill" /\ WroteLoose(q, pub[q].cur)
          BY <4>2 DEF FillLoose
        <5> QED BY <3>1, <5>1
      <4> QED BY <2>2, <4>1, <4>2
    <3>4. pub' \in [Publishers -> PubState]
      BY <1>1, <3>2, <3>3, WroteLooseType
    <3>5. /\ files' = files /\ flushed' \subseteq flushed /\ torn' \subseteq torn
          /\ open' \subseteq open /\ midx' = midx
      BY <2>2 DEF LooseExists, FillLoose, disk
    <3>6. DiskOK'
      BY <1>1, <3>5 DEF DiskOK
    <3> QED BY <1>1, <2>2, <3>4, <3>6 DEF LooseExists, FillLoose, PubUnchanged
  <2>3. CASE CreateLoose(q)
    <3>1. PICK o \in pub[q].todo :
            /\ files' = files \cup {Loose(o)} /\ torn' = torn \cup {Loose(o)}
            /\ pub' = [pub EXCEPT ![q].pc = "fill", ![q].cur = o]
      BY <2>3 DEF CreateLoose
    <3>2. o \in Objects /\ Loose(o) \in File
      BY <1>1, FileNames DEF PubState, PubFields
    <3>3. PICK n : n = [pub[q] EXCEPT !.pc = "fill", !.cur = o]
      OBVIOUS
    <3>4. n \in PubState
      <4>1. pub[q] \in PubFields /\ pub[q].objs # {}
        BY <1>1, <2>3 DEF CreateLoose, PubState
      <4>2. n \in PubFields /\ n.objs = pub[q].objs /\ n.cur = o
        BY <3>2, <3>3, <4>1 DEF PubFields
      <4> QED BY <3>2, <4>1, <4>2 DEF PubState
    <3>5. pub' = [pub EXCEPT ![q] = n]
      BY <3>1, <3>3
    <3>6. DiskOK'
      BY <1>1, <2>3, <3>1, <3>2 DEF CreateLoose, DiskOK
    <3> QED BY <1>1, <2>3, <3>4, <3>5, <3>6 DEF CreateLoose, PubUnchanged
  <2>4. CASE ReceivePack(q)
    <3>1. pub[q].objs \in Packs
      BY <1>1, <2>4, PackIs DEF ReceivePack, PubState, PubFields
    <3>2. DiskOK'
      BY <1>1, <2>4, <3>1, FileNames, DiskKept DEF ReceivePack
    <3> QED BY <1>1, <2>4, <3>2 DEF ReceivePack, PubUnchanged, PubState, PubFields
  <2>5. CASE ReceiveIdx(q)
    <3>1. pub[q].objs \in Packs
      BY <1>1, <2>5, PackIs DEF ReceiveIdx, PubState, PubFields
    <3>2. DiskOK'
      BY <1>1, <2>5, <3>1, FileNames, DiskKept DEF ReceiveIdx
    <3> QED BY <1>1, <2>5, <3>2 DEF ReceiveIdx, PubUnchanged, PubState, PubFields
  <2>6. CASE LookAt(q)
    <3>1. PICK o \in pub[q].todo : \E backing \in Backings(o) :
            pub' = [pub EXCEPT ![q].seen = @ \cup {[obj |-> o, in |-> backing]},
                               ![q].todo = @ \ {o},
                               ![q].pc = IF pub[q].todo = {o} THEN "flush" ELSE "look"]
      BY <2>6 DEF LookAt
    <3>2. PICK backing \in Backings(o) :
            pub' = [pub EXCEPT ![q].seen = @ \cup {[obj |-> o, in |-> backing]},
                               ![q].todo = @ \ {o},
                               ![q].pc = IF pub[q].todo = {o} THEN "flush" ELSE "look"]
      BY <3>1
    <3>3. o \in Objects /\ backing \in SUBSET File
      BY <1>1, <3>1, <3>2 DEF PubState, PubFields, Backings, DiskOK
    <3>4. PICK n : n = [pub[q] EXCEPT !.seen = @ \cup {[obj |-> o, in |-> backing]},
                                      !.todo = @ \ {o},
                                      !.pc = IF pub[q].todo = {o} THEN "flush" ELSE "look"]
      OBVIOUS
    <3>5. n \in PubState
      <4>1. [obj |-> o, in |-> backing] \in [obj : Objects, in : SUBSET File]
        BY <3>3
      <4>2. pub[q].seen \cup {[obj |-> o, in |-> backing]} \in SUBSET [obj : Objects, in : SUBSET File]
        BY <1>1, <4>1 DEF PubState, PubFields
      <4>3. pub[q].todo \ {o} \in SUBSET Objects
        BY <1>1 DEF PubState, PubFields
      <4> QED BY <1>1, <3>4, <4>2, <4>3 DEF PubState, PubFields
    <3>6. pub' = [pub EXCEPT ![q] = n]
      BY <3>2, <3>4
    <3> QED BY <1>1, <2>6, <3>5, <3>6 DEF LookAt, PubUnchanged, disk, DiskOK
  <2>7. CASE FlushSeen(q) \/ FlushFails(q)
    BY <1>1, <2>7 DEF FlushSeen, FlushFails, Barrier, PubUnchanged, PubState, PubFields, disk, DiskOK
  <2>8. CASE CheckOne(q)
    <3>1. PICK o \in pub[q].todo :
            /\ pub' = [pub EXCEPT ![q] =
                 IF pub[q].todo # {o} THEN [pub[q] EXCEPT !.todo = @ \ {o}]
                 ELSE IF pub[q].failed THEN [NoPub EXCEPT !.pc = "error"] ELSE NoPub]
            /\ durable' \subseteq durable \cup pub[q].objs
            /\ UNCHANGED <<disk, writes>> /\ PubUnchanged
      BY <2>8 DEF CheckOne
    <3>2. [NoPub EXCEPT !.pc = "error"] \in PubState /\ NoPub \in PubState
      BY NothingYet DEF PubState, PubFields, NoPub
    <3> QED BY <1>1, <3>1, <3>2 DEF PubUnchanged, PubState, PubFields, disk, DiskOK
  <2>9. CASE Moved(q)
    <3>1. [NoPub EXCEPT !.pc = "error"] \in PubState
      BY NothingYet DEF PubState, PubFields, NoPub
    <3>2. PICK n : n = [pub[q] EXCEPT !.pc = "look", !.todo = pub[q].objs, !.seen = {},
                                      !.tries = @ + 1, !.failed = FALSE]
      OBVIOUS
    <3>3. ASSUME pub[q].tries + 1 < StabilityAttempts PROVE n \in PubState
      <4>1. pub[q].tries + 1 \in 0 .. StabilityAttempts - 1
        BY <1>1, <3>3, LimitAssumption DEF PubState, PubFields
      <4> QED BY <1>1, <3>2, <4>1 DEF PubState, PubFields
    <3>4. pub' = [pub EXCEPT ![q] = IF pub[q].tries + 1 < StabilityAttempts THEN n
                                    ELSE [NoPub EXCEPT !.pc = "error"]]
      BY <2>9, <3>2 DEF Moved
    <3> QED BY <1>1, <2>9, <3>1, <3>3, <3>4 DEF Moved, PubUnchanged, disk, DiskOK
  <2>10. CASE LookFails(q) \/ StopPublish(q)
    <3>1. [NoPub EXCEPT !.pc = "error"] \in PubState /\ NoPub \in PubState
      BY NothingYet DEF PubState, PubFields, NoPub
    <3> QED BY <1>1, <2>10, <3>1, BoundsAssumption
            DEF LookFails, StopPublish, PubUnchanged, disk, DiskOK
  <2> QED BY <2>1, <2>2, <2>3, <2>4, <2>5, <2>6, <2>7, <2>8, <2>9, <2>10 DEF Publish
<1> QED BY <1>2 DEF Typed

\* So does a reader's step.
LEMMA ReadType == ASSUME Typed, NEW x \in Readers, Read(x) PROVE Typed'
<1>1. /\ DiskOK /\ read \in [Readers -> ReadState] /\ read[x] \in ReadState
      /\ reads \in 0 .. MaxReads /\ durable \subseteq Objects
  BY DEF Typed
<1>2. /\ read' \in [Readers -> ReadState] /\ reads' \in 0 .. MaxReads
      /\ UNCHANGED <<disk, job, pub, durable, repacks, writes, stops>>
  <2>1. CASE StartRead(x)
    <3>1. PICK o \in durable :
            read' = [read EXCEPT ![x] = [NoRead EXCEPT !.pc = "loose", !.obj = o]]
      BY <2>1 DEF StartRead
    <3>2. [NoRead EXCEPT !.pc = "loose", !.obj = o] \in ReadState
      <4>1. 0 \in 0 .. MaxPackCount + 1 /\ o \in Objects
        BY <1>1, LimitAssumption
      <4> QED BY <4>1 DEF NoRead, ReadState
    <3> QED BY <1>1, <2>1, <3>1, <3>2, BoundsAssumption DEF StartRead, ReadUnchanged
  <2>2. CASE ReadLoose(x) \/ TooManyPacks(x) \/ EndSearch(x)
    BY <1>1, <2>2 DEF ReadLoose, TooManyPacks, EndSearch, Goto, ReadState, ReadUnchanged
  <2>3. CASE ListPacks(x)
    BY <1>1, <2>3, DiskReads, LimitAssumption
    DEF ListPacks, WithinPackCount, ReadState, ReadUnchanged
  <2>4. CASE SearchPack(x)
    <3>1. PICK P \in read[x].listed, pc \in {"probe", "corrupt", "fetch", "search"},
               searched \in SUBSET Packs :
            read' = [read EXCEPT ![x].listed = @ \ {P}, ![x].cur = P, ![x].searched = searched,
                                 ![x].pc = pc]
      <4>1. PICK P \in read[x].listed :
              read' = [read EXCEPT ![x].listed = @ \ {P}, ![x].cur = P,
                 ![x].searched = IF Idx(P) \in files /\ read[x].obj \notin P THEN @ \cup {P} ELSE @,
                 ![x].pc = IF Idx(P) \notin files THEN "probe"
                           ELSE IF Idx(P) \in torn THEN "corrupt"
                           ELSE IF read[x].obj \in P THEN "fetch" ELSE "search"]
        BY <2>4 DEF SearchPack
      <4>2. PICK searched : searched = IF Idx(P) \in files /\ read[x].obj \notin P
                                         THEN read[x].searched \cup {P} ELSE read[x].searched
        OBVIOUS
      <4>3. PICK pc : pc = IF Idx(P) \notin files THEN "probe"
                           ELSE IF Idx(P) \in torn THEN "corrupt"
                           ELSE IF read[x].obj \in P THEN "fetch" ELSE "search"
        OBVIOUS
      <4>4. searched \in SUBSET Packs /\ pc \in {"probe", "corrupt", "fetch", "search"}
        BY <1>1, <4>1, <4>2, <4>3 DEF ReadState
      <4> QED BY <4>1, <4>2, <4>3, <4>4
    <3>2. PICK n : n = [read[x] EXCEPT !.listed = @ \ {P}, !.cur = P, !.searched = searched,
                                       !.pc = pc]
      OBVIOUS
    <3>3. n \in ReadState
      BY <1>1, <3>1, <3>2 DEF ReadState
    <3>4. read' = [read EXCEPT ![x] = n]
      BY <3>1, <3>2
    <3> QED BY <1>1, <2>4, <3>3, <3>4 DEF SearchPack, ReadUnchanged
  <2>5. CASE ProbePack(x) \/ FetchObject(x)
    BY <1>1, <2>5 DEF ProbePack, FetchObject, ReadState, ReadUnchanged
  <2> QED BY <2>1, <2>2, <2>3, <2>4, <2>5 DEF Read
<1>3. DiskOK'
  BY <1>1, <1>2 DEF disk, DiskOK
<1> QED BY <1>2, <1>3 DEF Typed

\* Every step keeps the types.
LEMMA TypeStep == Typed /\ [Next]_vars => Typed'
<1> SUFFICES ASSUME Typed, [Next]_vars PROVE Typed'
  OBVIOUS
<1>1. CASE PowerLoss
  BY <1>1, NothingYet, BoundsAssumption DEF PowerLoss, Typed, DiskOK
<1>2. CASE UNCHANGED vars
  BY <1>2 DEF vars, disk, Typed, DiskOK
<1> QED BY <1>1, <1>2, RepackType, PublishType, ReadType DEF Next

\* The store starts well-typed.
LEMMA InitType == Init => Typed
<1> SUFFICES ASSUME Init PROVE Typed
  OBVIOUS
<1>1. DiskOK
  BY StoreAssumption DEF Init, DiskOK
<1>2. durable \subseteq Objects
  <2>1. \A P \in PacksOn(files) : P \subseteq Objects
    BY DiskReads, PackIs
  <2> QED BY <2>1, DiskReads DEF Init
<1> QED BY <1>1, <1>2, NothingYet, BoundsAssumption DEF Init, Typed

\* Every variable of the object store keeps its type, however many processes
\* repack, write and read at once.
THEOREM TypeCorrect == Spec => []TypeOK
BY InitType, TypeStep, TypedIsOK, PTL DEF Spec

-----------------------------------------------------------------------------
(* The inductive invariant *)

Packed(F) == UNION PacksOn(F)

\* The objects F has a copy of: a whole loose file, or a pack, whole or not.
Copies(F) == {o \in Objects : Loose(o) \in F \ torn} \cup Packed(F)

\* What was made is durable, or another repack that made it part of one pack has
\* dropped it since.
Lasts(made) ==
    \A P \in made : \E M \in Packs :
        P \subseteq M /\ Pack(M) \in flushed /\ (M = P \/ made = {P})

\* What is to be rewritten is planned or made; what is made is durable before
\* anything is dropped.
JobOK(j) ==
    /\ j.pc \in {"list", "plan"} => j.limit # 0 /\ j.made = {}
    /\ j.pc \in {"write", "index", "flush"} =>
         (UNION j.batch) \cup j.loose \subseteq (UNION j.todo) \cup UNION j.made
    /\ j.pc = "index" => j.cur \in j.todo
    /\ j.pc = "flush" => j.todo = {}
    /\ j.pc \in {"drop", "dropidx"} =>
         /\ (UNION j.batch) \cup j.loose \subseteq UNION j.made
         /\ Lasts(j.made)

\* The files an object was seen in hold it, or a repack has moved it to a pack
\* that is flushed: the loose file that is there now may be another one.
Holds(s) ==
    \/ \E P \in Packs : s.obj \in P /\ Pack(P) \in s.in
    \/ Loose(s.obj) \in s.in /\ Whole(Loose(s.obj))
    \/ s.obj \in Packed(flushed)

\* Every object is looked for or has been seen, and flushed where it was seen.
PubOK(u) ==
    /\ u.todo \subseteq u.objs
    /\ \A s \in u.seen : Holds(s)
    /\ u.pc = "look" => u.objs \subseteq u.todo \cup {s.obj : s \in u.seen}
    /\ u.pc = "flush" => u.objs \subseteq {s.obj : s \in u.seen}
    /\ u.pc = "check" /\ ~u.failed => u.objs \subseteq Copies(flushed)

\* An unfinished loose file has one writer, and nobody has filled it yet.
OpenOK ==
    \A q \in open :
        /\ pub[q].pc = "fill" /\ Loose(pub[q].cur) \in torn
        /\ \A p \in open : pub[p].cur = pub[q].cur => p = q

\* A reader past the loose objects looks for an object that stays packed, and
\* has a reason to go on until it has found it.
ReadOK(x) ==
    /\ x.pc \in {"loose", "list", "search", "probe", "fetch"} => x.obj \in durable
    /\ x.pc \in {"list", "search", "probe", "fetch"} => x.obj \in Packed(files)
    /\ \A P \in x.searched : x.obj \notin P
    /\ x.pc = "search" => x.gone \/ x.noidx \/ \E P \in x.listed : x.obj \in P
    /\ x.pc # "notfound"

DurableKept == durable \subseteq Copies(flushed)

IndInv ==
    /\ Typed
    /\ DurableKept /\ OpenOK
    /\ \A r \in Repackers : JobOK(job[r])
    /\ \A q \in Publishers : PubOK(pub[q])
    /\ \A x \in Readers : ReadOK(read[x])

\* What a set of files has a copy of, and what it has in packs.
LEMMA Finds ==
  ASSUME NEW F, NEW o
  PROVE  /\ o \in Packed(F) <=> \E P \in Packs : o \in P /\ Pack(P) \in F
         /\ o \in Copies(F) <=> (o \in Objects /\ Loose(o) \in F \ torn) \/ o \in Packed(F)
BY DEF Packed, PacksOn, Copies

\* More files have more in packs.
LEMMA Grows ==
  ASSUME NEW F, NEW G, F \subseteq G
  PROVE  Packed(F) \subseteq Packed(G)
BY Finds

\* Every copy is whole, or in a pack that a power loss left torn.
LEMMA CopiesHeld ==
  ASSUME NEW F
  PROVE  Held(F) \subseteq Copies(F) /\ Copies(F) \subseteq Held(F) \cup UNION TornPacks
<1>1. ASSUME NEW o \in Held(F) PROVE o \in Copies(F)
  BY <1>1, Finds DEF Held
<1>2. ASSUME NEW o \in Copies(F) PROVE o \in Held(F) \cup UNION TornPacks
  <2>1. CASE o \in Objects /\ Loose(o) \in F \ torn
    BY <2>1 DEF Held
  <2>2. CASE o \in Packed(F)
    <3>1. PICK P \in Packs : o \in P /\ Pack(P) \in F
      BY <2>2, Finds
    <3>2. o \in Objects
      BY <3>1, PackIs
    <3>3. Pack(P) \in torn => o \in UNION TornPacks
      BY <3>1 DEF TornPacks
    <3> QED BY <3>1, <3>2, <3>3 DEF Held
  <2> QED BY <1>2, <2>1, <2>2, Finds
<1> QED BY <1>1, <1>2

\* What can be read has a copy on disk, and not behind a torn loose file.
LEMMA ReadableIsThere ==
  ASSUME NEW o \in Readable
  PROVE  o \in Objects /\ o \in Copies(files) /\ (Loose(o) \in files => Loose(o) \notin torn)
<1>1. o \in Objects /\ Backings(o) # {}
  BY DEF Readable
<1>2. CASE Loose(o) \in files
  <2>1. Loose(o) \notin torn
    BY <1>1, <1>2 DEF Backings
  <2> QED BY <1>1, <1>2, <2>1, Finds
<1>3. CASE Loose(o) \notin files
  <2>1. PICK P \in PacksOn(files) : o \in P
    BY <1>1, <1>3 DEF Backings
  <2> QED BY <1>1, <1>3, <2>1 DEF Copies, Packed
<1> QED BY <1>2, <1>3

\* What has a copy can be read, unless a torn file is in front of it.
LEMMA ThereIsReadable ==
  ASSUME NEW o \in Objects, o \in Copies(files), Loose(o) \notin torn
  PROVE  o \in Readable \cup UNION (TornPacks \cup TornIndexes)
<1>1. CASE Loose(o) \in files
  <2>1. {Loose(o)} \in Backings(o)
    BY <1>1 DEF Backings
  <2> QED BY <2>1 DEF Readable
<1>2. CASE Loose(o) \notin files
  <2>1. PICK P \in Packs : o \in P /\ Pack(P) \in files
    BY <1>2, Finds
  <2>2. CASE Pack(P) \in torn
    BY <2>1, <2>2 DEF TornPacks
  <2>3. CASE Idx(P) \in torn
    BY <2>1, <2>3 DEF TornIndexes
  <2>4. CASE Pack(P) \notin torn /\ Idx(P) \notin torn
    <3>1. P \in PacksOn(files) /\ Usable(P) /\ Whole(Pack(P))
      BY <2>1, <2>4 DEF PacksOn, Usable, Whole
    <3>2. {Pack(P), Idx(P)} \cap files \in Backings(o)
      BY <1>2, <2>1, <3>1 DEF Backings
    <3> QED BY <3>2 DEF Readable
  <2> QED BY <2>2, <2>3, <2>4
<1> QED BY <1>1, <1>2

\* The names of different files differ.
LEMMA NamesDiffer ==
  /\ \A P, Q : Pack(P) = Pack(Q) => P = Q
  /\ \A o, P : Loose(o) # Pack(P) /\ Idx(P) # Loose(o)
  /\ \A P, Q : Idx(P) # Pack(Q)
  /\ \A o, u : Loose(o) = Loose(u) => o = u
<1>1. ASSUME NEW P, NEW Q, Pack(P) = Pack(Q) PROVE P = Q
  <2>1. Pack(P).of = P /\ Pack(Q).of = Q
    BY DEF Pack
  <2> QED BY <1>1, <2>1
<1>2. ASSUME NEW o, NEW u, Loose(o) = Loose(u) PROVE o = u
  <2>1. Loose(o).of = o /\ Loose(u).of = u
    BY DEF Loose
  <2> QED BY <1>2, <2>1
<1>3. ASSUME NEW o, NEW P, NEW Q
      PROVE  Loose(o).kind = "loose" /\ Pack(P).kind = "pack" /\ Idx(Q).kind = "idx"
  BY DEF Loose, Pack, Idx
<1> QED BY <1>1, <1>2, <1>3

\* A pack that goes takes nothing with it when its objects are in others.
LEMMA DropKeeps ==
  ASSUME NEW F, NEW f,
         \A P \in Packs : Pack(P) = f =>
           \A o \in P : \E M \in Packs : M # P /\ o \in M /\ Pack(M) \in F
  PROVE  Packed(F) \subseteq Packed(F \ {f})
<1>1. ASSUME NEW o \in Packed(F) PROVE o \in Packed(F \ {f})
  <2>1. PICK P \in Packs : o \in P /\ Pack(P) \in F
    BY <1>1, Finds
  <2>2. CASE Pack(P) # f
    BY <2>1, <2>2, Finds
  <2>3. CASE Pack(P) = f
    <3>1. PICK M \in Packs : M # P /\ o \in M /\ Pack(M) \in F
      BY <2>1, <2>3
    <3>2. Pack(M) \in F \ {f}
      BY <2>3, <3>1, NamesDiffer
    <3> QED BY <3>1, <3>2, Finds
  <2> QED BY <2>2, <2>3
<1> QED BY <1>1

\* A step takes no packed object away, and no whole loose file unless its object is
\* in a flushed pack.
KeepsLoose(F, G) == \A o \in Objects : Loose(o) \in F => Loose(o) \in G \/ o \in Packed(flushed')
Keeps ==
  /\ Packed(files) \subseteq Packed(files)' /\ Packed(flushed) \subseteq Packed(flushed)'
  /\ KeepsLoose(files \ torn, files' \ torn') /\ KeepsLoose(flushed \ torn, flushed' \ torn')

\* Then it takes no copy.
LEMMA CopiesKept ==
  ASSUME Keeps, DiskOK'
  PROVE  Copies(files) \subseteq Copies(files)' /\ Copies(flushed) \subseteq Copies(flushed)'
<1>1. Packed(flushed') \subseteq Packed(files')
  BY Grows DEF DiskOK
<1> QED BY <1>1 DEF Keeps, KeepsLoose, Copies, Packed, PacksOn

\* Creating and flushing whole files keep every object.
LEMMA GrowingKeeps ==
  ASSUME files \subseteq files', flushed \subseteq flushed', DiskOK, torn' \cap files \subseteq torn
  PROVE  Keeps
BY Grows DEF Keeps, KeepsLoose, DiskOK, Packed, PacksOn

\* Deleting keeps every object of the batch once its replacements are flushed.
LEMMA DroppingKeeps ==
  ASSUME DiskOK, NEW f, Delete(f),
         \A o \in Objects : Loose(o) = f => o \in Packed(flushed),
         \A P \in Packs : Pack(P) = f =>
           \A o \in P : \E M \in Packs : M # P /\ o \in M /\ Pack(M) \in flushed
  PROVE  Keeps
<1>1. /\ files' = files \ {f} /\ flushed' = flushed \ {f} /\ torn' = torn \ {f}
      /\ flushed \subseteq files
  BY DEF Delete, DiskOK
<1>2. Packed(flushed) \subseteq Packed(flushed \ {f}) /\ Packed(files) \subseteq Packed(files \ {f})
  BY <1>1, DropKeeps
<1>3. /\ KeepsLoose(files \ torn, files' \ torn') /\ KeepsLoose(flushed \ torn, flushed' \ torn')
  BY <1>1, <1>2 DEF KeepsLoose
<1> QED BY <1>1, <1>2, <1>3 DEF Keeps, Packed, PacksOn

\* What the invariant says of a process stays true when no object goes, and no
\* flushed pack.
LEMMA JobStays ==
  ASSUME NEW j, JobOK(j), \A M \in Packs : Pack(M) \in flushed => Pack(M) \in flushed'
  PROVE  JobOK(j)'
BY DEF JobOK, Lasts

\* A publisher's: what it saw and flushed stays there and flushed.
LEMMA PubStays == ASSUME NEW u \in PubFields, PubOK(u), Keeps, DiskOK' PROVE PubOK(u)'
<1>1. Copies(flushed) \subseteq Copies(flushed)'
  BY CopiesKept
<1>2. ASSUME NEW s \in u.seen PROVE Holds(s)'
  <2>1. Holds(s) /\ s.obj \in Objects
    BY DEF PubOK, PubFields
  <2>2. CASE \E P \in Packs : s.obj \in P /\ Pack(P) \in s.in
    BY <2>2 DEF Holds
  <2>3. CASE Loose(s.obj) \in s.in /\ Whole(Loose(s.obj))
    <3>1. Loose(s.obj) \in files' \ torn' \/ s.obj \in Packed(flushed')
      BY <2>1, <2>3 DEF Keeps, KeepsLoose, Whole
    <3> QED BY <2>3, <3>1 DEF Holds, Whole, Packed, PacksOn
  <2>4. CASE s.obj \in Packed(flushed)
    BY <2>4 DEF Keeps, Holds
  <2> QED BY <2>1, <2>2, <2>3, <2>4 DEF Holds
<1> QED BY <1>1, <1>2 DEF PubOK

\* A reader's: the reason it has to go on looking stays one.
LEMMA ReadStays ==
  ASSUME NEW x, ReadOK(x), Keeps, durable \subseteq durable'
  PROVE  ReadOK(x)'
BY DEF ReadOK, Keeps

\* What was reported durable stays in a flushed file.
LEMMA DurableStays ==
  ASSUME DurableKept, durable' = durable, Keeps, DiskOK'
  PROVE  DurableKept'
BY CopiesKept DEF DurableKept

\* An unfinished file stays its writer's when no writer moves and the file goes
\* only with its name.
LEMMA OpenStays ==
  ASSUME OpenOK, pub' = pub, open' \subseteq open, \A q \in open' : Loose(pub[q].cur) \in torn'
  PROVE  OpenOK'
BY DEF OpenOK

\* The runs of a partition hold everything that is partitioned.
LEMMA PartitionCovers ==
  ASSUME NEW ids \in SUBSET Objects, NEW limit \in Nat \ {0}
  PROVE  ids \subseteq UNION Partition(ids, limit)
<1>1. IsFiniteSet(ids)
  BY ObjectAssumption, FS_Subset
<1>2. ASSUME NEW o \in ids PROVE o \in UNION Partition(ids, limit)
  <2>1. PICK k : k = Cardinality({u \in ids : Rank[u] < Rank[o]})
    OBVIOUS
  <2>2. k \in Nat /\ Cardinality(ids) \in Nat /\ k <= Cardinality(ids)
    BY <1>1, <2>1, FS_Subset, FS_CardinalityType
  <2>3. k \div limit \in 0 .. Cardinality(ids)
    <3>1. \A x \in Nat : x \div limit \in Nat /\ x \div limit <= x
      OBVIOUS
    <3> QED BY <2>2, <3>1
  <2>4. PICK i \in 0 .. Cardinality(ids) : i = k \div limit
    BY <2>3
  <2>5. PICK P : P = {u \in ids : Cardinality({v \in ids : Rank[v] < Rank[u]}) \div limit = i}
    OBVIOUS
  <2>6. o \in P
    BY <2>1, <2>4, <2>5
  <2>7. P \in Partition(ids, limit)
    BY <2>5, <2>6 DEF Partition
  <2> QED BY <2>6, <2>7
<1> QED BY <1>2

\* The steps of a repack that delete nothing keep the invariant of the repacker.
LEMMA RepackGrows ==
  ASSUME IndInv, NEW r \in Repackers,
         \/ StartRepack(r) \/ FullNoop(r) \/ FullBatch(r) \/ GeometricBatch(r)
         \/ PlanPacks(r) \/ WritePack(r) \/ WriteIdx(r) \/ FlushPacks(r) \/ WriteMidx(r)
         \/ RepackFails(r) \/ DeleteContended(r) \/ StopRepack(r)
  PROVE  /\ files \subseteq files' /\ flushed \subseteq flushed'
         /\ UNCHANGED <<torn, open, pub>>
         /\ \A s \in Repackers : JobOK(job[s])'
<1>1. PICK j : j = job[r]
  OBVIOUS
<1>2. /\ job \in [Repackers -> JobState] /\ j \in JobState /\ j \in JobFields
      /\ JobOK(j) /\ DiskOK
  BY <1>1 DEF IndInv, Typed, JobState
<1>3. files \subseteq files' /\ flushed \subseteq flushed' /\ UNCHANGED <<torn, open, pub>>
  <2>1. CASE WritePack(r) \/ WriteIdx(r) \/ FlushPacks(r)
    BY <2>1 DEF WritePack, WriteIdx, FlushPacks, Create, Barrier, RepackUnchanged
  <2>2. CASE GeometricBatch(r)
    <3>1. UNCHANGED disk /\ RepackUnchanged
      BY <2>2, Zenon DEF GeometricBatch
    <3> QED BY <3>1 DEF disk, RepackUnchanged
  <2>3. CASE WriteMidx(r)
    BY <2>3 DEF WriteMidx, RepackUnchanged
  <2> QED BY <2>1, <2>2, <2>3 DEF StartRepack, FullNoop, FullBatch, PlanPacks, RepackFails,
                              DeleteContended, StopRepack, RepackUnchanged, disk
<1>4. \E n : job' = [job EXCEPT ![r] = n] /\ JobOK(n)'
  <2>1. CASE StartRepack(r)
    <3>0. PICK limit \in Limits, mode \in Modes :
            job' = [job EXCEPT ![r] = [NoJob EXCEPT !.pc = "list", !.limit = limit, !.mode = mode,
                                                    !.batch = PacksOn(files)]]
      BY <2>1 DEF StartRepack
    <3>1. PICK n : /\ n = [NoJob EXCEPT !.pc = "list", !.limit = limit, !.mode = mode,
                                        !.batch = PacksOn(files)]
                   /\ job' = [job EXCEPT ![r] = n]
      BY <3>0
    <3>2. n.pc = "list" /\ n.limit # 0 /\ n.made = {}
      BY <3>1, LimitAssumption DEF NoJob
    <3>3. JobOK(n)'
      BY <3>2 DEF JobOK
    <3> QED BY <3>1, <3>3
  <2>2. CASE FullNoop(r)
    <3>1. PICK n : n = [j EXCEPT !.pc = "done"] /\ job' = [job EXCEPT ![r] = n]
      BY <1>1, <2>2 DEF FullNoop
    <3>2. JobOK(n)'
      BY <1>2, <3>1 DEF JobOK, JobFields
    <3> QED BY <3>1, <3>2
  <2>3. CASE FullBatch(r)
    <3>1. PICK n : /\ n = [j EXCEPT !.pc = "plan", !.loose = LooseObjects(files)]
                   /\ job' = [job EXCEPT ![r] = n]
      BY <1>1, <2>3 DEF FullBatch
    <3>2. j.pc = "list"
      BY <1>1, <2>3 DEF FullBatch
    <3>3. JobOK(n)'
      BY <1>2, <3>1, <3>2 DEF JobOK, JobFields
    <3> QED BY <3>1, <3>3
  <2>4. CASE GeometricBatch(r)
    <3>1. PICK kept \in SUBSET job[r].batch, next \in {"plan", "done", "midx"} :
            job' = [job EXCEPT ![r].pc = next, ![r].batch = @ \ kept, ![r].kept = kept,
                               ![r].loose = LooseObjects(files)]
      BY <2>4, GeometricPlan
    <3>2. PICK n : n = [j EXCEPT !.pc = next, !.batch = @ \ kept, !.kept = kept,
                                 !.loose = LooseObjects(files)]
      OBVIOUS
    <3>3. job' = [job EXCEPT ![r] = n]
      BY <1>1, <3>1, <3>2
    <3>4. j.pc = "list"
      BY <1>1, <2>4, Zenon DEF GeometricBatch
    <3>5. n.pc \in {"plan", "done", "midx"} /\ n.limit = j.limit /\ n.made = j.made
      BY <1>2, <3>2 DEF JobFields
    <3>6. JobOK(n)'
      BY <1>2, <3>4, <3>5 DEF JobOK
    <3> QED BY <3>3, <3>6
  <2>5. CASE PlanPacks(r)
    <3>1. PICK n, todo :
            /\ todo = Partition(BatchObjects(r), j.limit)
            /\ n = [j EXCEPT !.pc = "write", !.todo = todo]
            /\ job' = [job EXCEPT ![r] = n]
      BY <1>1, <2>5 DEF PlanPacks
    <3>2. /\ j.pc = "plan" /\ j.limit \in Nat \ {0}
          /\ BatchObjects(r) = (UNION j.batch) \cup j.loose
      BY <1>1, <1>2, <2>5, LimitAssumption DEF PlanPacks, BatchObjects, JobOK, JobFields
    <3>3. BatchObjects(r) \subseteq Objects
      BY <1>2, BatchOfObjects
    <3>4. (UNION j.batch) \cup j.loose \subseteq UNION todo
      BY <3>1, <3>2, <3>3, PartitionCovers
    <3>5. /\ n.pc = "write" /\ n.batch = j.batch /\ n.loose = j.loose /\ n.todo = todo
      BY <1>2, <3>1 DEF JobFields
    <3>6. JobOK(n)'
      BY <3>4, <3>5 DEF JobOK
    <3> QED BY <3>1, <3>6
  <2>6. CASE WritePack(r)
    <3>a. PICK P \in j.todo : job' = [job EXCEPT ![r].pc = "index", ![r].cur = P]
      BY <1>1, <2>6 DEF WritePack
    <3>1. PICK n : n = [j EXCEPT !.pc = "index", !.cur = P] /\ job' = [job EXCEPT ![r] = n]
      BY <1>1, <3>a
    <3>2. j.pc = "write"
      BY <1>1, <2>6 DEF WritePack
    <3>3. /\ n.pc = "index" /\ n.batch = j.batch /\ n.loose = j.loose /\ n.todo = j.todo
          /\ n.made = j.made /\ n.cur = P
      BY <1>2, <3>1 DEF JobFields
    <3>4. JobOK(n)'
      BY <1>2, <3>1, <3>2, <3>3 DEF JobOK
    <3> QED BY <3>1, <3>4
  <2>7. CASE WriteIdx(r)
    <3>a. PICK P : P = j.cur
      OBVIOUS
    <3>1. PICK n : /\ n = [j EXCEPT !.pc = IF j.todo = {P} THEN "flush" ELSE "write",
                                    !.todo = @ \ {P}, !.made = @ \cup {P}, !.cur = {}]
                   /\ job' = [job EXCEPT ![r] = n]
      <4>1. PICK n : n = [j EXCEPT !.pc = IF j.todo = {P} THEN "flush" ELSE "write",
                                   !.todo = @ \ {P}, !.made = @ \cup {P}, !.cur = {}]
        OBVIOUS
      <4>2. job' = [job EXCEPT ![r] = n]
        BY <1>1, <2>7, <3>a, <4>1 DEF WriteIdx
      <4> QED BY <4>1, <4>2
    <3>2. j.pc = "index" /\ P \in j.todo
      BY <1>1, <1>2, <2>7, <3>a DEF WriteIdx, JobOK
    <3>3. /\ n.pc = (IF j.todo = {P} THEN "flush" ELSE "write")
          /\ n.batch = j.batch /\ n.loose = j.loose
          /\ n.todo = j.todo \ {P} /\ n.made = j.made \cup {P}
      BY <1>2, <3>1 DEF JobFields
    <3>4. n.pc = "flush" => n.todo = {}
      BY <3>3
    <3>5. (UNION n.batch) \cup n.loose \subseteq (UNION n.todo) \cup UNION n.made
      <4>1. (UNION j.batch) \cup j.loose \subseteq (UNION j.todo) \cup UNION j.made
        BY <1>2, <3>2 DEF JobOK
      <4>2. UNION j.todo \subseteq P \cup UNION n.todo
        BY <3>3
      <4>3. P \cup UNION j.made \subseteq UNION n.made
        BY <3>3
      <4> QED BY <3>3, <4>1, <4>2, <4>3
    <3>6. JobOK(n)'
      BY <3>3, <3>4, <3>5 DEF JobOK
    <3> QED BY <3>1, <3>6
  <2>8. CASE FlushPacks(r)
    <3>1. PICK n : n = [j EXCEPT !.pc = "drop"] /\ job' = [job EXCEPT ![r] = n]
      BY <1>1, <2>8 DEF FlushPacks
    <3>2. /\ n.pc = "drop" /\ n.batch = j.batch /\ n.loose = j.loose /\ n.made = j.made
          /\ j.pc = "flush"
      BY <1>1, <1>2, <2>8, <3>1 DEF JobFields, FlushPacks
    <3>3. \A P \in j.made : Pack(P) \in flushed'
      BY <1>1, <2>8 DEF FlushPacks, Barrier, NewFiles
    <3>4. (UNION n.batch) \cup n.loose \subseteq UNION n.made
      BY <1>2, <3>2 DEF JobOK
    <3>6. Lasts(n.made)'
      BY <1>2, <3>2, <3>3 DEF Lasts, JobFields
    <3>5. JobOK(n)'
      BY <3>2, <3>4, <3>6 DEF JobOK
    <3> QED BY <3>1, <3>5
  <2>9. CASE WriteMidx(r)
    <3>1. PICK n : n = [j EXCEPT !.pc = "done"] /\ job' = [job EXCEPT ![r] = n]
      BY <1>1, <2>9 DEF WriteMidx
    <3>2. JobOK(n)'
      BY <1>2, <3>1 DEF JobOK, JobFields
    <3> QED BY <3>1, <3>2
  <2>10. CASE RepackFails(r) \/ DeleteContended(r) \/ StopRepack(r)
    <3>1. job' = [job EXCEPT ![r] = NoJob]
      BY <2>10 DEF RepackFails, DeleteContended, StopRepack
    <3>2. JobOK(NoJob)'
      BY DEF JobOK, NoJob
    <3> QED BY <3>1, <3>2
  <2> QED BY <2>1, <2>2, <2>3, <2>4, <2>5, <2>6, <2>7, <2>8, <2>9, <2>10
<1>5. PICK n : job' = [job EXCEPT ![r] = n] /\ JobOK(n)'
  BY <1>4
<1>6. ASSUME NEW s \in Repackers PROVE JobOK(job[s])'
  <2>1. CASE s = r
    <3>1. job'[s] = n
      BY <1>2, <1>5, <2>1
    <3> QED BY <1>5, <3>1 DEF JobOK
  <2>2. CASE s # r
    <3>1. PICK m : m = job[s]
      OBVIOUS
    <3>2. JobOK(m) /\ job'[s] = m
      BY <1>2, <1>5, <2>2, <3>1 DEF IndInv
    <3>3. JobOK(m)'
      BY <1>3, <3>2, JobStays
    <3> QED BY <3>2, <3>3 DEF JobOK
  <2> QED BY <2>1, <2>2
<1> QED BY <1>3, <1>6

\* So do its deletions, when the others that delete have made one pack too.
LEMMA RepackDrops ==
  ASSUME IndInv, Compatible, NEW r \in Repackers, DropPack(r) \/ DropIdx(r) \/ DropLoose(r)
  PROVE  Keeps /\ OpenOK' /\ \A s \in Repackers : JobOK(job[s])'
<1>1. PICK j : j = job[r]
  OBVIOUS
<1>2. /\ job \in [Repackers -> JobState] /\ j \in JobState /\ j \in JobFields
      /\ JobOK(j) /\ DiskOK
  BY <1>1 DEF IndInv, Typed, JobState
<1>3. j.pc \in {"drop", "dropidx"}
  BY <1>1 DEF DropPack, DropIdx, DropLoose
<1>4. /\ (UNION j.batch) \cup j.loose \subseteq UNION j.made
      /\ Lasts(j.made)
  BY <1>2, <1>3 DEF JobOK
<1>5. j.made \subseteq Packs /\ j.batch \subseteq Packs
  BY <1>2 DEF JobFields
<1>6. ASSUME NEW o \in (UNION j.batch) \cup j.loose
      PROVE  \E M \in Packs : /\ o \in M /\ Pack(M) \in flushed
                              /\ \A X \in j.batch \ j.made : M # X
  <2>1. PICK P \in j.made : o \in P
    BY <1>4
  <2>2. PICK M \in Packs : P \subseteq M /\ Pack(M) \in flushed /\ (M = P \/ j.made = {P})
    BY <1>4, <2>1 DEF Lasts
  <2>3. ASSUME NEW X \in j.batch \ j.made PROVE M # X
    <3>1. X \subseteq UNION j.made
      BY <1>4
    <3>2. M = P => M # X
      BY <2>1, <2>3
    <3>3. M # P /\ j.made = {P} => M # X
      <4> SUFFICES ASSUME j.made = {P}, M = X PROVE M = P
        OBVIOUS
      <4>1. X \subseteq P
        BY <3>1
      <4> QED BY <2>2, <4>1
    <3> QED BY <2>2, <3>2, <3>3
  <2> QED BY <2>1, <2>2, <2>3
<1>7. \E n : /\ job' = [job EXCEPT ![r] = n]
             /\ n.pc \in {"drop", "dropidx"} /\ n.made = j.made
             /\ n.batch \subseteq j.batch /\ n.loose \subseteq j.loose
  <2>1. CASE DropPack(r)
    <3>1. PICK P : job' = [job EXCEPT ![r].pc = "dropidx", ![r].cur = P]
      BY <2>1 DEF DropPack
    <3>2. PICK n : n = [j EXCEPT !.pc = "dropidx", !.cur = P]
      OBVIOUS
    <3>3. job' = [job EXCEPT ![r] = n]
      BY <1>1, <3>1, <3>2
    <3>4. n.pc = "dropidx" /\ n.made = j.made /\ n.batch = j.batch /\ n.loose = j.loose
      BY <1>2, <3>2 DEF JobFields
    <3> QED BY <3>3, <3>4
  <2>2. CASE DropIdx(r)
    <3>1. PICK n : n = [j EXCEPT !.pc = "drop", !.batch = @ \ {j.cur}, !.cur = {}]
      OBVIOUS
    <3>2. job' = [job EXCEPT ![r] = n]
      BY <1>1, <2>2, <3>1 DEF DropIdx
    <3>3. n.pc = "drop" /\ n.made = j.made /\ n.batch \subseteq j.batch /\ n.loose = j.loose
      BY <1>2, <3>1 DEF JobFields
    <3> QED BY <3>2, <3>3
  <2>3. CASE DropLoose(r)
    <3>1. PICK o : job' = [job EXCEPT ![r].loose = @ \ {o}]
      BY <2>3 DEF DropLoose
    <3>2. PICK n : n = [j EXCEPT !.loose = @ \ {o}]
      OBVIOUS
    <3>3. job' = [job EXCEPT ![r] = n]
      BY <1>1, <3>1, <3>2
    <3>4. n.pc = j.pc /\ n.made = j.made /\ n.batch = j.batch /\ n.loose \subseteq j.loose
      BY <1>2, <3>2 DEF JobFields
    <3> QED BY <1>3, <3>3, <3>4
  <2> QED BY <2>1, <2>2, <2>3
<1>8. \E f : /\ Delete(f)
             /\ \A o \in Objects : Loose(o) = f => o \in j.loose
             /\ \A P \in Packs : Pack(P) = f => P \in j.batch \ j.made
  <2>1. CASE DropPack(r)
    <3>1. PICK P \in j.batch \ j.made : Delete(Pack(P))
      BY <1>1, <2>1 DEF DropPack, Sources
    <3> QED BY <3>1, NamesDiffer
  <2>2. CASE DropIdx(r)
    <3>1. Delete(Idx(j.cur))
      BY <1>1, <2>2 DEF DropIdx
    <3> QED BY <3>1, NamesDiffer
  <2>3. CASE DropLoose(r)
    <3>1. PICK o \in j.loose : Delete(Loose(o))
      BY <1>1, <2>3 DEF DropLoose
    <3> QED BY <3>1, NamesDiffer
  <2> QED BY <2>1, <2>2, <2>3
<1>9. PICK f : /\ Delete(f)
               /\ \A o \in Objects : Loose(o) = f => o \in j.loose
               /\ \A P \in Packs : Pack(P) = f => P \in j.batch \ j.made
  BY <1>8
<1>10. Keeps
  <2>1. ASSUME NEW o \in Objects, Loose(o) = f PROVE o \in Packed(flushed)
    BY <1>6, <1>9, <2>1, Finds
  <2>2. ASSUME NEW P \in Packs, Pack(P) = f, NEW o \in P
        PROVE  \E M \in Packs : M # P /\ o \in M /\ Pack(M) \in flushed
    <3>1. P \in j.batch \ j.made
      BY <1>9, <2>2
    <3>2. o \in UNION j.batch
      BY <3>1
    <3> QED BY <1>6, <3>1, <3>2
  <2> QED BY <1>2, <1>9, <2>1, <2>2, DroppingKeeps
<1>11. PICK n : /\ job' = [job EXCEPT ![r] = n]
                /\ n.pc \in {"drop", "dropidx"} /\ n.made = j.made
                /\ n.batch \subseteq j.batch /\ n.loose \subseteq j.loose
  BY <1>7
<1>12. ASSUME NEW made \in SUBSET Packs, Lasts(made),
              made = j.made \/ ((\A P, Q \in made : P = Q) /\ (\A P, Q \in j.made : P = Q))
       PROVE  Lasts(made)'
  <2> SUFFICES ASSUME NEW P \in made
               PROVE  \E M \in Packs : /\ P \subseteq M /\ Pack(M) \in flushed'
                                       /\ M = P \/ made = {P}
    BY DEF Lasts
  <2>1. flushed' = flushed \ {f}
    BY <1>9 DEF Delete
  <2>2. PICK M \in Packs : P \subseteq M /\ Pack(M) \in flushed /\ (M = P \/ made = {P})
    BY <1>12 DEF Lasts
  <2>3. CASE Pack(M) # f
    BY <2>1, <2>2, <2>3
  <2>4. CASE Pack(M) = f
    <3>1. M \in j.batch \ j.made /\ M \subseteq UNION j.made /\ M # {}
      BY <1>4, <1>9, <2>4, PackIs
    <3>2. PICK Q \in j.made : TRUE
      BY <3>1
    <3>3. PICK W \in Packs : Q \subseteq W /\ Pack(W) \in flushed /\ (W = Q \/ j.made = {Q})
      BY <1>4, <3>2 DEF Lasts
    <3>4. CASE made = j.made
      <4>1. made = {P} /\ M \subseteq P /\ M = P
        BY <2>2, <3>1, <3>4
      <4> QED BY <3>1, <3>4, <4>1
    <3>5. CASE (\A A, B \in made : A = B) /\ (\A A, B \in j.made : A = B)
      <4>1. made = {P} /\ j.made = {Q}
        BY <3>2, <3>5
      <4>2. M \subseteq Q /\ M # Q
        BY <3>1, <4>1
      <4>3. P \subseteq W /\ W # M
        BY <2>2, <3>3, <4>2
      <4>4. Pack(W) \in flushed'
        BY <2>1, <2>4, <3>3, <4>3, NamesDiffer
      <4> QED BY <4>1, <4>3, <4>4
    <3> QED BY <1>12, <3>4, <3>5
  <2> QED BY <2>3, <2>4
<1>13. ASSUME NEW s \in Repackers PROVE JobOK(job[s])'
  <2>1. CASE s = r
    <3>1. job'[s] = n
      BY <1>2, <1>11, <2>1
    <3>2. Lasts(n.made)'
      <4>1. PICK made \in SUBSET Packs : made = j.made
        BY <1>5
      <4>2. Lasts(made)
        BY <1>4, <4>1
      <4>3. Lasts(made)'
        BY <1>12, <4>1, <4>2
      <4> QED BY <1>11, <4>1, <4>3 DEF Lasts
    <3>3. (UNION n.batch) \cup n.loose \subseteq UNION n.made
      BY <1>4, <1>11
    <3> QED BY <1>11, <3>1, <3>2, <3>3 DEF JobOK
  <2>2. CASE s # r
    <3>1. PICK m : m = job[s]
      OBVIOUS
    <3>2. job'[s] = m /\ JobOK(m) /\ m.made \in SUBSET Packs
      BY <1>2, <1>11, <2>2, <3>1 DEF IndInv, JobState, JobFields
    <3>3. m.pc \in {"drop", "dropidx"} => Lasts(m.made)'
      <4> SUFFICES ASSUME m.pc \in {"drop", "dropidx"} PROVE Lasts(m.made)'
        OBVIOUS
      <4>1. OnePack(s) /\ OnePack(r)
        BY <1>1, <1>3, <2>2, <3>1 DEF Compatible, Dropping
      <4>2. Lasts(m.made)
        BY <3>2 DEF JobOK
      <4> QED BY <1>1, <1>12, <3>1, <3>2, <4>1, <4>2 DEF OnePack
    <3>4. JobOK(m)'
      BY <3>2, <3>3 DEF JobOK
    <3> QED BY <3>2, <3>4 DEF JobOK
  <2> QED BY <2>1, <2>2
<1>14. OpenOK'
  <2>1. UNCHANGED pub
    BY DEF DropPack, DropIdx, DropLoose, RepackUnchanged
  <2>2. open' = {q \in open : Loose(pub[q].cur) # f} /\ torn' = torn \ {f}
    BY <1>9 DEF Delete
  <2>3. OpenOK
    BY DEF IndInv
  <2>4. \A q \in open' : Loose(pub[q].cur) \in torn'
    BY <2>2, <2>3 DEF OpenOK
  <2> QED BY <2>1, <2>2, <2>3, <2>4, OpenStays
<1> QED BY <1>10, <1>13, <1>14

\* No step of a repack takes an object away, and each keeps the invariant.
LEMMA RepackStep ==
  ASSUME IndInv, Compatible, NEW r \in Repackers, Repack(r)
  PROVE  Keeps /\ OpenOK' /\ \A s \in Repackers : JobOK(job[s])'
<1>1. CASE DropPack(r) \/ DropIdx(r) \/ DropLoose(r)
  BY <1>1, RepackDrops
<1>2. CASE ~(DropPack(r) \/ DropIdx(r) \/ DropLoose(r))
  <2>1. /\ files \subseteq files' /\ flushed \subseteq flushed' /\ UNCHANGED <<torn, open, pub>>
        /\ \A s \in Repackers : JobOK(job[s])'
    BY <1>2, RepackGrows DEF Repack
  <2>2. OpenOK /\ DiskOK
    BY DEF IndInv, Typed
  <2> QED BY <2>1, <2>2, GrowingKeeps, OpenStays DEF OpenOK
<1> QED BY <1>1, <1>2

\* The repackers are not disturbed by a step that leaves the flushed packs.
LEMMA JobsStay ==
  ASSUME IndInv, \A M \in Packs : Pack(M) \in flushed => Pack(M) \in flushed', job' = job
  PROVE  \A s \in Repackers : JobOK(job[s])'
<1>1. ASSUME NEW s \in Repackers PROVE JobOK(job[s])'
  <2>1. PICK m : m = job[s]
    OBVIOUS
  <2>2. JobOK(m)'
    BY <2>1, JobStays DEF IndInv
  <2> QED BY <2>1, <2>2 DEF JobOK
<1> QED BY <1>1

\* A publisher is not disturbed by a step that takes no object away.
LEMMA PubsStay ==
  ASSUME IndInv, Keeps, DiskOK', NEW q \in Publishers, pub'[q] = pub[q]
  PROVE  PubOK(pub[q])'
<1>1. PICK m : m = pub[q]
  OBVIOUS
<1>2. m \in PubFields
  BY <1>1 DEF IndInv, Typed, PubState
<1>3. PubOK(m)'
  BY <1>1, <1>2, PubStays DEF IndInv
<1> QED BY <1>1, <1>3 DEF PubOK

\* Nor is a reader.
LEMMA ReadsStay ==
  ASSUME IndInv, Keeps, durable \subseteq durable', NEW x \in Readers, read'[x] = read[x]
  PROVE  ReadOK(read[x])'
<1>1. PICK m : m = read[x]
  OBVIOUS
<1>2. ReadOK(m)'
  BY <1>1, ReadStays DEF IndInv
<1> QED BY <1>1, <1>2 DEF ReadOK

\* Nor is the writer of an unfinished file by another publisher.
LEMMA OpenOthers ==
  ASSUME IndInv, NEW q \in Publishers, NEW n, pub' = [pub EXCEPT ![q] = n],
         open' \subseteq open \ {q}, \A p \in open' : Loose(pub[p].cur) \in torn'
  PROVE  OpenOK'
<1>1. OpenOK /\ open \subseteq Publishers /\ pub \in [Publishers -> PubState]
  BY DEF IndInv, Typed, DiskOK
<1>2. \A p \in open' : p \in open /\ pub'[p] = pub[p]
  BY <1>1
<1> QED BY <1>1, <1>2 DEF OpenOK

\* Where an object was found is a file that holds it.
LEMMA BackingHolds ==
  ASSUME NEW o \in Objects, NEW backing \in Backings(o)
  PROVE  Holds([obj |-> o, in |-> backing])
<1>1. PICK s : s = [obj |-> o, in |-> backing]
  OBVIOUS
<1>2. s.obj = o /\ s.in = backing
  BY <1>1
<1>3. CASE Loose(o) \in files
  <2>1. backing = {Loose(o)} /\ Loose(o) \notin torn
    BY <1>3 DEF Backings
  <2> QED BY <1>2, <1>3, <2>1 DEF Holds, Whole
<1>4. CASE Loose(o) \notin files
  <2>1. PICK P \in PacksOn(files) : o \in P /\ backing = {Pack(P), Idx(P)} \cap files
    BY <1>4 DEF Backings
  <2>2. P \in Packs /\ Pack(P) \in backing
    BY <2>1 DEF PacksOn
  <2> QED BY <1>2, <2>1, <2>2 DEF Holds
<1> QED BY <1>1, <1>3, <1>4

\* What a publisher does to the disk takes no object away: the loose file that it
\* finishes was torn until then.
LEMMA PublishDisk ==
  ASSUME IndInv, NEW q \in Publishers, Publish(q)
  PROVE  /\ Keeps /\ OpenOK'
         /\ \A M \in Packs : Pack(M) \in flushed => Pack(M) \in flushed'
<1>1. /\ pub \in [Publishers -> PubState] /\ DiskOK /\ OpenOK
  BY DEF IndInv, Typed
<1>2. CASE FillLoose(q)
  <2>1. PICK o, written : /\ o = pub[q].cur /\ written = IF q \in open THEN {Loose(o)} ELSE {}
    OBVIOUS
  <2>2. /\ files' = files /\ torn' = torn \ written /\ flushed' = flushed \ written
        /\ open' = open \ {q}
    BY <1>2, <2>1 DEF FillLoose
  <2>3. written \subseteq torn /\ written \subseteq {Loose(o)}
    BY <1>1, <2>1 DEF OpenOK
  <2>4. \A M \in Packs : Pack(M) \in flushed => Pack(M) \in flushed'
    BY <2>2, <2>3, NamesDiffer
  <2>5. Keeps
    <3>1. Packed(flushed) \subseteq Packed(flushed')
      BY <2>4, Finds
    <3>2. KeepsLoose(files \ torn, files' \ torn') /\ KeepsLoose(flushed \ torn, flushed' \ torn')
      BY <2>2, <2>3 DEF KeepsLoose
    <3> QED BY <2>2, <3>1, <3>2 DEF Keeps, Packed, PacksOn
  <2>6. OpenOK'
    <3>1. \A p \in open' : Loose(pub[p].cur) \in torn'
      <4> SUFFICES ASSUME NEW p \in open' PROVE Loose(pub[p].cur) \in torn'
        OBVIOUS
      <4>1. p \in open /\ p # q /\ Loose(pub[p].cur) \in torn
        BY <1>1, <2>2 DEF OpenOK
      <4>2. q \in open => pub[p].cur # o
        BY <1>1, <2>1, <4>1 DEF OpenOK
      <4> QED BY <2>1, <2>2, <4>1, <4>2, NamesDiffer
    <3>2. \E n : pub' = [pub EXCEPT ![q] = n]
      BY <1>2 DEF FillLoose, WroteLoose
    <3> QED BY <2>2, <3>1, <3>2, OpenOthers
  <2> QED BY <2>4, <2>5, <2>6
<1>3. CASE CreateLoose(q)
  <2>1. PICK o \in pub[q].todo :
          /\ pub[q].pc = "write" /\ Loose(o) \notin files
          /\ files' = files \cup {Loose(o)} /\ torn' = torn \cup {Loose(o)} /\ open' = open \cup {q}
          /\ pub' = [pub EXCEPT ![q].pc = "fill", ![q].cur = o] /\ flushed' = flushed
    BY <1>3 DEF CreateLoose
  <2>2. Keeps
    BY <1>1, <2>1, GrowingKeeps
  <2>3. PICK n : n = [pub[q] EXCEPT !.pc = "fill", !.cur = o]
    OBVIOUS
  <2>4. n.pc = "fill" /\ n.cur = o /\ pub' = [pub EXCEPT ![q] = n]
    BY <1>1, <2>1, <2>3 DEF PubState, PubFields
  <2>5. pub'[q] = n /\ q \notin open /\ \A p \in open : pub'[p] = pub[p]
    BY <1>1, <2>1, <2>4 DEF OpenOK, DiskOK
  <2>6. \A p \in open : pub[p].cur # o
    BY <1>1, <2>1 DEF OpenOK, DiskOK
  <2>7. ASSUME NEW p \in open'
        PROVE  /\ pub'[p].pc = "fill" /\ Loose(pub'[p].cur) \in torn'
               /\ \A w \in open' : pub'[w].cur = pub'[p].cur => w = p
    <3>1. \A w \in open : /\ pub[w].pc = "fill" /\ Loose(pub[w].cur) \in torn
                         /\ \A v \in open : pub[v].cur = pub[w].cur => v = w
      BY <1>1 DEF OpenOK
    <3>2. CASE p = q
      BY <2>1, <2>4, <2>5, <2>6, <3>2
    <3>3. CASE p \in open
      BY <2>1, <2>4, <2>5, <2>6, <3>1, <3>3
    <3> QED BY <2>1, <3>2, <3>3
  <2>8. OpenOK'
    BY <2>7 DEF OpenOK
  <2> QED BY <2>1, <2>2, <2>8
<1>4. CASE ~FillLoose(q) /\ ~CreateLoose(q)
  <2>1. /\ files \subseteq files' /\ flushed \subseteq flushed' /\ torn' = torn
        /\ (open' = open /\ pub[q].pc # "fill") \/ open' = open \ {q}
    BY <1>4 DEF Publish, StartPublish, LooseExists, ReceivePack, ReceiveIdx, LookAt, FlushSeen,
         FlushFails, CheckOne, Moved, LookFails, StopPublish, Create, Barrier, disk
  <2>2. Keeps
    BY <1>1, <2>1, GrowingKeeps
  <2>3. \E n : pub' = [pub EXCEPT ![q] = n]
    BY <1>4 DEF Publish, StartPublish, LooseExists, WroteLoose, ReceivePack, ReceiveIdx, LookAt,
         FlushSeen, FlushFails, CheckOne, Moved, LookFails, StopPublish
  <2>4. open' \subseteq open \ {q}
    BY <1>1, <2>1 DEF OpenOK
  <2>5. \A p \in open' : Loose(pub[p].cur) \in torn'
    BY <1>1, <2>1, <2>4 DEF OpenOK
  <2> QED BY <2>1, <2>2, <2>3, <2>4, <2>5, OpenOthers
<1> QED BY <1>2, <1>3, <1>4

\* A publication that goes on keeps its invariant.
LEMMA PublishOwn ==
  ASSUME IndInv, NEW q \in Publishers, Publish(q), Keeps, DiskOK'
  PROVE  \E n : pub' = [pub EXCEPT ![q] = n] /\ PubOK(n)'
<1>1. PICK u : u = pub[q]
  OBVIOUS
<1>2. /\ pub \in [Publishers -> PubState] /\ u \in PubState /\ u \in PubFields
      /\ PubOK(u) /\ DiskOK
  BY <1>1 DEF IndInv, Typed, PubState
<1>3. PubOK(u)'
  BY <1>2, PubStays
<1>4. PubOK(NoPub)' /\ PubOK([NoPub EXCEPT !.pc = "error"])'
  BY DEF PubOK, NoPub
<1>5. CASE StartPublish(q)
  <2>1. PICK objs \in Pushes, way \in Ways :
          pub' = [pub EXCEPT ![q] = [NoPub EXCEPT !.pc = "write", !.way = way,
                                                  !.objs = objs, !.todo = objs]]
    BY <1>5 DEF StartPublish
  <2>2. PICK n : n = [NoPub EXCEPT !.pc = "write", !.way = way, !.objs = objs, !.todo = objs]
    OBVIOUS
  <2>3. n.pc = "write" /\ n.objs = objs /\ n.todo = objs /\ n.seen = {}
    BY <2>2 DEF NoPub
  <2>4. PubOK(n)'
    BY <2>3 DEF PubOK
  <2> QED BY <2>1, <2>2, <2>4
<1>6. CASE LooseExists(q) \/ CreateLoose(q) \/ FillLoose(q) \/ ReceivePack(q) \/ ReceiveIdx(q)
  <2>1. \E o : \E n \in {[u EXCEPT !.pc = "look", !.todo = u.objs, !.cur = None],
                         [u EXCEPT !.pc = "write", !.todo = @ \ {o}, !.cur = None],
                         [u EXCEPT !.pc = "fill", !.cur = o],
                         [u EXCEPT !.pc = "index"],
                         [u EXCEPT !.pc = "look", !.todo = u.objs]} :
          pub' = [pub EXCEPT ![q] = n]
    <3>1. ASSUME NEW o, WroteLoose(q, o)
          PROVE  \E n \in {[u EXCEPT !.pc = "look", !.todo = u.objs, !.cur = None],
                           [u EXCEPT !.pc = "write", !.todo = @ \ {o}, !.cur = None]} :
                   pub' = [pub EXCEPT ![q] = n]
      BY <1>1, <3>1 DEF WroteLoose
    <3>2. CASE LooseExists(q) \/ FillLoose(q)
      <4>1. PICK o : WroteLoose(q, o)
        BY <3>2 DEF LooseExists, FillLoose
      <4> QED BY <3>1, <4>1
    <3>3. CASE CreateLoose(q)
      <4>1. PICK o : pub' = [pub EXCEPT ![q].pc = "fill", ![q].cur = o]
        BY <3>3 DEF CreateLoose
      <4>2. PICK n : n = [u EXCEPT !.pc = "fill", !.cur = o]
        OBVIOUS
      <4>3. pub' = [pub EXCEPT ![q] = n]
        BY <1>1, <4>1, <4>2
      <4> QED BY <4>2, <4>3
    <3>4. CASE ReceivePack(q)
      BY <1>1, <3>4 DEF ReceivePack
    <3>5. CASE ReceiveIdx(q)
      BY <1>1, <3>5 DEF ReceiveIdx
    <3> QED BY <1>6, <3>2, <3>3, <3>4, <3>5
  <2>2. PICK o, n : /\ n \in {[u EXCEPT !.pc = "look", !.todo = u.objs, !.cur = None],
                              [u EXCEPT !.pc = "write", !.todo = @ \ {o}, !.cur = None],
                              [u EXCEPT !.pc = "fill", !.cur = o],
                              [u EXCEPT !.pc = "index"],
                              [u EXCEPT !.pc = "look", !.todo = u.objs]}
                    /\ pub' = [pub EXCEPT ![q] = n]
    BY <2>1
  <2>3. /\ n.objs = u.objs /\ n.seen = u.seen /\ n.todo \subseteq n.objs
        /\ \/ n.pc \in {"write", "fill", "index"}
           \/ n.pc = "look" /\ n.todo = n.objs
    BY <1>2, <2>2 DEF PubFields, PubOK
  <2>4. PubOK(n)'
    BY <1>3, <2>3 DEF PubOK
  <2> QED BY <2>2, <2>4
<1>7. CASE LookAt(q)
  <2>1. PICK o \in u.todo : \E backing \in Backings(o) :
          pub' = [pub EXCEPT ![q].seen = @ \cup {[obj |-> o, in |-> backing]},
                             ![q].todo = @ \ {o},
                             ![q].pc = IF u.todo = {o} THEN "flush" ELSE "look"]
    BY <1>1, <1>7, ZenonT(30) DEF LookAt
  <2>2. PICK backing \in Backings(o) :
          pub' = [pub EXCEPT ![q].seen = @ \cup {[obj |-> o, in |-> backing]},
                             ![q].todo = @ \ {o},
                             ![q].pc = IF u.todo = {o} THEN "flush" ELSE "look"]
    BY <2>1
  <2>3. PICK s : s = [obj |-> o, in |-> backing]
    OBVIOUS
  <2>4. PICK n : n = [u EXCEPT !.seen = @ \cup {s}, !.todo = @ \ {o},
                               !.pc = IF u.todo = {o} THEN "flush" ELSE "look"]
    OBVIOUS
  <2>5. pub' = [pub EXCEPT ![q] = n]
    BY <1>1, <2>2, <2>3, <2>4
  <2>6. /\ n.objs = u.objs /\ n.seen = u.seen \cup {s} /\ n.todo = u.todo \ {o}
        /\ n.pc = (IF u.todo = {o} THEN "flush" ELSE "look")
    BY <1>2, <2>4 DEF PubFields
  <2>7. s.obj = o /\ Holds(s)'
    <3>1. o \in Objects
      BY <1>2 DEF PubFields
    <3>2. Holds(s) /\ UNCHANGED <<files, flushed, torn>>
      BY <1>7, <2>3, <3>1, BackingHolds DEF LookAt, disk
    <3> QED BY <2>3, <3>2 DEF Holds, Whole, Packed, PacksOn
  <2>8. u.pc = "look"
    BY <1>1, <1>7 DEF LookAt
  <2>9. u.objs \subseteq u.todo \cup {t.obj : t \in u.seen}
    BY <1>2, <2>8 DEF PubOK
  <2>10. n.objs \subseteq n.todo \cup {t.obj : t \in n.seen}
    BY <2>6, <2>7, <2>9
  <2>11. n.pc = "flush" => n.objs \subseteq {t.obj : t \in n.seen}
    BY <2>6, <2>10
  <2>12. (\A t \in n.seen : Holds(t)') /\ n.todo \subseteq n.objs
    BY <1>3, <2>6, <2>7 DEF PubOK
  <2>13. PubOK(n)'
    BY <2>6, <2>10, <2>11, <2>12 DEF PubOK
  <2> QED BY <2>5, <2>13
<1>8. CASE FlushSeen(q)
  <2>1. PICK n : n = [u EXCEPT !.pc = "check", !.todo = u.objs]
    OBVIOUS
  <2>2. pub' = [pub EXCEPT ![q] = n]
    BY <1>1, <1>8, <2>1 DEF FlushSeen
  <2>3. n.objs = u.objs /\ n.seen = u.seen /\ n.todo = u.objs /\ n.pc = "check" /\ u.pc = "flush"
    BY <1>1, <1>2, <1>8, <2>1 DEF PubFields, FlushSeen
  <2>4. flushed' = flushed \cup UNION {s.in : s \in u.seen} /\ torn' = torn
    BY <1>1, <1>8 DEF FlushSeen, Barrier, SeenFiles
  <2>5. ASSUME NEW o \in u.objs PROVE o \in Copies(flushed)'
    <3>1. PICK s \in u.seen : o = s.obj
      BY <1>2, <2>3 DEF PubOK
    <3>2. s.in \subseteq flushed'
      BY <2>4
    <3>3. Holds(s) /\ o \in Objects
      BY <1>2, <3>1 DEF PubOK, PubFields
    <3>4. CASE \E P \in Packs : s.obj \in P /\ Pack(P) \in s.in
      BY <3>1, <3>2, <3>4 DEF Copies, Packed, PacksOn
    <3>5. CASE Loose(s.obj) \in s.in /\ Whole(Loose(s.obj))
      BY <2>4, <3>1, <3>2, <3>3, <3>5 DEF Copies, Whole
    <3>6. CASE s.obj \in Packed(flushed)
      BY <3>1, <3>6 DEF Keeps, Copies, Packed, PacksOn
    <3> QED BY <3>3, <3>4, <3>5, <3>6 DEF Holds
  <2>6. PubOK(n)'
    BY <1>3, <2>3, <2>5 DEF PubOK
  <2> QED BY <2>2, <2>6
<1>9. CASE FlushFails(q)
  <2>1. PICK n : n = [u EXCEPT !.pc = "check", !.todo = u.objs, !.failed = TRUE]
    OBVIOUS
  <2>2. pub' = [pub EXCEPT ![q] = n]
    BY <1>1, <1>9, <2>1 DEF FlushFails
  <2>3. n.objs = u.objs /\ n.seen = u.seen /\ n.todo = u.objs /\ n.pc = "check" /\ n.failed
    BY <1>2, <2>1 DEF PubFields
  <2>4. PubOK(n)'
    BY <1>3, <2>3 DEF PubOK
  <2> QED BY <2>2, <2>4
<1>10. CASE CheckOne(q)
  <2>1. PICK o \in u.todo :
          pub' = [pub EXCEPT ![q] =
               IF u.todo # {o} THEN [u EXCEPT !.todo = @ \ {o}]
               ELSE IF u.failed THEN [NoPub EXCEPT !.pc = "error"] ELSE NoPub]
    BY <1>1, <1>10 DEF CheckOne
  <2>2. PICK n : n = [u EXCEPT !.todo = @ \ {o}]
    OBVIOUS
  <2>3. /\ n.objs = u.objs /\ n.seen = u.seen /\ n.todo \subseteq u.todo /\ n.pc = u.pc
        /\ n.failed = u.failed /\ u.pc = "check"
    BY <1>1, <1>2, <1>10, <2>2 DEF PubFields, CheckOne
  <2>4. PubOK(n)'
    BY <1>3, <2>3 DEF PubOK
  <2> QED BY <1>4, <2>1, <2>2, <2>4
<1>11. CASE Moved(q)
  <2>1. PICK n : n = [u EXCEPT !.pc = "look", !.todo = u.objs, !.seen = {},
                               !.tries = @ + 1, !.failed = FALSE]
    OBVIOUS
  <2>2. pub' = [pub EXCEPT ![q] = IF u.tries + 1 < StabilityAttempts THEN n
                                  ELSE [NoPub EXCEPT !.pc = "error"]]
    BY <1>1, <1>11, <2>1 DEF Moved
  <2>3. n.pc = "look" /\ n.todo = u.objs /\ n.objs = u.objs /\ n.seen = {}
    BY <1>2, <2>1 DEF PubFields
  <2>4. PubOK(n)'
    BY <2>3 DEF PubOK
  <2> QED BY <1>4, <2>2, <2>4
<1>12. CASE LookFails(q) \/ StopPublish(q)
  BY <1>4, <1>12 DEF LookFails, StopPublish
<1> QED BY <1>5, <1>6, <1>7, <1>8, <1>9, <1>10, <1>11, <1>12 DEF Publish

\* A step of a publication takes nothing away and reports durable only what was
\* flushed where it was seen.
LEMMA PublishStep ==
  ASSUME IndInv, NEW q \in Publishers, Publish(q), DiskOK'
  PROVE  /\ Keeps /\ OpenOK' /\ DurableKept'
         /\ \A M \in Packs : Pack(M) \in flushed => Pack(M) \in flushed'
         /\ \A v \in Publishers : PubOK(pub[v])'
         /\ durable \subseteq durable'
<1>1. PICK u : u = pub[q]
  OBVIOUS
<1>2. /\ pub \in [Publishers -> PubState] /\ PubOK(u) /\ DurableKept
  BY <1>1 DEF IndInv, Typed
<1>3. /\ Keeps /\ OpenOK'
      /\ \A M \in Packs : Pack(M) \in flushed => Pack(M) \in flushed'
  BY PublishDisk
<1>4. DurableKept' /\ durable \subseteq durable'
  <2>1. CASE CheckOne(q)
    <3>1. PICK o \in u.todo :
            /\ u.pc = "check"
            /\ durable' = IF u.todo = {o} /\ ~u.failed THEN durable \cup u.objs ELSE durable
      BY <1>1, <2>1 DEF CheckOne
    <3>2. durable' \subseteq Copies(flushed) /\ durable \subseteq durable'
      BY <1>2, <3>1 DEF PubOK, DurableKept
    <3>3. Copies(flushed) \subseteq Copies(flushed)'
      BY <1>3, CopiesKept
    <3> QED BY <3>2, <3>3 DEF DurableKept
  <2>2. CASE ~CheckOne(q)
    <3>1. durable' = durable
      BY <2>2 DEF Publish, StartPublish, LooseExists, CreateLoose, FillLoose, ReceivePack,
           ReceiveIdx, LookAt, FlushSeen, FlushFails, Moved, LookFails, StopPublish
    <3> QED BY <1>2, <1>3, <3>1, DurableStays
  <2> QED BY <2>1, <2>2
<1>5. PICK n : pub' = [pub EXCEPT ![q] = n] /\ PubOK(n)'
  BY <1>3, PublishOwn
<1>6. ASSUME NEW v \in Publishers PROVE PubOK(pub[v])'
  <2>1. CASE v = q
    <3>1. pub'[v] = n
      BY <1>2, <1>5, <2>1
    <3> QED BY <1>5, <3>1 DEF PubOK
  <2>2. CASE v # q
    <3>1. pub'[v] = pub[v]
      BY <1>2, <1>5, <2>2
    <3> QED BY <1>3, <3>1, PubsStay
  <2> QED BY <2>1, <2>2
<1> QED BY <1>3, <1>4, <1>6

\* A read that has a reason to go on does not end without an answer.
LEMMA ReadStep ==
  ASSUME IndInv, NEW x \in Readers, Read(x)
  PROVE  /\ UNCHANGED <<disk, job, pub, durable>>
         /\ \A y \in Readers : ReadOK(read[y])'
<1>1. PICK z : z = read[x]
  OBVIOUS
<1>2. /\ read \in [Readers -> ReadState] /\ z \in ReadState
      /\ ReadOK(z) /\ DiskOK /\ durable \subseteq Copies(flushed)
  BY <1>1 DEF IndInv, Typed, DurableKept
<1>3. UNCHANGED <<disk, job, pub, durable>>
  BY DEF Read, StartRead, ReadLoose, ListPacks, TooManyPacks, SearchPack, ProbePack, FetchObject,
         EndSearch, ReadUnchanged
<1>4. Keeps
  BY <1>2, <1>3, GrowingKeeps DEF disk
<1>5. \E n : read' = [read EXCEPT ![x] = n] /\ ReadOK(n)
  <2>1. CASE StartRead(x)
    <3>1. PICK o \in durable :
            read' = [read EXCEPT ![x] = [NoRead EXCEPT !.pc = "loose", !.obj = o]]
      BY <2>1 DEF StartRead
    <3>2. PICK n : n = [NoRead EXCEPT !.pc = "loose", !.obj = o]
      OBVIOUS
    <3>3. n.pc = "loose" /\ n.obj = o /\ n.searched = {}
      BY <3>2 DEF NoRead
    <3>4. ReadOK(n)
      BY <3>3 DEF ReadOK
    <3> QED BY <3>1, <3>2, <3>4
  <2>2. CASE ReadLoose(x)
    <3>1. PICK n : n = [z EXCEPT !.pc = IF Loose(z.obj) \notin files THEN "list"
                                        ELSE IF Loose(z.obj) \in torn THEN "corrupt" ELSE "found"]
      OBVIOUS
    <3>2. read' = [read EXCEPT ![x] = n] /\ z.pc = "loose"
      BY <1>1, <2>2, <3>1 DEF ReadLoose, Goto
    <3>3. /\ (n.pc = "list" /\ Loose(z.obj) \notin files) \/ n.pc \in {"corrupt", "found"}
          /\ n.obj = z.obj /\ n.searched = z.searched
      BY <1>2, <3>1 DEF ReadState
    <3>4. z.obj \in durable /\ (Loose(z.obj) \notin files => z.obj \in Packed(files))
      <4>1. z.obj \in Copies(flushed) /\ flushed \subseteq files /\ z.obj \in durable
        BY <1>2, <3>2 DEF ReadOK, DiskOK
      <4> QED BY <4>1, Finds, Grows
    <3>5. ReadOK(n)
      BY <1>2, <3>3, <3>4 DEF ReadOK
    <3> QED BY <3>2, <3>5
  <2>3. CASE ListPacks(x)
    <3>1. PICK n : n = [z EXCEPT !.pc = "search", !.observed = @ \cup PacksOn(files),
                                 !.listed = PacksOn(files) \ z.searched,
                                 !.gone = FALSE, !.noidx = FALSE, !.passes = @ + 1]
      OBVIOUS
    <3>2. read' = [read EXCEPT ![x] = n] /\ z.pc = "list"
      BY <1>1, <2>3, <3>1 DEF ListPacks
    <3>3. /\ n.pc = "search" /\ n.listed = PacksOn(files) \ z.searched
          /\ n.obj = z.obj /\ n.searched = z.searched
      BY <1>2, <3>1 DEF ReadState
    <3>4. \E P \in PacksOn(files) : z.obj \in P
      BY <1>2, <3>2 DEF ReadOK, Packed
    <3>5. \E P \in n.listed : n.obj \in P
      BY <1>2, <3>3, <3>4 DEF ReadOK
    <3>6. ReadOK(n)
      BY <1>2, <3>2, <3>3, <3>5 DEF ReadOK
    <3> QED BY <3>2, <3>6
  <2>4. CASE TooManyPacks(x)
    <3>1. PICK n : n = [z EXCEPT !.pc = "limit"] /\ read' = [read EXCEPT ![x] = n]
      BY <1>1, <2>4 DEF TooManyPacks, Goto
    <3>2. n.pc = "limit" /\ n.obj = z.obj /\ n.searched = z.searched
      BY <1>2, <3>1 DEF ReadState
    <3> QED BY <1>2, <3>1, <3>2 DEF ReadOK
  <2>5. CASE SearchPack(x)
    <3>1. PICK P \in z.listed :
            read' = [read EXCEPT ![x].listed = @ \ {P}, ![x].cur = P,
                 ![x].searched = IF Idx(P) \in files /\ z.obj \notin P THEN @ \cup {P} ELSE @,
                 ![x].pc = IF Idx(P) \notin files THEN "probe"
                           ELSE IF Idx(P) \in torn THEN "corrupt"
                           ELSE IF z.obj \in P THEN "fetch" ELSE "search"]
      BY <1>1, <2>5 DEF SearchPack
    <3>2. PICK n : n = [z EXCEPT !.listed = @ \ {P}, !.cur = P,
                 !.searched = IF Idx(P) \in files /\ z.obj \notin P THEN @ \cup {P} ELSE @,
                 !.pc = IF Idx(P) \notin files THEN "probe"
                        ELSE IF Idx(P) \in torn THEN "corrupt"
                        ELSE IF z.obj \in P THEN "fetch" ELSE "search"]
      OBVIOUS
    <3>3. read' = [read EXCEPT ![x] = n]
      BY <1>1, <3>1, <3>2
    <3>4. z.pc = "search"
      BY <1>1, <2>5 DEF SearchPack
    <3>5. /\ n.listed = z.listed \ {P} /\ n.obj = z.obj /\ n.gone = z.gone /\ n.noidx = z.noidx
          /\ n.searched = (IF Idx(P) \in files /\ z.obj \notin P
                             THEN z.searched \cup {P} ELSE z.searched)
          /\ n.pc = (IF Idx(P) \notin files THEN "probe"
                     ELSE IF Idx(P) \in torn THEN "corrupt"
                     ELSE IF z.obj \in P THEN "fetch" ELSE "search")
      BY <1>2, <3>2 DEF ReadState
    <3>6. n.pc = "search" => z.obj \notin P
      BY <3>5
    <3>7. ReadOK(n)
      BY <1>2, <3>4, <3>5, <3>6 DEF ReadOK
    <3> QED BY <3>3, <3>7
  <2>6. CASE ProbePack(x) \/ FetchObject(x)
    <3>1. PICK there \in BOOLEAN : there <=> Pack(z.cur) \in files
      <4>1. CASE Pack(z.cur) \in files
        BY <4>1
      <4>2. CASE Pack(z.cur) \notin files
        BY <4>2
      <4> QED BY <4>1, <4>2
    <3>2. PICK n : n = IF z.pc = "probe"
                         THEN [z EXCEPT !.pc = "search", !.noidx = @ \/ there, !.gone = @ \/ ~there]
                         ELSE [z EXCEPT !.pc = IF ~there THEN "search"
                                               ELSE IF Pack(z.cur) \in torn THEN "corrupt"
                                               ELSE "found",
                                        !.gone = @ \/ ~there]
      OBVIOUS
    <3>3. read' = [read EXCEPT ![x] = n] /\ z.pc \in {"probe", "fetch"}
      BY <1>1, <2>6, <3>1, <3>2 DEF ProbePack, FetchObject
    <3>4. /\ n.obj = z.obj /\ n.searched = z.searched
          /\ \/ n.pc \in {"corrupt", "found"}
             \/ n.pc = "search" /\ (n.gone \/ n.noidx)
      BY <1>2, <3>1, <3>2, <3>3 DEF ReadState
    <3>5. ReadOK(n)
      BY <1>2, <3>3, <3>4 DEF ReadOK
    <3> QED BY <3>3, <3>5
  <2>7. CASE EndSearch(x)
    <3>1. PICK n : n = [z EXCEPT !.pc = IF z.gone THEN "list"
                                        ELSE IF z.noidx THEN "noindex" ELSE "notfound"]
      OBVIOUS
    <3>2. read' = [read EXCEPT ![x] = n] /\ z.pc = "search" /\ z.listed = {}
      BY <1>1, <2>7, <3>1 DEF EndSearch, Goto
    <3>3. z.gone \/ z.noidx
      BY <1>2, <3>2 DEF ReadOK
    <3>4. /\ n.pc = (IF z.gone THEN "list" ELSE IF z.noidx THEN "noindex" ELSE "notfound")
          /\ n.obj = z.obj /\ n.searched = z.searched
      BY <1>2, <3>1 DEF ReadState
    <3>5. ReadOK(n)
      BY <1>2, <3>2, <3>3, <3>4 DEF ReadOK
    <3> QED BY <3>2, <3>5
  <2> QED BY <2>1, <2>2, <2>3, <2>4, <2>5, <2>6, <2>7 DEF Read
<1>6. PICK n : read' = [read EXCEPT ![x] = n] /\ ReadOK(n)
  BY <1>5
<1>7. ASSUME NEW y \in Readers PROVE ReadOK(read[y])'
  <2>1. CASE y = x
    <3>1. read'[y] = n
      BY <1>2, <1>6, <2>1
    <3>2. ReadOK(n)'
      BY <1>3, <1>4, <1>6, ReadStays
    <3> QED BY <3>1, <3>2 DEF ReadOK
  <2>2. CASE y # x
    <3>1. read'[y] = read[y]
      BY <1>2, <1>6, <2>2
    <3> QED BY <1>3, <1>4, <3>1, ReadsStay
  <2> QED BY <2>1, <2>2
<1> QED BY <1>3, <1>7

\* After a power loss nobody runs, and everything flushed is there.
LEMMA PowerLossStep == ASSUME IndInv, PowerLoss, Typed' PROVE IndInv'
<1>1. PICK left \in SUBSET (files \ flushed), cut \in SUBSET (files \ flushed) :
        /\ files' = flushed \cup left /\ flushed' = files' /\ torn' = (torn \cap files') \cup cut
        /\ open' = {} /\ durable' = durable
  BY DEF PowerLoss
<1>2. DurableKept' /\ OpenOK'
  <2>1. Packed(flushed) \subseteq Packed(flushed')
    BY <1>1, Grows
  <2>2. \A o \in Objects : Loose(o) \in flushed \ torn => Loose(o) \in flushed' \ torn'
    BY <1>1
  <2>3. Copies(flushed) \subseteq Copies(flushed)'
    BY <2>1, <2>2 DEF Copies, Packed, PacksOn
  <2> QED BY <1>1, <2>3 DEF IndInv, DurableKept, OpenOK
<1>3. /\ JobOK(NoJob)' /\ PubOK(NoPub)' /\ ReadOK(NoRead)'
  BY DEF JobOK, PubOK, ReadOK, NoJob, NoPub, NoRead
<1>4. /\ job' = [r \in Repackers |-> NoJob] /\ pub' = [q \in Publishers |-> NoPub]
      /\ read' = [x \in Readers |-> NoRead]
  BY DEF PowerLoss
<1>5. /\ \A r \in Repackers : JobOK(job[r])'
      /\ \A q \in Publishers : PubOK(pub[q])'
      /\ \A x \in Readers : ReadOK(read[x])'
  BY <1>3, <1>4 DEF JobOK, PubOK, ReadOK
<1> QED BY <1>2, <1>5 DEF IndInv

\* The store starts with every durable object flushed and nobody running.
LEMMA InitInv == Init => IndInv
<1> SUFFICES ASSUME Init PROVE IndInv
  OBVIOUS
<1>1. JobOK(NoJob) /\ PubOK(NoPub) /\ ReadOK(NoRead)
  BY DEF JobOK, PubOK, ReadOK, NoJob, NoPub, NoRead
<1>2. DurableKept /\ OpenOK
  BY DEF Init, DurableKept, OpenOK, Copies, Packed, LooseObjects
<1> QED BY <1>1, <1>2, InitType DEF Init, IndInv

\* A publisher disturbs no repacker or reader.
LEMMA PublishAlone ==
  ASSUME NEW q \in Publishers, Publish(q)
  PROVE  job' = job /\ read' = read
BY DEF Publish, StartPublish, LooseExists, CreateLoose, FillLoose, ReceivePack, ReceiveIdx, LookAt,
       FlushSeen, FlushFails, CheckOne, Moved, LookFails, StopPublish, PubUnchanged

\* Every step keeps the invariant while the repacks are compatible.
LEMMA InvStep == IndInv /\ Compatible /\ [Next]_vars => IndInv'
<1> SUFFICES ASSUME IndInv, Compatible, [Next]_vars PROVE IndInv'
  OBVIOUS
<1>1. Typed' /\ DiskOK' /\ DiskOK
  BY TypeStep DEF IndInv, Typed
<1>2. ASSUME NEW r \in Repackers, Repack(r) PROVE IndInv'
  <2>1. Keeps /\ OpenOK' /\ \A s \in Repackers : JobOK(job[s])'
    BY <1>2, RepackStep
  <2>2. UNCHANGED <<pub, durable, read>>
    <3>1. CASE GeometricBatch(r)
      BY <3>1, Zenon DEF GeometricBatch, RepackUnchanged
    <3> QED BY <1>2, <3>1 DEF Repack, StartRepack, FullNoop, FullBatch, PlanPacks, WritePack,
          WriteIdx, FlushPacks, DropPack, DropIdx, DropLoose, WriteMidx, RepackFails,
          DeleteContended, StopRepack, RepackUnchanged
  <2>3. DurableKept'
    BY <1>1, <2>1, <2>2, DurableStays DEF IndInv
  <2> QED BY <1>1, <2>1, <2>2, <2>3, PubsStay, ReadsStay DEF IndInv
<1>3. ASSUME NEW q \in Publishers, Publish(q) PROVE IndInv'
  <2>1. /\ Keeps /\ OpenOK' /\ DurableKept'
        /\ \A M \in Packs : Pack(M) \in flushed => Pack(M) \in flushed'
        /\ \A v \in Publishers : PubOK(pub[v])'
        /\ durable \subseteq durable'
    BY <1>1, <1>3, PublishStep
  <2>2. job' = job /\ read' = read
    BY <1>3, PublishAlone
  <2> QED BY <1>1, <2>1, <2>2, JobsStay, ReadsStay DEF IndInv
<1>4. ASSUME NEW x \in Readers, Read(x) PROVE IndInv'
  <2>1. UNCHANGED <<disk, job, pub, durable>> /\ \A y \in Readers : ReadOK(read[y])'
    BY <1>4, ReadStep
  <2>2. files' = files /\ flushed' = flushed /\ torn' = torn /\ open' = open
    BY <2>1 DEF disk
  <2>3. OpenOK' /\ Keeps
    BY <1>1, <2>1, <2>2, GrowingKeeps DEF IndInv, OpenOK
  <2> QED BY <1>1, <2>1, <2>2, <2>3, JobsStay, PubsStay, DurableStays DEF IndInv
<1>5. CASE PowerLoss
  BY <1>1, <1>5, PowerLossStep
<1>6. CASE UNCHANGED vars
  <2>1. UNCHANGED <<files, flushed, torn, open, job, pub, durable, read>>
    BY <1>6 DEF vars, disk
  <2>2. OpenOK' /\ Keeps
    BY <1>1, <2>1, GrowingKeeps DEF IndInv, OpenOK
  <2> QED BY <1>1, <2>1, <2>2, JobsStay, PubsStay, ReadsStay, DurableStays DEF IndInv
<1> QED BY <1>2, <1>3, <1>4, <1>5, <1>6 DEF Next

\* The inductive invariant holds as long as the repacks are compatible.
THEOREM Invariant == Spec /\ []Compatible => []IndInv
BY InitInv, InvStep, PTL DEF Spec

\* Whatever publishers, readers, killed processes and compatible repacks do, also
\* when they leave torn files, a power loss at any moment leaves an object reported
\* durable a whole copy: the barrier of repack_batch precedes its deletions, and a
\* publication reports only objects it has flushed in a place that still holds
\* them.  Only a repack that takes a pack torn by an earlier power loss for the one
\* it would write can end that.
THEOREM DurableObjectsSurvive == Spec /\ []Compatible => []DurableSurvives
<1>1. IndInv => DurableSurvives
  BY CopiesHeld DEF IndInv, DurableKept, DurableSurvives
<1> QED BY <1>1, Invariant, PTL

\* While the repacks are compatible, a durable object is never reported missing to a
\* reader: the packs it has not searched hold the object, or a pack or an index it
\* met has gone and it lists the packs again or reports the index.
THEOREM DurableObjectsFound == Spec /\ []Compatible => []DurableIsFound
<1>1. IndInv => DurableIsFound
  BY DEF IndInv, DurableIsFound, ReadOK
<1> QED BY <1>1, Invariant, PTL

\* A loose file becomes torn when its writing starts.
LEMMA TornLoose ==
  ASSUME IndInv, NEW o \in Objects, [Next]_vars, stops' = stops, Loose(o) \in torn'
  PROVE  Loose(o) \in torn \/ o \in BeingWritten'
<1>1. pub \in [Publishers -> PubState] /\ stops \in Nat
  BY BoundsAssumption DEF IndInv, Typed
<1>2. ASSUME NEW r \in Repackers, Repack(r) PROVE torn' \subseteq torn
  <2>1. CASE DropPack(r) \/ DropIdx(r) \/ DropLoose(r)
    BY <2>1 DEF DropPack, DropIdx, DropLoose, Delete
  <2>2. CASE ~(DropPack(r) \/ DropIdx(r) \/ DropLoose(r))
    BY <1>2, <2>2, RepackGrows DEF Repack
  <2> QED BY <2>1, <2>2
<1>3. ASSUME NEW q \in Publishers, Publish(q) PROVE Loose(o) \in torn \/ o \in BeingWritten'
  <2>1. CASE CreateLoose(q)
    <3>1. PICK w \in pub[q].todo :
            /\ torn' = torn \cup {Loose(w)} /\ open' = open \cup {q}
            /\ pub' = [pub EXCEPT ![q].pc = "fill", ![q].cur = w]
      BY <2>1 DEF CreateLoose
    <3>2. pub'[q].cur = w
      BY <1>1, <3>1 DEF PubState, PubFields
    <3>3. w \in BeingWritten'
      BY <3>1, <3>2 DEF BeingWritten
    <3> QED BY <3>1, <3>3, NamesDiffer
  <2>2. CASE ~CreateLoose(q)
    BY <1>3, <2>2 DEF Publish, StartPublish, LooseExists, FillLoose, ReceivePack, ReceiveIdx, LookAt,
       FlushSeen, FlushFails, CheckOne, Moved, LookFails, StopPublish, Create, Barrier, disk
  <2> QED BY <2>1, <2>2
<1>4. ASSUME NEW x \in Readers, Read(x) PROVE torn' = torn
  BY <1>4, ReadStep DEF disk
<1>5. ~PowerLoss
  BY <1>1 DEF PowerLoss
<1>6. CASE UNCHANGED vars
  BY <1>6 DEF vars, disk
<1> QED BY <1>2, <1>3, <1>4, <1>5, <1>6 DEF Next

\* What a copy is worth, after a step as before it.
LEMMA StillThere ==
  /\ (Copies(files) \subseteq Held(files) \cup UNION TornPacks)'
  /\ (\A o \in Objects : o \in Copies(files) /\ Loose(o) \notin torn =>
        o \in Readable \cup UNION (TornPacks \cup TornIndexes))'
<1>1. Copies(files) \subseteq Held(files) \cup UNION TornPacks
  BY CopiesHeld
<1>2. \A o \in Objects : o \in Copies(files) /\ Loose(o) \notin torn =>
        o \in Readable \cup UNION (TornPacks \cup TornIndexes)
  BY ThereIsReadable
<1> QED BY <1>1, <1>2, PTL

\* While the repacks are compatible, no step but a power loss takes the last whole
\* copy of an object ("no object is dropped" by a repack, killed at any step, nor
\* by a publication, killed while it writes a loose file), and none makes an object
\* unreadable except by the loose file it starts to write, or by a torn pack or
\* index that a repack keeps.
THEOREM NoObjectDropped == Spec /\ []Compatible => ObjectsKept
<1>1. IndInv /\ Compatible /\ [Next]_vars =>
        [stops' = stops =>
           /\ Held(files) \subseteq (Held(files) \cup UNION TornPacks)'
           /\ Readable \subseteq
                (Readable \cup BeingWritten \cup UNION (TornPacks \cup TornIndexes))']_vars
  <2> SUFFICES ASSUME IndInv, Compatible, [Next]_vars, stops' = stops, vars' # vars
               PROVE  /\ Held(files) \subseteq (Held(files) \cup UNION TornPacks)'
                      /\ Readable \subseteq
                           (Readable \cup BeingWritten \cup UNION (TornPacks \cup TornIndexes))'
    OBVIOUS
  <2>1. ASSUME NEW r \in Repackers, Repack(r) PROVE Keeps
    BY <2>1, RepackStep
  <2>2. ASSUME NEW q \in Publishers, Publish(q) PROVE Keeps
    BY <2>2, PublishDisk
  <2>3. ASSUME NEW x \in Readers, Read(x) PROVE Keeps
    BY <2>3, ReadStep, GrowingKeeps DEF disk, IndInv, Typed
  <2>4. ~PowerLoss
    BY BoundsAssumption DEF PowerLoss, IndInv, Typed
  <2>5. Keeps
    BY <2>1, <2>2, <2>3, <2>4 DEF Next
  <2>6. Copies(files) \subseteq Copies(files)'
    BY <2>5, TypeStep, CopiesKept DEF IndInv, Typed
  <2>7. Held(files) \subseteq (Held(files) \cup UNION TornPacks)'
    <3>1. Held(files) \subseteq Copies(files)
      BY CopiesHeld
    <3> QED BY <2>6, <3>1, StillThere
  <2>8. ASSUME NEW o \in Readable
        PROVE  o \in (Readable \cup BeingWritten \cup UNION (TornPacks \cup TornIndexes))'
    <3>1. /\ o \in Objects /\ o \in Copies(files)' /\ Loose(o) \notin torn
      BY <2>6, <2>8, ReadableIsThere DEF IndInv, Typed, DiskOK
    <3>2. CASE Loose(o) \in torn'
      BY <3>1, <3>2, TornLoose
    <3>3. CASE Loose(o) \notin torn'
      BY <3>1, <3>3, StillThere
    <3> QED BY <3>2, <3>3
  <2> QED BY <2>7, <2>8
<1> QED BY <1>1, Invariant, PTL DEF Spec, ObjectsKept

-----------------------------------------------------------------------------
(* Repacks that make one pack each *)

\* Every pack size that is asked for takes the whole store.
FitsOnePack == \A limit \in Limits : Cardinality(Objects) <= limit

\* A repack has no more than one pack to make.
OnePlanned(j) == \A P, Q \in j.todo \cup j.made : P = Q

\* What fits into one pack is one run of the partition.
LEMMA PartitionIsOne ==
  ASSUME FitsOnePack, NEW ids \in SUBSET Objects, NEW limit \in Limits,
         NEW P \in Partition(ids, limit), NEW Q \in Partition(ids, limit)
  PROVE  P = Q
<1> DEFINE before(o) == {u \in ids : Rank[u] < Rank[o]}
           place(o) == Cardinality(before(o))
<1>1. IsFiniteSet(ids) /\ Cardinality(ids) \in Nat /\ Cardinality(ids) <= limit /\ limit \in Nat \ {0}
  <2>1. IsFiniteSet(ids) /\ Cardinality(ids) <= Cardinality(Objects)
    BY ObjectAssumption, FS_Subset
  <2>2. Cardinality(ids) \in Nat /\ Cardinality(Objects) \in Nat
    BY <2>1, ObjectAssumption, FS_CardinalityType
  <2>3. limit \in Nat \ {0} /\ Cardinality(Objects) <= limit
    BY LimitAssumption DEF FitsOnePack
  <2> QED BY <2>1, <2>2, <2>3
<1>2. ASSUME NEW o \in ids PROVE place(o) \div limit = 0
  <2>1. before(o) \subseteq ids /\ o \notin before(o)
    BY ObjectAssumption
  <2>2. IsFiniteSet(before(o)) /\ place(o) \in Nat
    BY <1>1, <2>1, FS_Subset, FS_CardinalityType
  <2>3. place(o) < Cardinality(ids)
    <3>1. place(o) <= Cardinality(ids) /\ (place(o) = Cardinality(ids) => before(o) = ids)
      BY <1>1, <2>1, FS_Subset
    <3> HIDE DEF before
    <3> QED BY <1>1, <2>1, <2>2, <3>1
  <2> HIDE DEF place
  <2> QED BY <1>1, <2>2, <2>3
<1>3. ASSUME NEW X \in Partition(ids, limit) PROVE X = ids
  <2>1. PICK i \in 0 .. Cardinality(ids) : X = {o \in ids : place(o) \div limit = i} /\ X # {}
    BY DEF Partition
  <2> HIDE DEF place
  <2>2. i = 0
    BY <1>2, <2>1
  <2> QED BY <1>2, <2>1, <2>2
<1> QED BY <1>3

\* A repack plans once, and what it makes is what it planned.
LEMMA PlansOnce ==
  ASSUME FitsOnePack, IndInv, \A r \in Repackers : OnePlanned(job[r]), [Next]_vars
  PROVE  \A r \in Repackers : OnePlanned(job'[r])
<1>1. job \in [Repackers -> JobState] /\ OnePlanned(NoJob)
  BY DEF IndInv, Typed, OnePlanned, NoJob
<1>2. ASSUME NEW r \in Repackers, Repack(r)
      PROVE  \E n : job' = [job EXCEPT ![r] = n] /\ OnePlanned(n)
  <2>1. PICK j : j = job[r]
    OBVIOUS
  <2>2. j \in JobFields /\ OnePlanned(j) /\ JobOK(j)
    BY <1>1, <2>1 DEF IndInv, JobState
  <2>3. CASE StartRepack(r)
    <3>1. PICK limit \in Limits, mode \in Modes :
            job' = [job EXCEPT ![r] = [NoJob EXCEPT !.pc = "list", !.limit = limit, !.mode = mode,
                                                    !.batch = PacksOn(files)]]
      BY <2>3 DEF StartRepack
    <3>2. OnePlanned([NoJob EXCEPT !.pc = "list", !.limit = limit, !.mode = mode,
                                   !.batch = PacksOn(files)])
      BY DEF OnePlanned, NoJob
    <3> QED BY <3>1, <3>2
  <2>4. CASE PlanPacks(r)
    <3>1. PICK n, todo :
            /\ todo = Partition(BatchObjects(r), j.limit)
            /\ n = [j EXCEPT !.pc = "write", !.todo = todo]
            /\ job' = [job EXCEPT ![r] = n]
      BY <2>1, <2>4 DEF PlanPacks
    <3>2. j.pc = "plan" /\ j.limit \in Limits /\ j.made = {} /\ BatchObjects(r) \subseteq Objects
      <4>1. j.pc = "plan"
        BY <2>1, <2>4 DEF PlanPacks
      <4>2. j.limit \in Limits /\ j.made = {}
        BY <2>2, <4>1 DEF JobOK, JobFields
      <4> QED BY <1>1, <4>1, <4>2, BatchOfObjects
    <3>3. \A P, Q \in todo : P = Q
      BY <3>1, <3>2, PartitionIsOne
    <3>4. n.todo = todo /\ n.made = {}
      BY <2>2, <3>1, <3>2 DEF JobFields
    <3>5. OnePlanned(n)
      BY <3>3, <3>4 DEF OnePlanned
    <3> QED BY <3>1, <3>5
  <2>5. CASE WriteIdx(r)
    <3>1. PICK n, P : /\ P = j.cur
                      /\ n = [j EXCEPT !.pc = IF j.todo = {P} THEN "flush" ELSE "write",
                                       !.todo = @ \ {P}, !.made = @ \cup {P}, !.cur = {}]
      OBVIOUS
    <3>2. job' = [job EXCEPT ![r] = n] /\ j.pc = "index"
      BY <2>1, <2>5, <3>1 DEF WriteIdx
    <3>3. P \in j.todo
      BY <2>2, <3>1, <3>2 DEF JobOK
    <3>4. n.todo = j.todo \ {P} /\ n.made = j.made \cup {P}
      BY <2>2, <3>1 DEF JobFields
    <3>5. OnePlanned(n)
      BY <2>2, <3>3, <3>4 DEF OnePlanned
    <3> QED BY <3>2, <3>5
  <2>6. CASE RepackFails(r) \/ DeleteContended(r) \/ StopRepack(r)
    BY <1>1, <2>6 DEF RepackFails, DeleteContended, StopRepack
  <2>7. CASE GeometricBatch(r)
    <3>1. PICK kept \in SUBSET job[r].batch, next \in {"plan", "done", "midx"} :
            job' = [job EXCEPT ![r].pc = next, ![r].batch = @ \ kept, ![r].kept = kept,
                               ![r].loose = LooseObjects(files)]
      BY <2>7, GeometricPlan
    <3>2. PICK n : n = [j EXCEPT !.pc = next, !.batch = @ \ kept, !.kept = kept,
                                 !.loose = LooseObjects(files)]
      OBVIOUS
    <3>3. job' = [job EXCEPT ![r] = n] /\ n.todo = j.todo /\ n.made = j.made
      BY <2>1, <2>2, <3>1, <3>2 DEF JobFields
    <3>4. OnePlanned(n)
      BY <2>2, <3>3 DEF OnePlanned
    <3> QED BY <3>3, <3>4
  <2>8. CASE FullNoop(r)
    <3>1. PICK n : n = [j EXCEPT !.pc = "done"]
      OBVIOUS
    <3>2. job' = [job EXCEPT ![r] = n]
      BY <2>1, <2>8, <3>1 DEF FullNoop
    <3>3. n.todo = j.todo /\ n.made = j.made
      BY <2>2, <3>1 DEF JobFields
    <3>4. OnePlanned(n)
      BY <2>2, <3>3 DEF OnePlanned
    <3> QED BY <3>2, <3>4
  <2>9. CASE FullBatch(r)
    <3>1. PICK n : n = [j EXCEPT !.pc = "plan", !.loose = LooseObjects(files)]
      OBVIOUS
    <3>2. job' = [job EXCEPT ![r] = n]
      BY <2>1, <2>9, <3>1 DEF FullBatch
    <3>3. n.todo = j.todo /\ n.made = j.made
      BY <2>2, <3>1 DEF JobFields
    <3>4. OnePlanned(n)
      BY <2>2, <3>3 DEF OnePlanned
    <3> QED BY <3>2, <3>4
  <2>10. CASE WritePack(r)
    <3>0. PICK P \in j.todo : job' = [job EXCEPT ![r].pc = "index", ![r].cur = P]
      BY <2>1, <2>10 DEF WritePack
    <3>1. PICK n : n = [j EXCEPT !.pc = "index", !.cur = P]
      OBVIOUS
    <3>2. job' = [job EXCEPT ![r] = n]
      BY <2>1, <3>0, <3>1
    <3>3. n.todo = j.todo /\ n.made = j.made
      BY <2>2, <3>1 DEF JobFields
    <3>4. OnePlanned(n)
      BY <2>2, <3>3 DEF OnePlanned
    <3> QED BY <3>2, <3>4
  <2>11. CASE FlushPacks(r)
    <3>1. PICK n : n = [j EXCEPT !.pc = "drop"]
      OBVIOUS
    <3>2. job' = [job EXCEPT ![r] = n]
      BY <2>1, <2>11, <3>1 DEF FlushPacks
    <3>3. n.todo = j.todo /\ n.made = j.made
      BY <2>2, <3>1 DEF JobFields
    <3>4. OnePlanned(n)
      BY <2>2, <3>3 DEF OnePlanned
    <3> QED BY <3>2, <3>4
  <2>12. CASE DropPack(r)
    <3>0. PICK P \in Sources(r) : job' = [job EXCEPT ![r].pc = "dropidx", ![r].cur = P]
      BY <2>1, <2>12 DEF DropPack
    <3>1. PICK n : n = [j EXCEPT !.pc = "dropidx", !.cur = P]
      OBVIOUS
    <3>2. job' = [job EXCEPT ![r] = n]
      BY <2>1, <3>0, <3>1
    <3>3. n.todo = j.todo /\ n.made = j.made
      BY <2>2, <3>1 DEF JobFields
    <3>4. OnePlanned(n)
      BY <2>2, <3>3 DEF OnePlanned
    <3> QED BY <3>2, <3>4
  <2>13. CASE DropIdx(r)
    <3>1. PICK n : n = [j EXCEPT !.pc = "drop", !.batch = @ \ {j.cur}, !.cur = {}]
      OBVIOUS
    <3>2. job' = [job EXCEPT ![r] = n]
      BY <2>1, <2>13, <3>1 DEF DropIdx
    <3>3. n.todo = j.todo /\ n.made = j.made
      BY <2>2, <3>1 DEF JobFields
    <3>4. OnePlanned(n)
      BY <2>2, <3>3 DEF OnePlanned
    <3> QED BY <3>2, <3>4
  <2>14. CASE DropLoose(r)
    <3>0. PICK o \in j.loose : job' = [job EXCEPT ![r].loose = @ \ {o}]
      BY <2>1, <2>14 DEF DropLoose
    <3>1. PICK n : n = [j EXCEPT !.loose = @ \ {o}]
      OBVIOUS
    <3>2. job' = [job EXCEPT ![r] = n]
      BY <2>1, <3>0, <3>1
    <3>3. n.todo = j.todo /\ n.made = j.made
      BY <2>2, <3>1 DEF JobFields
    <3>4. OnePlanned(n)
      BY <2>2, <3>3 DEF OnePlanned
    <3> QED BY <3>2, <3>4
  <2>15. CASE WriteMidx(r)
    <3>1. PICK n : n = [j EXCEPT !.pc = "done"]
      OBVIOUS
    <3>2. job' = [job EXCEPT ![r] = n]
      BY <2>1, <2>15, <3>1 DEF WriteMidx
    <3>3. n.todo = j.todo /\ n.made = j.made
      BY <2>2, <3>1 DEF JobFields
    <3>4. OnePlanned(n)
      BY <2>2, <3>3 DEF OnePlanned
    <3> QED BY <3>2, <3>4
  <2> QED
    BY <1>2, <2>3, <2>4, <2>5, <2>6, <2>7, <2>8, <2>9, <2>10, <2>11, <2>12, <2>13, <2>14, <2>15 DEF Repack
<1>3. CASE \E r \in Repackers : Repack(r)
  BY <1>1, <1>2, <1>3
<1>4. CASE PowerLoss
  BY <1>1, <1>4 DEF PowerLoss
<1>5. CASE (\E q \in Publishers : Publish(q)) \/ (\E x \in Readers : Read(x)) \/ UNCHANGED vars
  <2>1. ASSUME NEW q \in Publishers, Publish(q) PROVE job' = job
    BY <2>1, PublishAlone
  <2>2. ASSUME NEW x \in Readers, Read(x) PROVE job' = job
    BY <2>2, ReadStep
  <2>3. job' = job
    BY <1>5, <2>1, <2>2 DEF vars
  <2> QED BY <2>3
<1> QED BY <1>3, <1>4, <1>5 DEF Next

\* Any number of repacks may overlap, also with publishers, readers, kills and
\* power losses, if the store fits into one pack of every size asked for: no
\* object is dropped and no durable one lost or reported missing, except for the
\* torn files that ObjectsKept and DurableSurvives name.
THEOREM OnePackIsEnough ==
  ASSUME FitsOnePack
  PROVE  Spec => ObjectsKept /\ []DurableSurvives /\ []DurableIsFound
<1> DEFINE Fitting == IndInv /\ \A r \in Repackers : OnePlanned(job[r])
<1>1. Init => Fitting
  BY InitInv DEF Init, OnePlanned, NoJob
<1>2. Fitting => Compatible
  BY DEF Compatible, OnePack, OnePlanned
<1>3. Fitting /\ [Next]_vars => Fitting'
  <2> SUFFICES ASSUME Fitting, [Next]_vars PROVE Fitting'
    OBVIOUS
  <2>1. IndInv'
    BY <1>2, InvStep
  <2>2. ASSUME NEW r \in Repackers PROVE OnePlanned(job[r])'
    BY PlansOnce DEF OnePlanned
  <2> QED BY <2>1, <2>2
<1> HIDE DEF Fitting
<1>4. Spec => []Compatible
  BY <1>1, <1>2, <1>3, PTL DEF Spec
<1> QED BY <1>4, NoObjectDropped, DurableObjectsSurvive, DurableObjectsFound, PTL

=============================================================================
