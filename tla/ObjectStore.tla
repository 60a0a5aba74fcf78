----------------------------- MODULE ObjectStore -----------------------------
(***************************************************************************)
(* The object store of one repository on disk (gitana-object-store): loose  *)
(* objects, packs with their indexes, and the multi-pack-index.  Processes  *)
(* repack it (ObjectStore::repack, repack_geometric), write objects and     *)
(* make them durable before they publish a ref                              *)
(* (Repository::durability_barrier_object_graphs), and read objects under   *)
(* limits (read_object_with_limits), all without a lock.  A process may     *)
(* stop at any step, and a power loss takes the files not yet flushed or    *)
(* their content.                                                          *)
(*                                                                         *)
(* A loose object is written in place, a pack and its index beside their    *)
(* path and renamed to it; a file that exists is never written again.  A    *)
(* pack is named by the checksum of its content, so it is the set of        *)
(* objects it holds.  A torn file lacks content and gives no object: any    *)
(* reader of it meets an error.  All objects have the same size.  Reading   *)
(* one object or one file is one step; the in-memory caches are left out.   *)
(***************************************************************************)
EXTENDS Naturals, FiniteSets, FiniteSetsExt

CONSTANTS
    Objects,            \* object ids
    Rank,               \* the order in which a pack lists objects
    Repackers,          \* processes that repack
    Publishers,         \* processes that write objects and make them durable
    Readers,            \* processes that read objects under limits
    None,               \* no multi-pack-index
    Modes,              \* what repackers run: "full", "geometric"
    Limits,             \* pack sizes they ask for, in objects
    Factor,             \* growth of the geometric repack
    Ways,               \* how publishers write: "loose", "pack"
    Pushes,             \* the sets of objects they write
    Stores,             \* the object stores a run starts from
    StabilityAttempts,  \* STABILITY_ATTEMPTS
    MaxPackCount,       \* ObjectReadLimits::max_pack_count
    MaxRepacks,         \* bound: repacks started
    MaxWrites,          \* bound: publications started
    MaxReads,           \* bound: reads started
    MaxStops            \* bound: processes that stop, and power losses

Packs == (SUBSET Objects) \ {{}}
File == [kind : {"loose"}, of : Objects] \cup [kind : {"pack", "idx"}, of : Packs]

ASSUME ObjectAssumption ==
    /\ IsFiniteSet(Objects)
    /\ Rank \in [Objects -> Nat]
    /\ \A a, b \in Objects : Rank[a] = Rank[b] => a = b
    /\ \A S \in SUBSET Packs : S # None
ASSUME LimitAssumption ==
    /\ Limits \subseteq Nat \ {0} /\ Factor \in Nat \ {0, 1}
    /\ StabilityAttempts \in Nat \ {0} /\ MaxPackCount \in Nat
    /\ Pushes \subseteq Packs
    /\ Modes \subseteq {"full", "geometric"} /\ Ways \subseteq {"loose", "pack"}
ASSUME StoreAssumption ==
    \A s \in Stores : s.files \subseteq File /\ (s.midx = None \/ s.midx \subseteq Packs)
ASSUME BoundsAssumption ==
    MaxRepacks \in Nat /\ MaxWrites \in Nat /\ MaxReads \in Nat /\ MaxStops \in Nat

VARIABLES
    files,      \* the files on disk
    flushed,    \* those that would survive a power loss
    torn,       \* those without all of their content
    open,       \* publishers whose unfinished loose file is still at its path
    midx,       \* the packs the multi-pack-index names
    job,        \* what each repacker is doing
    pub,        \* what each publisher is doing
    durable,    \* objects reported durable
    read,       \* what each reader is doing
    repacks, writes, reads, stops   \* counters of the bounds

disk == <<files, flushed, torn, open, midx>>
vars == <<disk, job, pub, durable, read, repacks, writes, reads, stops>>

Loose(o) == [kind |-> "loose", of |-> o]
Pack(P) == [kind |-> "pack", of |-> P]
Idx(P) == [kind |-> "idx", of |-> P]

LooseObjects(F) == {o \in Objects : Loose(o) \in F}
PacksOn(F) == {P \in Packs : Pack(P) \in F}

Whole(f) == f \in files \ torn

\* pack_meta: the index, rebuilt from the pack when it is missing.
Usable(P) ==
    P \in PacksOn(files) /\ IF Idx(P) \in files THEN Whole(Idx(P)) ELSE Whole(Pack(P))

\* The files that may supply an object.  A loose file hides the packs, torn or
\* not; which pack that holds it is found first is left open.
Backings(o) ==
    IF Loose(o) \in files THEN {{Loose(o)}} \ {{f} : f \in torn}
    ELSE {{Pack(P), Idx(P)} \cap files :
            P \in {Q \in PacksOn(files) : o \in Q /\ Usable(Q) /\ Whole(Pack(Q))}}

\* An object that is in no file, and one whose lookup may meet a torn file.
Missing(o) == Loose(o) \notin files /\ \A P \in PacksOn(files) : o \notin P
Unreadable(o) ==
    IF Loose(o) \in files THEN Loose(o) \in torn
    ELSE \E P \in PacksOn(files) : ~Usable(P) \/ (o \in P /\ ~Whole(Pack(P)))

NoJob == [pc |-> "idle", limit |-> 0, mode |-> "none", batch |-> {}, kept |-> {}, loose |-> {},
          todo |-> {}, made |-> {}, cur |-> {}]
NoPub == [pc |-> "idle", way |-> "none", objs |-> {}, todo |-> {}, cur |-> None, seen |-> {},
          tries |-> 0, failed |-> FALSE]
NoRead == [pc |-> "idle", obj |-> None, observed |-> {}, listed |-> {}, searched |-> {}, cur |-> {},
           gone |-> FALSE, noidx |-> FALSE, passes |-> 0]

TypeOK ==
    /\ files \subseteq File /\ flushed \subseteq files /\ torn \subseteq files
    /\ open \subseteq Publishers
    /\ midx = None \/ midx \subseteq Packs
    /\ job \in [Repackers ->
         [pc : {"idle", "list", "plan", "write", "index", "flush", "drop", "dropidx", "midx", "done"},
          limit : Limits \cup {0}, mode : Modes \cup {"none"}, batch : SUBSET Packs,
          kept : SUBSET Packs, loose : SUBSET Objects, todo : SUBSET Packs, made : SUBSET Packs,
          cur : Packs \cup {{}}]]
    /\ pub \in [Publishers ->
         [pc : {"idle", "write", "fill", "index", "look", "flush", "check", "error"},
          way : Ways \cup {"none"}, objs : SUBSET Objects, todo : SUBSET Objects,
          cur : Objects \cup {None}, seen : SUBSET [obj : Objects, in : SUBSET File],
          tries : 0 .. StabilityAttempts - 1, failed : BOOLEAN]]
    /\ durable \subseteq Objects
    /\ read \in [Readers ->
         [pc : {"idle", "loose", "list", "search", "probe", "fetch",
                "found", "notfound", "noindex", "limit", "corrupt"},
          obj : Objects \cup {None}, observed : SUBSET Packs, listed : SUBSET Packs,
          searched : SUBSET Packs, cur : Packs \cup {{}}, gone : BOOLEAN, noidx : BOOLEAN,
          passes : 0 .. MaxPackCount + 1]]
    /\ repacks \in 0 .. MaxRepacks /\ writes \in 0 .. MaxWrites
    /\ reads \in 0 .. MaxReads /\ stops \in 0 .. MaxStops

Init ==
    /\ \E s \in Stores : files = s.files /\ midx = s.midx
    /\ flushed = files /\ torn = {} /\ open = {}
    /\ durable = LooseObjects(files) \cup UNION PacksOn(files)
    /\ job = [r \in Repackers |-> NoJob]
    /\ pub = [q \in Publishers |-> NoPub]
    /\ read = [x \in Readers |-> NoRead]
    /\ repacks = 0 /\ writes = 0 /\ reads = 0 /\ stops = 0

\* write_path_stream_if_absent: written beside its path and renamed to it, unless
\* it is there already.
Create(f) == files' = files \cup {f} /\ UNCHANGED <<flushed, torn, open, midx>>

\* delete_path: the file may be gone already.
Delete(f) ==
    /\ files' = files \ {f} /\ flushed' = flushed \ {f} /\ torn' = torn \ {f}
    /\ open' = {q \in open : Loose(pub[q].cur) # f}
    /\ UNCHANGED midx

\* durability_barrier on files that are all there.
Barrier(F) == F \subseteq files /\ flushed' = flushed \cup F /\ UNCHANGED <<files, torn, open, midx>>

(***************************************************************************)
(* Repack.                                                                 *)
(***************************************************************************)

RepackUnchanged == UNCHANGED <<pub, durable, read, repacks, writes, reads, stops>>

\* partition_ranges: runs of at most limit objects in pack order.
Partition(ids, limit) ==
    LET place(o) == Cardinality({a \in ids : Rank[a] < Rank[o]})
    IN  {{o \in ids : place(o) \div limit = i} : i \in 0 .. Cardinality(ids)} \ {{}}

\* The packs, and the loose objects as one more.
SplitItems(packs, loose) ==
    {[kind |-> "pack", of |-> P] : P \in packs}
        \cup (IF loose = {} THEN {} ELSE {[kind |-> "loose", of |-> loose]})

\* The items outside roll grow by Factor, starting from what roll adds up to.
Geometric(items, roll) ==
    LET weight(i) == Cardinality(i.of)
        total == MapThenSumSet(weight, roll)
    IN  \A i \in items \ roll :
            /\ weight(i) >= Factor * total
            /\ \A j \in (items \ roll) \ {i} :
                 weight(i) >= Factor * weight(j) \/ weight(j) >= Factor * weight(i)

\* geometric_split: roll up as little as that allows.  That is a prefix of the
\* packs by size, since a kept pack outweighs every rolled one.
RollUp(packs, loose) ==
    LET items == SplitItems(packs, loose)
        rolls == {S \in SUBSET items : Geometric(items, S)}
        least == CHOOSE S \in rolls : \A T \in rolls : Cardinality(S) <= Cardinality(T)
    IN  {P \in packs : [kind |-> "pack", of |-> P] \in least}

\* repack, repack_geometric: list the packs.
StartRepack(r) == \E limit \in Limits, mode \in Modes :
    /\ job[r].pc \in {"idle", "done"} /\ repacks < MaxRepacks
    /\ job' = [job EXCEPT ![r] =
                 [NoJob EXCEPT !.pc = "list", !.limit = limit, !.mode = mode, !.batch = PacksOn(files)]]
    /\ repacks' = repacks + 1
    /\ UNCHANGED <<disk, pub, durable, read, writes, reads, stops>>

\* Nothing loose, and at most one pack, indexed and small enough, as one of
\* short, torn packs that may have lost bytes, can be too.
NothingToDo(r, short) ==
    /\ LooseObjects(files) = {}
    /\ \A P \in job[r].batch :
         /\ job[r].batch = {P} /\ Idx(P) \in files
         /\ Cardinality(P) <= job[r].limit \/ Pack(P) \in short

FullNoop(r) ==
    /\ job[r].pc = "list" /\ job[r].mode = "full" /\ job[r].batch \subseteq PacksOn(files)
    /\ NothingToDo(r, torn)
    /\ job' = [job EXCEPT ![r].pc = "done"]
    /\ UNCHANGED disk /\ RepackUnchanged

FullBatch(r) ==
    /\ job[r].pc = "list" /\ job[r].mode = "full"
    /\ ~NothingToDo(r, {})
    /\ job' = [job EXCEPT ![r].pc = "plan", ![r].loose = LooseObjects(files)]
    /\ UNCHANGED disk /\ RepackUnchanged

\* Packs the split keeps must have an index.
GeometricBatch(r) ==
    /\ job[r].pc = "list" /\ job[r].mode = "geometric" /\ \A P \in job[r].batch : Usable(P)
    /\ LET loose == LooseObjects(files)
           kept == {P \in job[r].batch \ RollUp(job[r].batch, loose) : Idx(P) \in files}
           batch == job[r].batch \ kept
           fresh == IF midx = None THEN Cardinality(kept) < 2 ELSE midx = kept
           next == IF batch # {} \/ loose # {} THEN "plan" ELSE IF fresh THEN "done" ELSE "midx"
       IN  job' = [job EXCEPT ![r].pc = next, ![r].batch = batch, ![r].kept = kept, ![r].loose = loose]
    /\ UNCHANGED disk /\ RepackUnchanged

BatchObjects(r) == (UNION job[r].batch) \cup job[r].loose

\* repack_batch, pass 1: read every object of the batch once.
PlanPacks(r) ==
    /\ job[r].pc = "plan"
    /\ \A P \in job[r].batch : Usable(P)
    /\ \A o \in BatchObjects(r) : Backings(o) # {}
    /\ job' = [job EXCEPT ![r].pc = "write", ![r].todo = Partition(BatchObjects(r), job[r].limit)]
    /\ UNCHANGED disk /\ RepackUnchanged

\* Pass 2: read the objects of one partition and write its pack, then its index.
WritePack(r) == \E P \in job[r].todo :
    /\ job[r].pc = "write" /\ \A o \in P : Backings(o) # {}
    /\ Create(Pack(P))
    /\ job' = [job EXCEPT ![r].pc = "index", ![r].cur = P]
    /\ RepackUnchanged

WriteIdx(r) == LET P == job[r].cur IN
    /\ job[r].pc = "index"
    /\ Create(Idx(P))
    /\ job' = [job EXCEPT ![r].pc = IF job[r].todo = {P} THEN "flush" ELSE "write",
                          ![r].todo = @ \ {P}, ![r].made = @ \cup {P}, ![r].cur = {}]
    /\ RepackUnchanged

\* Mutant: the sources are deleted before their replacements are durable.
FlushPacksNot(r) ==
    /\ job[r].pc = "flush"
    /\ job' = [job EXCEPT ![r].pc = "drop"]
    /\ UNCHANGED disk /\ RepackUnchanged

NewFiles(r) == {Pack(P) : P \in job[r].made} \cup {Idx(P) : P \in job[r].made}

FlushPacks(r) ==
    /\ job[r].pc = "flush"
    /\ Barrier(NewFiles(r))
    /\ job' = [job EXCEPT ![r].pc = "drop"]
    /\ RepackUnchanged

\* Mutant: a pack the rewrite reproduced is deleted too.
SourcesAll(r) == job[r].batch

\* Batch packs the rewrite has not reproduced.
Sources(r) == job[r].batch \ job[r].made

DropPack(r) == \E P \in Sources(r) :
    /\ job[r].pc = "drop"
    /\ Delete(Pack(P))
    /\ job' = [job EXCEPT ![r].pc = "dropidx", ![r].cur = P]
    /\ RepackUnchanged

DropIdx(r) == LET P == job[r].cur IN
    /\ job[r].pc = "dropidx"
    /\ Delete(Idx(P))
    /\ job' = [job EXCEPT ![r].pc = "drop", ![r].batch = @ \ {P}, ![r].cur = {}]
    /\ RepackUnchanged

DropLoose(r) == \E o \in job[r].loose :
    /\ job[r].pc = "drop" /\ Sources(r) = {}
    /\ Delete(Loose(o))
    /\ job' = [job EXCEPT ![r].loose = @ \ {o}]
    /\ RepackUnchanged

MidxPacks(r) == job[r].kept \cup job[r].made

AtMidx(r) ==
    \/ job[r].pc = "midx"
    \/ job[r].pc = "drop" /\ Sources(r) = {} /\ job[r].loose = {}

\* write_or_clear_midx over the kept and the new packs.
WriteMidx(r) ==
    /\ AtMidx(r)
    /\ Cardinality(MidxPacks(r)) >= 2 => \A P \in MidxPacks(r) : Usable(P)
    /\ midx' = IF Cardinality(MidxPacks(r)) < 2 THEN None ELSE MidxPacks(r)
    /\ job' = [job EXCEPT ![r].pc = "done"]
    /\ UNCHANGED <<files, flushed, torn, open>> /\ RepackUnchanged

CannotRead(S) == \E o \in S : Missing(o) \/ Unreadable(o)

\* A file it needs is torn or has been deleted by another process.
RepackFails(r) ==
    /\ \/ job[r].pc = "list" /\ job[r].mode = "geometric" /\ \E P \in job[r].batch : ~Usable(P)
       \/ /\ job[r].pc = "list" /\ job[r].mode = "full" /\ NothingToDo(r, torn)
          /\ ~(job[r].batch \subseteq PacksOn(files))
       \/ job[r].pc = "plan" /\ (CannotRead(BatchObjects(r)) \/ \E P \in job[r].batch : ~Usable(P))
       \/ job[r].pc = "write" /\ \E P \in job[r].todo : CannotRead(P)
       \/ job[r].pc = "flush" /\ ~(NewFiles(r) \subseteq files)
       \/ AtMidx(r) /\ Cardinality(MidxPacks(r)) >= 2 /\ \E P \in MidxPacks(r) : ~Usable(P)
    /\ job' = [job EXCEPT ![r] = NoJob]
    /\ UNCHANGED disk /\ RepackUnchanged

\* delete_path takes the lock of the path: another process is deleting too.
DeleteContended(r) ==
    /\ job[r].pc \in {"drop", "dropidx"}
    /\ \E s \in Repackers \ {r} : job[s].pc \in {"drop", "dropidx"}
    /\ job' = [job EXCEPT ![r] = NoJob]
    /\ UNCHANGED disk /\ RepackUnchanged

\* The process is killed; what it wrote stays.
StopRepack(r) ==
    /\ job[r].pc \notin {"idle", "done"} /\ stops < MaxStops
    /\ job' = [job EXCEPT ![r] = NoJob]
    /\ stops' = stops + 1
    /\ UNCHANGED <<disk, pub, durable, read, repacks, writes, reads>>

(***************************************************************************)
(* Publishing: write objects, then make them durable.                      *)
(***************************************************************************)

PubUnchanged == UNCHANGED <<job, read, repacks, reads, stops>>

StartPublish(q) == \E objs \in Pushes, way \in Ways :
    /\ pub[q].pc \in {"idle", "error"} /\ writes < MaxWrites
    /\ pub' = [pub EXCEPT ![q] = [NoPub EXCEPT !.pc = "write", !.way = way, !.objs = objs, !.todo = objs]]
    /\ writes' = writes + 1
    /\ UNCHANGED <<disk, job, durable, read, repacks, reads, stops>>

\* The publisher after it has dealt with the loose file of o.
WroteLoose(q, o) ==
    pub' = [pub EXCEPT ![q] =
              IF @.todo = {o} THEN [pub[q] EXCEPT !.pc = "look", !.todo = pub[q].objs, !.cur = None]
              ELSE [pub[q] EXCEPT !.pc = "write", !.todo = @ \ {o}, !.cur = None]]

\* write_object: a file at the path counts as the object, whatever it holds.
LooseExists(q) == \E o \in pub[q].todo :
    /\ pub[q].pc = "write" /\ pub[q].way = "loose" /\ Loose(o) \in files
    /\ WroteLoose(q, o)
    /\ UNCHANGED <<disk, durable, writes>> /\ PubUnchanged

\* write_if_absent: create_new at the final path.
CreateLoose(q) == \E o \in pub[q].todo :
    /\ pub[q].pc = "write" /\ pub[q].way = "loose" /\ Loose(o) \notin files
    /\ files' = files \cup {Loose(o)} /\ torn' = torn \cup {Loose(o)} /\ open' = open \cup {q}
    /\ pub' = [pub EXCEPT ![q].pc = "fill", ![q].cur = o]
    /\ UNCHANGED <<flushed, midx, durable, writes>> /\ PubUnchanged

\* write_all, flush: into a file that may have been deleted meanwhile.
FillLoose(q) == LET written == IF q \in open THEN {Loose(pub[q].cur)} ELSE {} IN
    /\ pub[q].pc = "fill"
    /\ torn' = torn \ written /\ flushed' = flushed \ written /\ open' = open \ {q}
    /\ WroteLoose(q, pub[q].cur)
    /\ UNCHANGED <<files, midx, durable, writes>> /\ PubUnchanged

\* The process is killed, or a write returns an error; what it wrote stays.
StopPublish(q) ==
    /\ pub[q].pc \notin {"idle", "error"} /\ stops < MaxStops
    /\ pub' = [pub EXCEPT ![q] = NoPub] /\ open' = open \ {q}
    /\ stops' = stops + 1
    /\ UNCHANGED <<files, flushed, torn, midx, job, durable, read, repacks, writes, reads>>

\* write_pack: the pack, then its index.
ReceivePack(q) ==
    /\ pub[q].pc = "write" /\ pub[q].way = "pack"
    /\ Create(Pack(pub[q].objs))
    /\ pub' = [pub EXCEPT ![q].pc = "index"]
    /\ UNCHANGED <<durable, writes>> /\ PubUnchanged

ReceiveIdx(q) ==
    /\ pub[q].pc = "index"
    /\ Create(Idx(pub[q].objs))
    /\ pub' = [pub EXCEPT ![q].pc = "look", ![q].todo = pub[q].objs]
    /\ UNCHANGED <<durable, writes>> /\ PubUnchanged

\* reachability_snapshot, one object.
LookAt(q) == \E o \in pub[q].todo : \E backing \in Backings(o) :
    /\ pub[q].pc = "look"
    /\ pub' = [pub EXCEPT ![q].seen = @ \cup {[obj |-> o, in |-> backing]},
                          ![q].todo = @ \ {o},
                          ![q].pc = IF pub[q].todo = {o} THEN "flush" ELSE "look"]
    /\ UNCHANGED <<disk, durable, writes>> /\ PubUnchanged

SeenFiles(q) == UNION {s.in : s \in pub[q].seen}

FlushSeen(q) ==
    /\ pub[q].pc = "flush"
    /\ Barrier(SeenFiles(q))
    /\ pub' = [pub EXCEPT ![q].pc = "check", ![q].todo = pub[q].objs]
    /\ UNCHANGED <<durable, writes>> /\ PubUnchanged

\* A file to flush is gone: an error, unless the next snapshot shows that objects moved.
FlushFails(q) ==
    /\ pub[q].pc = "flush" /\ ~(SeenFiles(q) \subseteq files)
    /\ pub' = [pub EXCEPT ![q].pc = "check", ![q].todo = pub[q].objs, ![q].failed = TRUE]
    /\ UNCHANGED <<disk, durable, writes>> /\ PubUnchanged

\* The second snapshot finds one object where the first did.
CheckOne(q) == \E o \in pub[q].todo : \E backing \in Backings(o) :
    LET last == pub[q].todo = {o} IN
    /\ pub[q].pc = "check" /\ [obj |-> o, in |-> backing] \in pub[q].seen
    /\ pub' = [pub EXCEPT ![q] = IF ~last THEN [pub[q] EXCEPT !.todo = @ \ {o}]
                                 ELSE IF @.failed THEN [NoPub EXCEPT !.pc = "error"] ELSE NoPub]
    /\ durable' = IF last /\ ~pub[q].failed THEN durable \cup pub[q].objs ELSE durable
    /\ UNCHANGED <<disk, writes>> /\ PubUnchanged

\* Mutant: one attempt too many.
MovedLate(q) ==
    /\ \/ pub[q].pc = "look" /\ \E o \in pub[q].todo : Missing(o)
       \/ pub[q].pc = "check" /\ \E o \in pub[q].todo :
            /\ Missing(o) \/ Backings(o) # {}
            /\ {[obj |-> o, in |-> b] : b \in Backings(o)} \cap pub[q].seen = {}
    /\ pub' = [pub EXCEPT ![q] =
                 IF @.tries < StabilityAttempts
                 THEN [pub[q] EXCEPT !.pc = "look", !.todo = pub[q].objs, !.seen = {},
                                     !.tries = @ + 1, !.failed = FALSE]
                 ELSE [NoPub EXCEPT !.pc = "error"]]
    /\ UNCHANGED <<disk, durable, writes>> /\ PubUnchanged

\* An object is gone or elsewhere: look again, or give up.
Moved(q) ==
    /\ \/ pub[q].pc = "look" /\ \E o \in pub[q].todo : Missing(o)
       \/ pub[q].pc = "check" /\ \E o \in pub[q].todo :
            /\ Missing(o) \/ Backings(o) # {}
            /\ {[obj |-> o, in |-> b] : b \in Backings(o)} \cap pub[q].seen = {}
    /\ pub' = [pub EXCEPT ![q] =
                 IF @.tries + 1 < StabilityAttempts
                 THEN [pub[q] EXCEPT !.pc = "look", !.todo = pub[q].objs, !.seen = {},
                                     !.tries = @ + 1, !.failed = FALSE]
                 ELSE [NoPub EXCEPT !.pc = "error"]]
    /\ UNCHANGED <<disk, durable, writes>> /\ PubUnchanged

\* A torn file is not a sign of movement: the barrier returns the error.
LookFails(q) ==
    /\ pub[q].pc \in {"look", "check"} /\ \E o \in pub[q].todo : Unreadable(o)
    /\ pub' = [pub EXCEPT ![q] = [NoPub EXCEPT !.pc = "error"]]
    /\ UNCHANGED <<disk, durable, writes>> /\ PubUnchanged

(***************************************************************************)
(* Reading under limits: no cache, packs searched one by one.              *)
(***************************************************************************)

ReadUnchanged == UNCHANGED <<disk, job, pub, durable, repacks, writes, stops>>

\* An object that was reported durable.
StartRead(x) == \E o \in durable :
    /\ read[x].pc \in {"idle", "found", "notfound", "noindex", "limit", "corrupt"} /\ reads < MaxReads
    /\ read' = [read EXCEPT ![x] = [NoRead EXCEPT !.pc = "loose", !.obj = o]]
    /\ reads' = reads + 1
    /\ ReadUnchanged

Goto(x, pc) == read' = [read EXCEPT ![x].pc = pc]

ReadLoose(x) ==
    /\ read[x].pc = "loose"
    /\ Goto(x, IF Loose(read[x].obj) \notin files THEN "list"
               ELSE IF Loose(read[x].obj) \in torn THEN "corrupt" ELSE "found")
    /\ ReadUnchanged /\ UNCHANGED reads

\* max_pack_count bounds the passes and the packs seen in all of them.
WithinPackCount(x) ==
    /\ read[x].passes <= MaxPackCount
    /\ Cardinality(read[x].observed \cup PacksOn(files)) <= MaxPackCount

ListPacks(x) ==
    /\ read[x].pc = "list" /\ WithinPackCount(x)
    /\ read' = [read EXCEPT ![x].pc = "search", ![x].observed = @ \cup PacksOn(files),
                            ![x].listed = PacksOn(files) \ read[x].searched,
                            ![x].gone = FALSE, ![x].noidx = FALSE, ![x].passes = @ + 1]
    /\ ReadUnchanged /\ UNCHANGED reads

TooManyPacks(x) ==
    /\ read[x].pc = "list" /\ ~WithinPackCount(x)
    /\ Goto(x, "limit")
    /\ ReadUnchanged /\ UNCHANGED reads

\* Read the index of the next pack.
SearchPack(x) == \E P \in read[x].listed :
    /\ read[x].pc = "search"
    /\ read' = [read EXCEPT ![x].listed = @ \ {P}, ![x].cur = P,
                 ![x].searched = IF Idx(P) \in files /\ read[x].obj \notin P THEN @ \cup {P} ELSE @,
                 ![x].pc = IF Idx(P) \notin files THEN "probe"
                           ELSE IF Idx(P) \in torn THEN "corrupt"
                           ELSE IF read[x].obj \in P THEN "fetch" ELSE "search"]
    /\ ReadUnchanged /\ UNCHANGED reads

\* No index: is the pack still there?
ProbePack(x) == LET there == Pack(read[x].cur) \in files IN
    /\ read[x].pc = "probe"
    /\ read' = [read EXCEPT ![x].pc = "search", ![x].noidx = @ \/ there, ![x].gone = @ \/ ~there]
    /\ ReadUnchanged /\ UNCHANGED reads

FetchObject(x) == LET there == Pack(read[x].cur) \in files IN
    /\ read[x].pc = "fetch"
    /\ read' = [read EXCEPT ![x].pc = IF ~there THEN "search"
                                     ELSE IF Pack(read[x].cur) \in torn THEN "corrupt" ELSE "found",
                            ![x].gone = @ \/ ~there]
    /\ ReadUnchanged /\ UNCHANGED reads

\* Mutant: a pack that disappeared is not a reason to list again.
EndSearchOnce(x) ==
    /\ read[x].pc = "search" /\ read[x].listed = {}
    /\ Goto(x, IF read[x].noidx THEN "noindex" ELSE "notfound")
    /\ ReadUnchanged /\ UNCHANGED reads

EndSearch(x) ==
    /\ read[x].pc = "search" /\ read[x].listed = {}
    /\ Goto(x, IF read[x].gone THEN "list" ELSE IF read[x].noidx THEN "noindex" ELSE "notfound")
    /\ ReadUnchanged /\ UNCHANGED reads

(***************************************************************************)
(* Power loss.                                                             *)
(***************************************************************************)

\* Any of the files not flushed may be gone, or there without their content; the
\* multi-pack-index may be gone too.
PowerLoss == \E left \in SUBSET (files \ flushed) : \E cut \in SUBSET left :
    /\ stops < MaxStops
    /\ files' = flushed \cup left /\ flushed' = files'
    /\ torn' = (torn \cap files') \cup cut /\ open' = {}
    /\ midx' \in {midx, None}
    /\ job' = [r \in Repackers |-> NoJob]
    /\ pub' = [q \in Publishers |-> NoPub]
    /\ read' = [x \in Readers |-> NoRead]
    /\ stops' = stops + 1
    /\ UNCHANGED <<durable, repacks, writes, reads>>

Repack(r) ==
    \/ StartRepack(r) \/ FullNoop(r) \/ FullBatch(r) \/ GeometricBatch(r)
    \/ PlanPacks(r) \/ WritePack(r) \/ WriteIdx(r) \/ FlushPacks(r)
    \/ DropPack(r) \/ DropIdx(r) \/ DropLoose(r) \/ WriteMidx(r)
    \/ RepackFails(r) \/ DeleteContended(r) \/ StopRepack(r)

Publish(q) ==
    \/ StartPublish(q) \/ LooseExists(q) \/ CreateLoose(q) \/ FillLoose(q)
    \/ ReceivePack(q) \/ ReceiveIdx(q)
    \/ LookAt(q) \/ FlushSeen(q) \/ FlushFails(q) \/ CheckOne(q) \/ Moved(q) \/ LookFails(q)
    \/ StopPublish(q)

Read(x) ==
    \/ StartRead(x) \/ ReadLoose(x) \/ ListPacks(x) \/ TooManyPacks(x)
    \/ SearchPack(x) \/ ProbePack(x) \/ FetchObject(x) \/ EndSearch(x)

Next ==
    \/ \E r \in Repackers : Repack(r)
    \/ \E q \in Publishers : Publish(q)
    \/ \E x \in Readers : Read(x)
    \/ PowerLoss

Spec == Init /\ [][Next]_vars
-----------------------------------------------------------------------------
(***************************************************************************)
(* Properties.                                                             *)
(***************************************************************************)

\* The objects with a whole copy in F, and those of packs that a power loss left
\* without their content.
Held(F) ==
    {o \in Objects : Loose(o) \in F \ torn \/ \E P \in Packs : o \in P /\ Pack(P) \in F \ torn}
TornPacks == {P \in Packs : Pack(P) \in torn}
TornIndexes == {P \in Packs : Idx(P) \in torn}

\* The objects that can be read, and those whose loose file is being written.
Readable == {o \in Objects : Backings(o) # {}}
BeingWritten == {pub[q].cur : q \in open}

\* The content of an object reported durable survives a power loss at any moment,
\* a repack in progress included (the barrier of repack_batch before it deletes
\* its sources, durability_barrier_object_graphs).  The exception is the code's: a
\* repack takes a pack that an earlier power loss left torn for the one it would
\* write, and deletes its sources (write_pack: "Idempotent").
DurableSurvives == durable \subseteq Held(flushed) \cup UNION TornPacks

\* No step of a repack, a write or a read takes the last whole copy of an object:
\* "no object is dropped", "an object is never momentarily unreferenced on disk"
\* (repack).  Nor does one make an object unreadable, except that a loose file hides
\* the packed copy while it is written, and for good when its writer dies
\* (write_if_absent), and that a torn pack or index is kept where a repack would
\* write the same one (write_pack: "Idempotent").
ObjectsKept ==
    [][stops' = stops =>
         /\ Held(files) \subseteq (Held(files) \cup UNION TornPacks)'
         /\ Readable \subseteq (Readable \cup BeingWritten \cup UNION (TornPacks \cup TornIndexes))']_vars

\* A reader that meets a repack never reports a durable object missing: a pack
\* that disappeared makes it list the packs again (read_packed_with_limits).
DurableIsFound == \A x \in Readers : read[x].pc # "notfound"
=============================================================================
