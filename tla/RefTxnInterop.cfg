\* One gitana process and one stock git process: one branch name is a directory
\* of the other, batches have one or two ops, packed-refs holds an entry that is
\* not UTF-8.
SPECIFICATION Spec
CONSTANTS
    x = x
    y = y
    v1 = v1
    v2 = v2
    None = None
    Free = Free
    Refs = {x, y}
    Oids = {v1, v2}
    Procs = {p1}
    Gits = {g1}
    Below <- NestedBelow
    RefRank <- Rank
    LockAttempts = 2
    Plans <- MixedBatches
    Preconditions <- NoPrecondition
    Targets <- AllRefs
    Stores <- NestedStores
    Logged <- AllLogged
    NonUtf8Packed = TRUE
    GitOps = {"update", "delete", "pack"}
    MaxTxns = 2
    MaxGit = 2
    MaxCrashes = 1
INVARIANTS
    TypeOK
    LocksCoverCommit
    PendingStillExpected
    NoLockCycle
    NamespaceDisjoint
CHECK_DEADLOCK FALSE
