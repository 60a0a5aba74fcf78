\* Two gitana processes and no stock git: the history lease alone orders them.
\* One branch name is a directory of the other, batches have one or two ops.
SPECIFICATION Spec
CONSTANTS
    x = x
    y = y
    v1 = v1
    v2 = v2
    None = None
    Free = Free
    Refs = {x, y}
    Oids = {v1, v2}
    Procs = {p1, p2}
    Gits = {}
    Below <- NestedBelow
    RefRank <- Rank
    LockAttempts = 2
    Plans <- ChangeBatches
    Preconditions <- NoPrecondition
    Targets <- NoTargets
    Stores <- NestedStores
    Logged <- AllLogged
    NonUtf8Packed = FALSE
    GitOps = {}
    MaxTxns = 2
    MaxGit = 0
    MaxCrashes = 0
INVARIANTS
    FailureAppliesNothing
    ValidatedCommitNotBlocked
CHECK_DEADLOCK FALSE
