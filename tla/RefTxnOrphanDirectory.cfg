\* A gitana process that may crash, and no stock git.  One branch name is a
\* directory of the other; violated: an orphaned lock of x/y leaves a directory
\* at x, and a delete of the packed x is validated and then fails.
SPECIFICATION Spec
CONSTANTS
    x = x
    y = y
    v1 = v1
    v2 = v2
    None = None
    Free = Free
    Refs = {x, y}
    Oids = {v1, v2}
    Procs = {p1}
    Gits = {}
    Below <- NestedBelow
    RefRank <- Rank
    LockAttempts = 2
    Plans <- ChangeSingles
    Preconditions <- NoPrecondition
    Targets <- NoTargets
    Stores <- NestedStores
    Logged <- AllLogged
    NonUtf8Packed = FALSE
    GitOps = {}
    MaxTxns = 2
    MaxGit = 0
    MaxCrashes = 1
INVARIANTS
    ValidatedCommitNotBlocked
CHECK_DEADLOCK FALSE
