\* A branch is deleted while packed-refs holds a name that is not UTF-8.
SPECIFICATION Spec
CONSTANTS
    x = x
    y = y
    v1 = v1
    v2 = v2
    None = None
    Free = Free
    Refs = {x, y}
    Oids = {v1, v2}
    Procs = {p1}
    Gits = {g1}
    Below <- FlatBelow
    RefRank <- Rank
    LockAttempts = 2
    Plans <- DeleteSingles
    Preconditions <- NoPrecondition
    Targets <- NoTargets
    Stores <- ShadowedStore
    Logged <- AllLogged
    NonUtf8Packed = TRUE
    GitOps = {}
    MaxTxns = 1
    MaxGit = 0
    MaxCrashes = 0
INVARIANT
    FailureAppliesNothing
CHECK_DEADLOCK FALSE
