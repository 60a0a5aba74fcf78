\* Two gitana processes that move branches, switch HEAD and crash, beside git.
SPECIFICATION FairSpec
CONSTANTS
    x = x
    y = y
    v1 = v1
    v2 = v2
    None = None
    Free = Free
    Refs = {x, y}
    Oids = {v1, v2}
    Procs = {p1, p2}
    Gits = {g1}
    Below <- FlatBelow
    RefRank <- Rank
    LockAttempts = 2
    Plans <- PairPlans
    Preconditions <- HeadPrecondition
    Targets <- AllRefs
    Stores <- ShadowedStore
    Logged <- AllLogged
    NonUtf8Packed = FALSE
    GitOps = {"update", "pack", "switch"}
    MaxTxns = 2
    MaxGit = 1
    MaxCrashes = 1
INVARIANTS
    HeadLogFollowsTip
    LooseTipIsLogged
    PackedRewriteIsCurrent
PROPERTIES EveryOperationReturns ImplementsContract
CHECK_DEADLOCK FALSE
