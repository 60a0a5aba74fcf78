\* A repacker that runs twice and a publisher, killed processes and a power loss.
SPECIFICATION Spec
CONSTANTS
    a = a
    b = b
    c = c
    None = None
    Objects = {a, b, c}
    Rank <- PackOrder
    Repackers = {r1}
    Publishers = {q1}
    Readers = {}
    Modes = {"full", "geometric"}
    Limits = {1, 2}
    Factor = 2
    Ways = {"loose", "pack"}
    Pushes = {{a, b}}
    Stores <- MixedStores
    StabilityAttempts = 2
    MaxPackCount = 2
    MaxRepacks = 2
    MaxWrites = 1
    MaxReads = 0
    MaxStops = 1
INVARIANT TypeOK DurableSurvives
PROPERTY ObjectsKept
CHECK_DEADLOCK FALSE
