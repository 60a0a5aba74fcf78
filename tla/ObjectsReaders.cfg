\* Two repackers that write one pack each, a killed repack, and a reader.
SPECIFICATION Spec
CONSTANTS
    a = a
    b = b
    c = c
    None = None
    Objects = {a, b, c}
    Rank <- PackOrder
    Repackers = {r1, r2}
    Publishers = {}
    Readers = {x1}
    Modes = {"full", "geometric"}
    Limits = {3}
    Factor = 2
    Ways = {"pack"}
    Pushes = {{a}}
    Stores <- MixedStores
    StabilityAttempts = 2
    MaxPackCount = 2
    MaxRepacks = 2
    MaxWrites = 0
    MaxReads = 1
    MaxStops = 1
INVARIANT DurableIsFound
PROPERTY ObjectsKept
CHECK_DEADLOCK FALSE
