\* Two repackers that ask for one size, and an object written between them.
SPECIFICATION Spec
CONSTANTS
    a = a
    b = b
    c = c
    None = None
    Objects = {a, b, c}
    Rank <- PackOrder
    Repackers = {r1, r2}
    Publishers = {q1}
    Readers = {}
    Modes = {"full"}
    Limits = {2}
    Factor = 2
    Ways = {"loose"}
    Pushes = {{a}}
    Stores <- TwoPackStore
    StabilityAttempts = 2
    MaxPackCount = 3
    MaxRepacks = 2
    MaxWrites = 1
    MaxReads = 0
    MaxStops = 0
PROPERTY ObjectsKept
CHECK_DEADLOCK FALSE
