\* Commands in a row with a kill, a commit of another writer and a refused checkout.
SPECIFICATION FairSpec
CONSTANTS
    p = p
    q = q
    r = r
    s = s
    t = t
    a = a
    b = b
    d = d
    g = g
    u = u
    w = w
    f = f
    e = e
    Marker = Marker
    Paths <- MCPaths
    Changes = {a, b, d, g, u, w, f, e}
    Opaque = {t}
    PathOf <- MCPathOf
    Mine <- MCMine
    Theirs <- MCTheirs
    Starts = {1, 4}
    Upstreams = {5}
    Foreign = {f}
    Edits = {e}
    KillAt <- EveryPoint
    MaxCommands = 3
    MaxForeign = 1
    MaxRefusals = 1
    MaxKills = 1
INVARIANTS
    TypeOK
    StartedRebaseReplaysAll
    AbortRestoresTip
    BuiltOnItsParent
    NoMarkersCommitted
PROPERTIES MovesAreRecoverable AbortEnds
CHECK_DEADLOCK FALSE
