\* A rebase, a refused checkout, and the user stages an edit and continues.
SPECIFICATION Spec
CONSTANTS
    p = p
    q = q
    r = r
    s = s
    t = t
    a = a
    b = b
    d = d
    g = g
    u = u
    w = w
    f = f
    e = e
    Marker = Marker
    Paths <- MCPaths
    Changes = {a, b, d, g, u, w, f, e}
    Opaque = {t}
    PathOf <- MCPathOf
    Mine <- MCMine
    Theirs <- MCTheirs
    Starts = {1, 4}
    Upstreams = {5}
    Foreign = {f}
    Edits = {e}
    KillAt = {}
    MaxCommands = 3
    MaxForeign = 0
    MaxRefusals = 1
    MaxKills = 0
INVARIANT RebaseReplaysAll
CHECK_DEADLOCK FALSE
