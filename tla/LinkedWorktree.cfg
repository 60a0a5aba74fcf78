\* A prepared create repeated, a rival, gta commands, the user and one kill.
SPECIFICATION FairSpec
CONSTANTS
    d1 = d1
    d2 = d2
    m = m
    b = b
    c = c
    client = client
    rival = rival
    None = None
    Torn = Torn
    Free = Free
    Stale = Stale
    Dests = {d1, d2}
    Branches = {m, b, c}
    Tips <- MCTips
    Main = m
    Client = client
    Rival = rival
    Intent <- MCIntent
    Requests <- MCRequests
    MaxTip = 2
    MaxAdmins = 3
    MaxCalls = 2
    MaxGta = 1
    MaxEdits = 1
    MaxKills = 1
INVARIANTS
    TypeOK
    RegistrationUnique
    NoOrphanCheckout
    LiveIsComplete
PROPERTIES UserContentKept LostRaceIsReported RecoveryConverges
CHECK_DEADLOCK FALSE
