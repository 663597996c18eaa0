CONSTANTS
    ada = ada
    box = box
    Name = Name
    Mail = Mail
    Idle = Idle
    NoVersion = NoVersion
    NoSecret = NoSecret
    Callers = {c1, c2}
    Keys = {k1, k2, k3}
    VaultIds = {v1, v2, v3}
    Slots = {r1}
    Values <- MCValues
    LabelOf <- MCLabelOf
    ByModel <- MCByModel
    Texts <- OneText
    Policies <- OnePolicy
    FirstPolicy <- NamesAndMail
    Oversized = {}
    MaxSessions = 2
    Ttl = 2
    CacheMax = 2
    MaxChanges = 0
SPECIFICATION Spec
SYMMETRY Alike
INVARIANTS
    VaultsFollowSessions
    OwnValuesOnly
    ShutdownLosesNothing
PROPERTIES
    ExpiredStayExpired
    NeverEvicted
CHECK_DEADLOCK FALSE
