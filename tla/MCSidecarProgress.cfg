CONSTANTS
    ada = ada
    box = box
    Name = Name
    Mail = Mail
    Idle = Idle
    NoVersion = NoVersion
    NoSecret = NoSecret
    Callers = {c1}
    Keys = {k1}
    VaultIds = {v1, v2}
    Slots = {r1}
    Values <- MCValues
    LabelOf <- MCLabelOf
    ByModel <- MCByModel
    Texts <- Pair
    Policies <- OnePolicy
    FirstPolicy <- NamesAndMail
    Oversized <- Pair
    MaxSessions = 1
    Ttl = 1
    CacheMax = 2
    MaxChanges = 0
SPECIFICATION FairSpec
PROPERTIES
    Answered
    ExpiredAreForgotten
    ClosingEnds
CHECK_DEADLOCK FALSE
