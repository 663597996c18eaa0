CONSTANTS
    ada = ada
    box = box
    Name = Name
    Mail = Mail
    Idle = Idle
    NoVersion = NoVersion
    NoSecret = NoSecret
    Callers = {c1}
    Keys = {k1}
    VaultIds = {v1}
    Slots = {r1}
    Values <- MCValues
    LabelOf <- MCLabelOf
    ByModel <- MCByModel
    Texts <- TwoTexts
    Policies <- OnePolicy
    FirstPolicy <- NamesAndMail
    Oversized = {}
    MaxSessions = 1
    Ttl = 1
    CacheMax = 2
    MaxChanges = 0
SPECIFICATION Spec
INVARIANT KnownStaysMasked
CHECK_DEADLOCK FALSE
