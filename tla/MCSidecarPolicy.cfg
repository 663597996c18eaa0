CONSTANTS
    ada = ada
    box = box
    Name = Name
    Mail = Mail
    Idle = Idle
    NoVersion = NoVersion
    NoSecret = NoSecret
    Callers = {c1}
    Keys = {k1}
    VaultIds = {v1}
    Slots = {r1}
    Values <- MCValues
    LabelOf <- MCLabelOf
    ByModel <- MCByModel
    Texts <- PolicyTexts
    Policies <- TwoPolicies
    FirstPolicy <- NamesAndMail
    Oversized = {}
    MaxSessions = 1
    Ttl = 1
    CacheMax = 1
    MaxChanges = 2
SPECIFICATION Spec
INVARIANTS
    TypeOK
    AnswersMatchPolicy
    NamedPolicyHolds
    HiddenByAllIsHidden
    RunsHideTheKnown
CHECK_DEADLOCK FALSE
