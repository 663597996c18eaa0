CONSTANTS
    Ids = {s1, s2}
    a = a
    b = b
    h = h
    Name = Name
    Mail = Mail
    Labels <- MCLabels
    Char <- MCChar
    WordChar <- MCWordChar
    MaxOutputs = 4
    MinKnown = 2
    KnownScore = 2
    Requests <- MCRequests
    MaxOpenBuffer = 4
    MaxText = 8
    MaxChunk = 3
SPECIFICATION SpecWays
CONSTRAINT FewOutputs
INVARIANTS
    TypeOK
    Consistent
    RoundTrip
    Unambiguous
    OneTokenPerLabel
    RestoresTheWhole
PROPERTIES
    ReadingOrder
    KeepsPromise
CHECK_DEADLOCK FALSE
