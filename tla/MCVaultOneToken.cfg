CONSTANTS
    Ids = {s1, s2}
    a = a
    b = b
    h = h
    Name = Name
    Mail = Mail
    Labels <- MCLabels
    Char <- MCChar
    WordChar <- MCWordChar
    MaxOutputs = 2
    MinKnown = 2
    KnownScore = 2
    Requests <- MCRequests
SPECIFICATION Spec
CONSTRAINT FewOutputs
INVARIANT OneTokenPerValue
CHECK_DEADLOCK FALSE
