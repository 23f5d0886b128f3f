CONSTANTS
    a = a
    b = b
    f1 = f1
    o1 = o1
    o2 = o2
    Undefined = Undefined
    Absent = Absent
    NoStatus = NoStatus
    Err = Err
    Indices <- MCIndices
    Fields <- MCFields
    Jsons <- MCJsons
    QueryTexts <- MCQueryTexts
    EmptyQuery <- MCEmptyQuery
    Ops <- MCOps
    MaxClicks = 3

SPECIFICATION Spec

INVARIANT QuiescentDetailMatches

CHECK_DEADLOCK FALSE
