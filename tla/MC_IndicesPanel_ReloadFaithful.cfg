CONSTANTS
    a = a
    b = b
    f1 = f1
    Indices <- MCIndices
    Fields <- MCFields
    Jsons <- MCJsons
    QueryTexts <- MCQueryTexts
    EmptyQuery <- MCEmptyQuery
    Undefined = Undefined
    Absent = Absent
    NoStatus = NoStatus
    Err = Err
    MaxClicks = 2
    MaxReloads = 1
SPECIFICATION Spec
INVARIANT ReloadFaithful
