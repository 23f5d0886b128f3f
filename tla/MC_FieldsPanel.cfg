CONSTANTS
    a = a
    b = b
    f1 = f1
    Undefined = Undefined
    Absent = Absent
    NoStatus = NoStatus
    Err = Err
    Indices <- MCIndices
    Fields <- MCFields
    Jsons <- MCJsons
    QueryTexts <- MCQueryTexts
    EmptyQuery <- MCEmptyQuery
    ReRenderLimit = 25
    MaxClicks = 2

SPECIFICATION Spec

PROPERTY FieldsListed

CHECK_DEADLOCK FALSE
