CONSTANTS
    a = a
    b = b
    f1 = f1
    Undefined = Undefined
    Absent = Absent
    NoStatus = NoStatus
    Err = Err
    Indices <- MCIndices
    Fields <- MCFields
    Jsons <- MCJsons
    QueryTexts <- MCQueryTexts
    EmptyQuery <- MCEmptyQuery
    BadJson = "bad"
    Doc = "doc"
    DocPretty = "doc_pretty"
    Sample <- MCSample
    MaxClicks = 3
    MaxReloads = 1

SPECIFICATION Spec


PROPERTY IndexFailureReported

CHECK_DEADLOCK FALSE
