CONSTANTS
    i1 = i1
    i2 = i2
    f1 = f1
    f2 = f2
    Indices <- MCIndices
    Fields <- MCFields
    Jsons <- MCJsons
    QueryTexts <- MCQueryTexts
    EmptyQuery <- MCEmptyQuery
    Undefined = Undefined
    Absent = Absent
    NoStatus = NoStatus
    Err = Err
SPECIFICATION Spec
INVARIANT TypeOK
PROPERTY PrefsRefinement
