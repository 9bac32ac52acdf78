SPECIFICATION Spec
CONSTANTS
    BlockLen = 2
    ByteBits = 3
    CoalesceGap = 1
    CoalesceMax = 6
    MaxTokenBytes = 2
    StopWords <- MCStopWords
    MaxJsonKeys = 4
    MaxValueWords = 5
    GroupPostingsBytes = 12
    GroupTermBytes = 12
    Star = Star
    None = None
    NamePath <- MCNamePath
    RunTypePath <- MCRunTypePath
    StatusPath <- MCStatusPath
    InputsPath <- MCInputsPath
    LsInputsPath <- MCLsInputsPath
    ErrorText <- MCErrorText
    MaxFilterDepth = 3
    MaxFilterNodes = 6
    Segments <- MCSegments
    Filters <- MCFilters
    r1 = r1
    r2 = r2
    r3 = r3
    g1 = g1
    g2 = g2
    g3 = g3
INVARIANTS
    FiltersAnswerTheirMeaning
    IndexRoundTrips
CHECK_DEADLOCK FALSE
