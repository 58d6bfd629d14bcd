CONSTANTS
    NoLine = NoLine
    End = End
    MaxLines = 3
    MaxConns = 3
    MaxCrashes = 1
SPECIFICATION FairSpec
INVARIANTS
    EveryLineIsSomewhere
    RepeatedMeansResent
PROPERTIES
    WrittenInTheEnd
CHECK_DEADLOCK FALSE
