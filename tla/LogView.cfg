CONSTANTS
    Logs = {a, b}
    NoLog = NoLog
    Torn = Torn
    MaxLines = 4
    MaxClicks = 3
    MaxCrashes = 1
SPECIFICATION Spec
SYMMETRY Symmetry
INVARIANTS
    NoGap
    ShownAtMostTwice
    ListIsComplete
