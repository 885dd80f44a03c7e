SPECIFICATION LogSpec
CONSTANTS
    MaxLines = 4
    TrimmedLines = 2
    LineChunks = {1, 2}
    OpenOutcomes = {TRUE}
    TmpOutcomes = {TRUE, FALSE}
    MaxChunks = 10
INVARIANTS TailKept
CHECK_DEADLOCK FALSE
