SPECIFICATION GSpec
CONSTANTS
    Graded = {s1, s2}
    Variants = {"smith"}
    MaxDirs = 0
    PullByDefault = FALSE
    MaxEdits = 1
    MaxRecycles = 0
INVARIANT WritesArrive
CHECK_DEADLOCK FALSE
