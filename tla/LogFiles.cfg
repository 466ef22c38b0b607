SPECIFICATION Spec
CONSTANTS
    Inode = {i1, i2, i3, i4}
    None = None
    Cap = 2
    Overrun = 1
    Attempts = 2
    MaxLog = 7
    Chunk <- MCChunk
    Budgets <- MCBudgets
SYMMETRY Symmetry
INVARIANTS
    PositionsContinue
    GenerationsStartLines
    ReadsAreTrue
    FollowedIsTrue
CHECK_DEADLOCK FALSE
