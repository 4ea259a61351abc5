\* Two delete dialogs, the answer of the first arriving in the second.
CONSTANTS
    Rows = {1, 2}
    MaxInputs = 4
    MaxMoves = 0
SPECIFICATION DialogSpec
INVARIANT DeletesShown
CHECK_DEADLOCK FALSE
