CONSTANTS
    c1 = c1
    Writers = {c1}
    Kinds = {"letter"}
    StatusesOf <- LetterStatuses
    Columns <- LetterColumns
    MaxVersion = 9
    MaxRevisions = 0
SPECIFICATION DocumentsSpec
INVARIANT FilledStepsAreOpen
CHECK_DEADLOCK FALSE
