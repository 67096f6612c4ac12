SPECIFICATION Spec
CONSTANTS
    N = 4
    Byzantine = {0}
    Values = {a, b}
    a = a
    b = b
    MaxView = 1
    None = None
CONSTRAINT LastCommitsFirst
SYMMETRY SymmetricValues
CHECK_DEADLOCK FALSE
INVARIANTS Agreement CommitExcludesLater
