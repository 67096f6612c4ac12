SPECIFICATION Spec
CONSTANTS
    Releases = {2, 3}
    Initial = 1
    Nothing = Nothing
INVARIANTS ActiveSlotHoldsVersion
CHECK_DEADLOCK FALSE
