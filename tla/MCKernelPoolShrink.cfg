SPECIFICATION Spec
CONSTANTS
    a1 = a1
    a2 = a2
    bsp = bsp
    BSP = bsp
    APs <- TwoAPs
    Sizes <- SmallerNext
    MaxHangs = 0
INVARIANTS ReturnsEveryResult
