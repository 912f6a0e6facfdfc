SPECIFICATION FairSpec
CONSTANTS
    Bits <- MCBits
    Depth = 2
    Offsets = {0, 1, 2}
    Pages <- MCPages
    Stores <- MCStores
    Inputs <- MCInputs
    Image <- MCImage
    Far <- MCFar
    Unused = FALSE
INVARIANTS GpioObeys
PROPERTIES BootIsMemory Answered
